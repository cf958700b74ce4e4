--------------------------- MODULE ConsoleProofs ----------------------------
(***************************************************************************)
(* Proofs about KernelConsole.                                             *)
(***************************************************************************)
EXTENDS KernelConsole, ListTheorems

Byte == Char \cup {NUL}

-----------------------------------------------------------------------------
(* The recursive functions of the model. *)

LEMMA SentType ==
  ASSUME NEW s \in Seq(Byte)
  PROVE  Sent(s) \in Seq(Byte)
<1> DEFINE V == Seq(Byte)
           piece(k) == IF s[k] = "\n" THEN <<"\r", "\n">> ELSE <<s[k]>>
           body(g, k) == IF k = 0 THEN <<>> ELSE g[k - 1] \o piece(k)
           stop == {0}
           start == [k \in Nat |-> <<>>]
           prev == [k \in Nat |-> IF k = 0 THEN 0 ELSE k - 1]
           step == [p \in Nat \X V |-> IF p[1] \in 1..Len(s) THEN p[2] \o piece(p[1]) ELSE <<>>]
           f == CHOOSE g : g = [k \in 0..Len(s) |-> body(g, k)]
<1>1. \A k \in 1..Len(s) : piece(k) \in V
  <2>1. "\r" \in Byte /\ "\n" \in Byte
    BY DEF Byte, Char
  <2>2. <<"\r", "\n">> \in V
    BY <2>1
  <2>3. ASSUME NEW k \in 1..Len(s)
        PROVE  <<s[k]>> \in V
    OBVIOUS
  <2>4. QED
    BY <2>2, <2>3
<1> HIDE DEF piece
<1>2. Descent(V, stop, start, prev, step)
  <2>1. stop \subseteq Nat /\ start \in [Nat -> V] /\ prev \in [Nat -> Nat]
    OBVIOUS
  <2>2. \A k \in Nat \ stop : prev[k] < k
    OBVIOUS
  <2>3. step \in [Nat \X V -> V]
    BY <1>1
  <2>4. QED
    BY <2>1, <2>2, <2>3 DEF Descent
<1>3. PICK h \in [Nat -> V] : \A k \in Nat : Unfolds(h, k, stop, start, prev, step)
  <2> HIDE DEF V, stop, start, prev, step
  <2> QED
    BY <1>2, DescentDefines
<1>4. \E g : g = [k \in 0..Len(s) |-> body(g, k)]
  <2> DEFINE g == [k \in 0..Len(s) |-> h[k]]
  <2>1. ASSUME NEW k \in 0..Len(s)
        PROVE  g[k] = body(g, k)
    <3>1. g[k] = h[k] /\ Unfolds(h, k, stop, start, prev, step)
      <4>1. k \in Nat
        OBVIOUS
      <4>2. QED
        BY <1>3, <4>1
    <3>2. CASE k = 0
      BY <3>1, <3>2 DEF Unfolds
    <3>3. CASE k # 0
      <4>1. k - 1 \in 0..Len(s) /\ k \in 1..Len(s) /\ k \in Nat
        BY <3>3
      <4>2. h[k] = step[<<k, h[k - 1]>>]
        BY <3>1, <3>3, <4>1 DEF Unfolds
      <4>3. h[k] = h[k - 1] \o piece(k)
        <5>1. h[k - 1] \in V
          BY <1>3, <4>1
        <5>2. <<k, h[k - 1]>> \in Nat \X V
          BY <4>1, <5>1
        <5>3. QED
          BY <4>1, <4>2, <5>2
      <4>4. g[k - 1] = h[k - 1]
        BY <4>1
      <4>5. QED
        BY <3>1, <3>3, <4>3, <4>4
    <3>4. QED
      BY <3>2, <3>3
  <2>2. g = [k \in 0..Len(s) |-> body(g, k)]
    BY <2>1
  <2> HIDE DEF g, body
  <2>3. QED
    BY <2>2
<1>5. f = [k \in 0..Len(s) |-> body(f, k)]
  <2> HIDE DEF body
  <2> QED
    BY <1>4
<1>6. Sent(s) = f[Len(s)]
  BY DEF Sent, piece
<1> HIDE DEF f
<1> DEFINE S == {k \in Nat : k <= Len(s) => f[k] \in V}
<1>7. 0 \in S
  BY <1>5
<1>8. ASSUME NEW k \in Nat, k \in S
      PROVE  k + 1 \in S
  <2>1. SUFFICES ASSUME k + 1 <= Len(s)
                 PROVE  f[k + 1] \in V
    OBVIOUS
  <2>2. f[k] \in V /\ k + 1 \in 1..Len(s) /\ (k + 1) - 1 = k
    BY <1>8, <2>1
  <2>3. f[k + 1] = f[k] \o piece(k + 1)
    <3> DEFINE q == k + 1
    <3>1. q \in 0..Len(s) /\ q # 0 /\ q - 1 = k
      BY <2>2
    <3> HIDE DEF q
    <3>2. f[q] = body(f, q)
      BY <1>5, <3>1
    <3>3. f[q] = f[k] \o piece(q)
      BY <3>1, <3>2
    <3>4. QED
      BY <3>3 DEF q
  <2>4. QED
    BY <1>1, <2>2, <2>3
<1> HIDE DEF S
<1>9. Nat \subseteq S
  BY <1>7, <1>8, NaturalInduction
<1>10. Len(s) \in S
  BY <1>9
<1>11. QED
  BY <1>6, <1>10 DEF S

(* The character for the last digit of k. *)
LastDigit(k, base, small) ==
  LET d == (k % base) + 1 IN IF d <= 10 \/ small THEN Digit[d] ELSE Upper[d - 10]

Base == {2, 8, 10, 16}

LEMMA BaseFacts ==
  ASSUME NEW base \in Base, NEW k \in Nat
  PROVE  /\ base \in Nat /\ base > 1
         /\ k \div base \in Nat
         /\ k >= base => k \div base < k
         /\ k % base \in 0..(base - 1)
         /\ k = base * (k \div base) + (k % base)
<1>1. CASE base = 2
  BY <1>1
<1>2. CASE base = 8
  BY <1>2
<1>3. CASE base = 10
  BY <1>3
<1>4. CASE base = 16
  BY <1>4
<1>5. QED
  BY <1>1, <1>2, <1>3, <1>4 DEF Base

LEMMA LastDigitType ==
  ASSUME NEW base \in Base, NEW k \in Nat, NEW small
  PROVE  LastDigit(k, base, small) \in Byte
<1> DEFINE d == (k % base) + 1
<1>1. d \in 1..16
  BY BaseFacts DEF Base
<1> HIDE DEF d
<1>2. Digit[d] \in Byte
  <2>1. d \in 1..36
    BY <1>1
  <2>2. Digit[d] \in {Digit[m] : m \in 1..36}
    BY <2>1
  <2>3. QED
    BY <2>2 DEF Byte, Char
<1>3. ~ (d <= 10) => d - 10 \in 1..26
  BY <1>1
<1>4. ~ (d <= 10) => Upper[d - 10] \in Byte
  BY <1>3 DEF Byte, Char
<1>5. QED
  BY <1>2, <1>4 DEF LastDigit, d

LEMMA DigitsUnfold ==
  ASSUME NEW base \in Base, NEW num \in Nat, NEW small
  PROVE  DigitsOf(num, base, small) =
           IF num < base THEN <<LastDigit(num, base, small)>>
           ELSE DigitsOf(num \div base, base, small) \o <<LastDigit(num, base, small)>>
<1> DEFINE V == Seq(Byte)
           ch(k) == <<LastDigit(k, base, small)>>
           body(g, k) == IF k < base THEN ch(k) ELSE g[k \div base] \o ch(k)
           stop == {k \in Nat : k < base}
           start == [k \in Nat |-> ch(k)]
           prev == [k \in Nat |-> k \div base]
           step == [p \in Nat \X V |-> p[2] \o ch(p[1])]
           f == CHOOSE g : g = [k \in Nat |-> body(g, k)]
<1>1. \A k \in Nat : ch(k) \in V
  BY LastDigitType
<1> HIDE DEF ch
<1>2. Descent(V, stop, start, prev, step)
  <2>1. stop \subseteq Nat /\ start \in [Nat -> V] /\ prev \in [Nat -> Nat]
    BY <1>1, BaseFacts
  <2>2. \A k \in Nat \ stop : prev[k] < k
    <3>1. ASSUME NEW k \in Nat, k \notin stop
          PROVE  prev[k] < k
      <4>1. k >= base
        BY <3>1, BaseFacts
      <4>2. QED
        BY <4>1, BaseFacts
    <3>2. QED
      BY <3>1
  <2>3. step \in [Nat \X V -> V]
    <3>1. ASSUME NEW p \in Nat \X V
          PROVE  p[2] \o ch(p[1]) \in V
      <4>1. p[1] \in Nat /\ p[2] \in V
        OBVIOUS
      <4>2. ch(p[1]) \in V
        BY <1>1, <4>1
      <4>3. QED
        BY <4>1, <4>2
    <3>2. QED
      BY <3>1
  <2>4. QED
    BY <2>1, <2>2, <2>3 DEF Descent
<1>3. PICK h \in [Nat -> V] : \A k \in Nat : Unfolds(h, k, stop, start, prev, step)
  <2> HIDE DEF V, stop, start, prev, step
  <2> QED
    BY <1>2, DescentDefines
<1>4. \A k \in Nat : h[k] = body(h, k)
  <2>1. TAKE k \in Nat
  <2>2. k \in stop <=> k < base
    OBVIOUS
  <2>3. start[k] = ch(k)
    OBVIOUS
  <2>4. step[<<k, h[k \div base]>>] = h[k \div base] \o ch(k)
    <3>1. <<k, h[k \div base]>> \in Nat \X V
      BY <1>3, BaseFacts
    <3>2. QED
      BY <3>1
  <2>5. prev[k] = k \div base
    OBVIOUS
  <2> HIDE DEF stop, start, prev, step
  <2>6. QED
    BY <1>3, <2>2, <2>3, <2>4, <2>5 DEF Unfolds
<1>5. h = [k \in Nat |-> body(h, k)]
  BY <1>4
<1>6. f = [k \in Nat |-> body(f, k)]
  <2> HIDE DEF body
  <2> QED
    BY <1>5
<1>7. \A k : DigitsOf(k, base, small) = f[k]
  BY DEF DigitsOf, ch, LastDigit
<1> HIDE DEF f
<1>8. f[num] = body(f, num)
  <2> HIDE DEF body
  <2> QED
    BY <1>6
<1>9. QED
  BY <1>7, <1>8 DEF ch

LEMMA DigitsType ==
  ASSUME NEW base \in Base, NEW num \in Nat, NEW small
  PROVE  DigitsOf(num, base, small) \in Seq(Byte)
<1> DEFINE D(k) == DigitsOf(k, base, small)
           T == {k \in Nat : D(k) \notin Seq(Byte)}
<1>1. SUFFICES ASSUME T # {}
               PROVE  FALSE
  OBVIOUS
<1>2. PICK x \in T : \A y \in T : x <= y
  BY <1>1, LeastNumber
<1>3. x >= base => D(x \div base) \in Seq(Byte)
  BY <1>2, BaseFacts
<1>4. <<LastDigit(x, base, small)>> \in Seq(Byte)
  BY LastDigitType
<1>5. D(x) \in Seq(Byte)
  <2> DEFINE ch == <<LastDigit(x, base, small)>>
  <2>1. D(x) = IF x < base THEN ch ELSE D(x \div base) \o ch
    BY DigitsUnfold
  <2>2. x \in Nat /\ base \in Nat
    BY BaseFacts
  <2> HIDE DEF ch, D
  <2>3. QED
    BY <1>3, <1>4, <2>1, <2>2 DEF ch
<1>6. QED
  BY <1>5

-----------------------------------------------------------------------------
(* The routines of CString. *)

LEMMA SkipStops ==
  ASSUME NEW s \in Seq(Byte), NEW a \in 1..(Len(s) + 1), NEW S
  PROVE  /\ Skip(s, a, S) \in a..(Len(s) + 1)
         /\ Skip(s, a, S) = Len(s) + 1 \/ s[Skip(s, a, S)] \notin S
         /\ \A k \in a..(Skip(s, a, S) - 1) : s[k] \in S
<1> DEFINE T == {j \in a..(Len(s) + 1) : j = Len(s) + 1 \/ s[j] \notin S}
<1>1. Len(s) \in Nat /\ Len(s) + 1 \in T /\ T \in SUBSET Nat
  OBVIOUS
<1>2. PICK x \in T : \A y \in T : x <= y
  BY <1>1, LeastNumber
<1>3. \A k \in a..(x - 1) : s[k] \in S
  BY <1>1, <1>2
<1>4. \E j \in a..(Len(s) + 1) : /\ j = Len(s) + 1 \/ s[j] \notin S
                               /\ \A k \in a..(j - 1) : s[k] \in S
  BY <1>3
<1>5. QED
  BY <1>4 DEF Skip

LEMMA ToLongType ==
  ASSUME NEW x \in Int
  PROVE  ToLong(x) \in Int
BY CStringAssumption DEF ToLong

LEMMA DigitValueType ==
  ASSUME NEW base \in 1..36, NEW ch \in Digits(base)
  PROVE  DigitValue(ch) \in Int
<1>1. CASE \E k \in 1..36 : Digit[k] = ch
  BY <1>1 DEF DigitValue
<1>2. CASE ~ \E k \in 1..36 : Digit[k] = ch
  <2>1. \E k \in 1..26 : Upper[k] = ch
    BY <1>2 DEF Digits
  <2> DEFINE w == CHOOSE k \in 1..26 : Upper[k] = ch
  <2>2. w \in 1..26
    BY <2>1
  <2>3. DigitValue(ch) = w + 9
    BY <1>2 DEF DigitValue
  <2> HIDE DEF w
  <2>4. QED
    BY <2>2, <2>3
<1>3. QED
  BY <1>1, <1>2

(* The last of the digits from a on, and the value of the digits a .. j. *)
DigitsEnd(s, a, base) == Skip(s, a, Digits(base)) - 1
ValueAt(s, a, base) ==
  CHOOSE v : v = [j \in (a - 1)..DigitsEnd(s, a, base) |->
                    IF j < a THEN 0 ELSE ToLong(v[j - 1] * base + DigitValue(s[j]))]

LEMMA ValueUnfold ==
  ASSUME NEW s \in Seq(Byte), NEW a \in 1..(Len(s) + 1), NEW base \in 1..36
  PROVE  LET v == ValueAt(s, a, base)
             last == DigitsEnd(s, a, base)
         IN  /\ ValueFrom(s, a, base) = v[last]
             /\ v[a - 1] = 0
             /\ \A j \in a..last : v[j] = ToLong(v[j - 1] * base + DigitValue(s[j]))
             /\ \A j \in (a - 1)..last : v[j] \in Int
<1> DEFINE v == ValueAt(s, a, base)
           last == DigitsEnd(s, a, base)
<1>0. last = Skip(s, a, Digits(base)) - 1
  BY DEF DigitsEnd
<1>4. ValueFrom(s, a, base) = v[last]
  BY DEF ValueFrom, ValueAt, DigitsEnd
<1> DEFINE body(g, j) == IF j < a THEN 0 ELSE ToLong(g[j - 1] * base + DigitValue(s[j]))
<1> HIDE DEF v, last
<1>1. /\ last \in (a - 1)..Len(s) /\ a \in Nat /\ Len(s) \in Nat /\ base \in Nat
      /\ \A j \in a..last : DigitValue(s[j]) \in Int
  <2>1. Skip(s, a, Digits(base)) \in a..(Len(s) + 1)
    BY SkipStops
  <2>2. last \in (a - 1)..Len(s) /\ a \in Nat /\ Len(s) \in Nat /\ base \in Nat
    BY <1>0, <2>1
  <2>3. \A j \in a..last : s[j] \in Digits(base)
    BY <1>0, SkipStops
  <2>4. QED
    BY <2>2, <2>3, DigitValueType
<1>2. \E g : g = [j \in (a - 1)..last |-> body(g, j)]
  <2> DEFINE stop == {0}
             start == [k \in Nat |-> 0]
             prev == [k \in Nat |-> IF k = 0 THEN 0 ELSE k - 1]
             step == [p \in Nat \X Int |->
                        IF p[1] \in 1..(last - a + 1)
                        THEN ToLong(p[2] * base + DigitValue(s[a - 1 + p[1]])) ELSE 0]
  <2>1. step \in [Nat \X Int -> Int]
    <3>1. ASSUME NEW p \in Nat \X Int, p[1] \in 1..(last - a + 1)
          PROVE  ToLong(p[2] * base + DigitValue(s[a - 1 + p[1]])) \in Int
      <4>1. a - 1 + p[1] \in a..last /\ p[2] \in Int
        BY <1>1, <3>1
      <4>2. p[2] * base + DigitValue(s[a - 1 + p[1]]) \in Int
        BY <1>1, <4>1
      <4>3. QED
        BY <4>2, ToLongType
    <3>2. QED
      BY <3>1
  <2>2. Descent(Int, stop, start, prev, step)
    <3>1. stop \subseteq Nat /\ start \in [Nat -> Int] /\ prev \in [Nat -> Nat]
      OBVIOUS
    <3>2. \A k \in Nat \ stop : prev[k] < k
      OBVIOUS
    <3> HIDE DEF step, stop, start, prev
    <3>3. QED
      BY <2>1, <3>1, <3>2 DEF Descent
  <2>3. PICK h \in [Nat -> Int] : \A k \in Nat : Unfolds(h, k, stop, start, prev, step)
    <3> HIDE DEF stop, start, prev, step
    <3> QED
      BY <2>2, DescentDefines
  <2> DEFINE g == [j \in (a - 1)..last |-> h[j - (a - 1)]]
  <2>4. ASSUME NEW j \in (a - 1)..last
        PROVE  g[j] = body(g, j)
    <3>1. CASE j < a
      <4>1. j = a - 1 /\ j - (a - 1) = 0
        BY <1>1, <3>1
      <4>2. h[0] = 0
        BY <2>3 DEF Unfolds
      <4>3. QED
        BY <3>1, <4>1, <4>2
    <3>2. CASE ~ (j < a)
      <4> DEFINE k == j - (a - 1)
      <4>1. /\ k \in Nat /\ k # 0 /\ k \in 1..(last - a + 1)
            /\ k - 1 = (j - 1) - (a - 1) /\ a - 1 + k = j /\ j - 1 \in (a - 1)..last
        BY <1>1, <3>2
      <4>2. g[j] = h[k] /\ g[j - 1] = h[k - 1]
        BY <4>1
      <4> HIDE DEF k, g
      <4>3. <<k, h[k - 1]>> \in Nat \X Int
        <5>1. k - 1 \in Nat
          BY <4>1
        <5>2. h[k - 1] \in Int
          BY <5>1
        <5>3. QED
          BY <4>1, <5>2
      <4>4. h[k] = step[<<k, h[k - 1]>>]
        <5>1. prev[k] = k - 1 /\ k \notin stop
          BY <4>1
        <5> HIDE DEF step, prev, stop
        <5>2. QED
          BY <2>3, <4>1, <5>1 DEF Unfolds
      <4>5. h[k] = ToLong(h[k - 1] * base + DigitValue(s[a - 1 + k]))
        BY <4>1, <4>3, <4>4
      <4>6. QED
        BY <3>2, <4>1, <4>2, <4>5
    <3>3. QED
      BY <3>1, <3>2
  <2>5. g = [j \in (a - 1)..last |-> body(g, j)]
    BY <2>4
  <2> HIDE DEF g, body
  <2>6. QED
    BY <2>5
<1>3. v = [j \in (a - 1)..last |-> body(v, j)]
  <2>1. v = CHOOSE g : g = [j \in (a - 1)..last |-> body(g, j)]
    BY DEF ValueAt, v, last
  <2> HIDE DEF body
  <2>2. QED
    BY <1>2, <2>1
<1>5. v[a - 1] = 0
  BY <1>1, <1>3
<1>6. ASSUME NEW j \in a..last
      PROVE  v[j] = ToLong(v[j - 1] * base + DigitValue(s[j]))
  <2>1. j \in (a - 1)..last /\ ~ (j < a)
    BY <1>1
  <2>2. v[j] = body(v, j)
    <3> HIDE DEF body
    <3> QED
      BY <1>3, <2>1
  <2>3. QED
    BY <2>1, <2>2
<1> HIDE DEF body
<1> DEFINE S == {k \in Nat : a - 1 + k <= last => v[a - 1 + k] \in Int}
<1>7. 0 \in S
  BY <1>1, <1>5
<1>8. ASSUME NEW k \in Nat, k \in S
      PROVE  k + 1 \in S
  <2>1. SUFFICES ASSUME a - 1 + (k + 1) <= last
                 PROVE  v[a - 1 + (k + 1)] \in Int
    OBVIOUS
  <2> DEFINE j == a - 1 + (k + 1)
  <2>2. j \in a..last /\ j - 1 = a - 1 + k /\ a - 1 + k <= last
    BY <1>1, <2>1
  <2> HIDE DEF j
  <2>3. v[j - 1] \in Int /\ DigitValue(s[j]) \in Int
    BY <1>1, <1>8, <2>2
  <2>4. v[j - 1] * base + DigitValue(s[j]) \in Int
    BY <1>1, <2>3
  <2>5. v[j] \in Int
    BY <1>6, <2>2, <2>4, ToLongType
  <2>6. QED
    BY <2>5 DEF j
<1> HIDE DEF S
<1>9. Nat \subseteq S
  BY <1>7, <1>8, NaturalInduction
<1>10. ASSUME NEW j \in (a - 1)..last
       PROVE  v[j] \in Int
  <2>1. j - (a - 1) \in S /\ a - 1 + (j - (a - 1)) = j /\ j <= last
    BY <1>1, <1>9
  <2>2. QED
    BY <2>1 DEF S
<1>11. QED
  BY <1>4, <1>5, <1>6, <1>10 DEF v, last

LEMMA ValueType ==
  ASSUME NEW s \in Seq(Byte), NEW a \in 1..(Len(s) + 1), NEW base \in 1..36
  PROVE  ValueFrom(s, a, base) \in Int
<1> DEFINE last == DigitsEnd(s, a, base)
<1>1. last \in (a - 1)..last
  <2>1. Skip(s, a, Digits(base)) \in a..(Len(s) + 1)
    BY SkipStops
  <2>2. QED
    BY <2>1 DEF DigitsEnd
<1>2. QED
  BY <1>1, ValueUnfold

-----------------------------------------------------------------------------
(* What vsnprintf puts. *)

LEMMA Literals ==
  /\ " " \in Byte /\ "-" \in Byte /\ "+" \in Byte /\ "%" \in Byte
  /\ "0" \in Byte /\ "x" \in Byte /\ "X" \in Byte
  /\ "a" \in Byte /\ NUL \in Byte
BY DEF Byte, Char

LEMMA ShortType ==
  ASSUME NEW ch \in Byte, NEW d \in Byte
  PROVE  <<ch>> \in Seq(Byte) /\ <<ch, d>> \in Seq(Byte) /\ <<>> \in Seq(Byte)
OBVIOUS

LEMMA ConcatType ==
  ASSUME NEW s \in Seq(Byte), NEW t \in Seq(Byte)
  PROVE  s \o t \in Seq(Byte)
OBVIOUS

LEMMA ModWord ==
  ASSUME NEW x \in Int
  PROVE  /\ WORD \in Nat /\ x % WORD \in 0..(WORD - 1)
         /\ 0 <= x /\ x < WORD => x % WORD = x
BY CStringAssumption

LEMMA RepeatType ==
  ASSUME NEW ch \in Byte, NEW w \in Int, NEW len \in Nat
  PROVE  Repeat(ch, Wide(w, len)) \in Seq(Byte) /\ Len(Repeat(ch, Wide(w, len))) = Wide(w, len)
<1>1. Wide(w, len) \in Nat
  BY DEF Wide
<1>2. QED
  BY <1>1 DEF Repeat

LEMMA StringType ==
  ASSUME NEW s \in Seq(Byte), NEW w \in Int, NEW fl
  PROVE  fmt_str(s, w, fl) \in Seq(Byte)
<1> DEFINE blanks == Repeat(" ", Wide(w, Len(s)))
<1>1. blanks \in Seq(Byte)
  <2>1. Len(s) \in Nat
    OBVIOUS
  <2>2. QED
    BY <2>1, Literals, RepeatType
<1> HIDE DEF blanks
<1>2. QED
  BY <1>1, ConcatType DEF fmt_str, blanks

LEMMA NumberType ==
  ASSUME NEW num \in Int, NEW base \in Base, NEW w \in Int, NEW fl
  PROVE  fmt_int(num, base, w, fl) \in Seq(Byte)
<1> DEFINE negative == "SIGNED" \in fl /\ num < 0
           sign == IF negative THEN <<"-">>
                   ELSE IF "PLUS" \in fl THEN <<"+">>
                   ELSE IF "SPACE" \in fl THEN <<" ">> ELSE <<>>
           prefix == IF "ALTERNATE" \notin fl THEN <<>>
                     ELSE IF base = 16 THEN <<"0", IF "SMALL" \in fl THEN "x" ELSE "X">>
                     ELSE IF base = 8 THEN <<"0">> ELSE <<>>
           digits == DigitsOf((IF negative THEN -num ELSE num) % WORD, base, "SMALL" \in fl)
           head == sign \o prefix
           pad == Wide(w, Len(head \o digits))
<1>1. sign \in Seq(Byte)
  <2>1. <<"-">> \in Seq(Byte) /\ <<"+">> \in Seq(Byte) /\ <<" ">> \in Seq(Byte)
    BY Literals, ShortType, Zenon
  <2>2. <<>> \in Seq(Byte)
    OBVIOUS
  <2> HIDE DEF negative
  <2>3. QED
    BY <2>1, <2>2, Zenon
<1>2. prefix \in Seq(Byte)
  <2>1. <<"0", "x">> \in Seq(Byte) /\ <<"0", "X">> \in Seq(Byte) /\ <<"0">> \in Seq(Byte)
    BY Literals, ShortType, Zenon
  <2>2. QED
    BY <2>1
<1>3. digits \in Seq(Byte)
  <2> DEFINE m == (IF negative THEN -num ELSE num) % WORD
  <2>1. m \in Nat
    BY ModWord
  <2> HIDE DEF m
  <2>2. DigitsOf(m, base, "SMALL" \in fl) \in Seq(Byte)
    BY <2>1, DigitsType
  <2>3. QED
    BY <2>2 DEF m
<1>4. fmt_int(num, base, w, fl) =
        IF "LEFT" \in fl THEN head \o digits \o Repeat(" ", pad)
        ELSE IF "ZEROPAD" \in fl THEN head \o Repeat("0", pad) \o digits
        ELSE Repeat(" ", pad) \o sign \o prefix \o digits
  BY DEF fmt_int
<1> HIDE DEF sign, prefix, digits
<1>5. head \in Seq(Byte) /\ Len(head \o digits) \in Nat
  BY <1>1, <1>2, <1>3
<1>6. Repeat(" ", pad) \in Seq(Byte) /\ Repeat("0", pad) \in Seq(Byte)
  BY <1>5, Literals, RepeatType
<1> HIDE DEF pad
<1>7. QED
  <2> DEFINE blanks == Repeat(" ", pad)
             zeros == Repeat("0", pad)
  <2>1. blanks \in Seq(Byte) /\ zeros \in Seq(Byte)
    BY <1>6
  <2> HIDE DEF blanks, zeros, head
  <2>2. (head \o digits) \o blanks \in Seq(Byte)
    BY <1>3, <1>5, <2>1, ConcatType
  <2>3. (head \o zeros) \o digits \in Seq(Byte)
    BY <1>3, <1>5, <2>1, ConcatType
  <2>4. ((blanks \o sign) \o prefix) \o digits \in Seq(Byte)
    <3>1. (blanks \o sign) \o prefix \in Seq(Byte)
      BY <1>1, <1>2, <2>1, ConcatType
    <3>2. QED
      BY <1>3, <3>1, ConcatType
  <2>5. QED
    BY <1>4, <2>2, <2>3, <2>4 DEF blanks, zeros

-----------------------------------------------------------------------------
(* The buffer and what was put into it. *)
BufferOK ==
  /\ size \in 0..(WORD - 1)
  /\ out \in Seq(Byte) /\ n = Len(out)
  /\ DOMAIN buf \subseteq 0..(size - 1)
  /\ \A p \in DOMAIN buf : buf[p] \in Byte

(* Until vsnprintf ends the text, every character that fits is in place. *)
Complete ==
  \A p \in 0..(size - 1) : p < n => p \in DOMAIN buf /\ buf[p] = out[p + 1]

LEMMA PutKeeps ==
  ASSUME NEW s \in Seq(Byte), BufferOK, Complete, Put(s), size' = size
  PROVE  BufferOK' /\ Complete'
<1> DEFINE written == {p \in n..(n + Len(s) - 1) : p < size}
<1>1. buf' = [p \in DOMAIN buf \cup written |->
               IF p \in written THEN s[p - n + 1] ELSE buf[p]]
  BY DEF Put, bputc
<1>2. n' = n + Len(s) /\ out' = out \o s /\ n = Len(out) /\ n \in Nat /\ Len(s) \in Nat
  BY DEF Put, BufferOK
<1>3. out' \in Seq(Byte) /\ n' = Len(out')
  BY <1>2 DEF BufferOK
<1>4. size \in Nat /\ WORD \in Nat
  BY CStringAssumption DEF BufferOK
<1>5. DOMAIN buf' = DOMAIN buf \cup written
  BY <1>1
<1>6. DOMAIN buf' \subseteq 0..(size' - 1)
  BY <1>2, <1>4, <1>5 DEF BufferOK
<1>7. ASSUME NEW p \in DOMAIN buf'
      PROVE  buf'[p] \in Byte
  <2>1. CASE p \in written
    <3>1. p - n + 1 \in 1..Len(s)
      BY <1>2, <2>1
    <3>2. QED
      BY <1>1, <1>5, <2>1, <3>1
  <2>2. CASE p \notin written
    BY <1>1, <1>5, <2>2 DEF BufferOK
  <2>3. QED
    BY <2>1, <2>2
<1>8. ASSUME NEW p \in 0..(size - 1), p < n'
      PROVE  p \in DOMAIN buf' /\ buf'[p] = out'[p + 1]
  <2>1. CASE p < n
    <3>1. p \notin written /\ p \in DOMAIN buf /\ buf[p] = out[p + 1]
      BY <1>2, <2>1 DEF Complete
    <3>2. p + 1 \in 1..Len(out)
      BY <1>2, <2>1
    <3>3. out'[p + 1] = out[p + 1]
      BY <1>2, <3>2 DEF BufferOK
    <3>4. QED
      BY <1>1, <1>5, <3>1, <3>3
  <2>2. CASE ~ (p < n)
    <3>1. p \in written /\ p + 1 > Len(out) /\ p + 1 <= Len(out) + Len(s)
          /\ (p + 1) - Len(out) = p - n + 1
      BY <1>2, <1>4, <1>8, <2>2
    <3>2. out'[p + 1] = s[(p + 1) - Len(out)]
      BY <1>2, <3>1 DEF BufferOK
    <3>3. QED
      BY <1>1, <1>5, <3>1, <3>2
  <2>3. QED
    BY <2>1, <2>2
<1>9. BufferOK'
  BY <1>3, <1>6, <1>7 DEF BufferOK
<1>10. Complete'
  BY <1>8 DEF Complete
<1>11. QED
  BY <1>9, <1>10

-----------------------------------------------------------------------------
(* The format, as long as the loop of vsnprintf reads it: its NUL is ahead. *)
Looping == {"S_DEFAULT", "S_FLAGS", "S_WIDTH", "S_PRECIS", "S_LENGTH", "S_CONV"}

Ends0(f) == f \in Seq(Byte) /\ f # <<>> /\ f[Len(f)] = NUL

LEMMA NotNul ==
  /\ NUL \notin {"%", "#", "0", "-", " ", "+", "'", "I", "*", ".", "h", "l", "L"}
  /\ NUL \notin {"d", "i", "o", "b", "u", "x", "X", "p", "s", "c"}
  /\ NUL \notin Digits(10)
<1>1. NUL \notin {"%", "#", "0", "-", " ", "+", "'", "I", "*", ".", "h", "l", "L"}
  BY CharAssumption DEF Char
<1>2. NUL \notin {"d", "i", "o", "b", "u", "x", "X", "p", "s", "c"}
  BY CharAssumption DEF Char
<1>3. Digits(10) \subseteq Char
  <2>1. ASSUME NEW x \in Digits(10)
        PROVE  x \in {Digit[k] : k \in 1..36}
    <3>1. PICK k \in 1..10 : x = Digit[k]
      BY DEF Digits
    <3>2. k \in 1..36
      OBVIOUS
    <3>3. QED
      BY <3>1, <3>2
  <2>2. QED
    BY <2>1 DEF Char
<1>4. QED
  BY <1>1, <1>2, <1>3, CharAssumption

LEMMA HeadType ==
  ASSUME NEW f, Ends0(f)
  PROVE  Head(f) \in Byte /\ Len(f) \in Nat \ {0} /\ Head(f) = f[1] /\ Tail(f) \in Seq(Byte)
BY DEF Ends0

LEMMA TailEnds ==
  ASSUME NEW f, Ends0(f), Head(f) # NUL
  PROVE  Ends0(Tail(f))
<1>1. f \in Seq(Byte) /\ f # <<>> /\ f[Len(f)] = NUL /\ Head(f) = f[1] /\ Len(f) \in Nat
  BY DEF Ends0
<1>2. Len(f) > 1
  BY <1>1
<1>3. Tail(f) \in Seq(Byte) /\ Len(Tail(f)) = Len(f) - 1
  BY <1>1
<1>4. Tail(f)[Len(f) - 1] = f[Len(f)]
  BY <1>1, <1>2, <1>3
<1> DEFINE g == Tail(f)
<1>5. g \in Seq(Byte) /\ Len(g) # 0 /\ g[Len(g)] = NUL
  BY <1>1, <1>2, <1>3, <1>4
<1> HIDE DEF g
<1>6. g # <<>>
  BY <1>5
<1>7. QED
  BY <1>5, <1>6 DEF Ends0, g

LEMMA SkipEnds ==
  ASSUME NEW f, Ends0(f), NEW a \in 1..Len(f), NEW S, NUL \notin S
  PROVE  Ends0(SubSeq(f, Skip(f, a, S), Len(f)))
<1> DEFINE j == Skip(f, a, S)
           g == SubSeq(f, j, Len(f))
<1>1. f \in Seq(Byte) /\ f[Len(f)] = NUL /\ Len(f) \in Nat /\ a \in 1..(Len(f) + 1)
  BY DEF Ends0
<1>2. j \in a..(Len(f) + 1) /\ \A k \in a..(j - 1) : f[k] \in S
  BY <1>1, SkipStops
<1> HIDE DEF j
<1>3. j <= Len(f) /\ j \in 1..Len(f)
  BY <1>1, <1>2
<1>4. g \in Seq(Byte) /\ Len(g) = Len(f) - j + 1
  BY <1>1, <1>3
<1>5. g[Len(f) - j + 1] = f[Len(f)]
  BY <1>1, <1>3
<1>6. QED
  BY <1>1, <1>3, <1>4, <1>5 DEF Ends0, j

-----------------------------------------------------------------------------
(* The inductive invariant of vsnprintf. *)
FormatInv ==
  /\ BufferOK
  /\ width \in Int
  /\ state \in Looping => Ends0(fmt)
  /\ state # "write" => Complete
  /\ state = "idle" => out = <<>> /\ DOMAIN buf = {}
  /\ BufferHoldsText

(* What a step inside the loop must keep. *)
LEMMA LoopKeeps ==
  ASSUME FormatInv, BufferOK', Complete', width' \in Int,
         state' \notin {"write", "idle"}, state' \in Looping => Ends0(fmt')
  PROVE  FormatInv'
BY DEF FormatInv, BufferHoldsText

LEMMA NothingPut ==
  ASSUME FormatInv, state \in Looping, PutNothing, size' = size
  PROVE  BufferOK' /\ Complete'
<1>1. BufferOK /\ Complete
  BY DEF FormatInv, Looping
<1>2. UNCHANGED <<buf, n, out, size>>
  BY DEF PutNothing
<1>3. QED
  BY <1>1, <1>2 DEF BufferOK, Complete

LEMMA SomethingPut ==
  ASSUME FormatInv, state \in Looping, NEW s \in Seq(Byte), Put(s), size' = size
  PROVE  BufferOK' /\ Complete'
<1>1. BufferOK /\ Complete
  BY DEF FormatInv, Looping
<1>2. QED
  BY <1>1, PutKeeps

LEMMA DefaultKeeps == FormatInv /\ S_DEFAULT => FormatInv'
<1>1. SUFFICES ASSUME FormatInv, S_DEFAULT
               PROVE  FormatInv'
  OBVIOUS
<1>2. state = "S_DEFAULT" /\ state \in Looping /\ Ends0(fmt) /\ c \in Byte
  BY <1>1, HeadType DEF S_DEFAULT, Looping, FormatInv, c
<1>3. fmt' = Tail(fmt) /\ width' = width /\ size' = size /\ width \in Int
  BY <1>1 DEF S_DEFAULT, FormatInv
<1>4. c # NUL => Ends0(fmt')
  BY <1>2, <1>3, TailEnds DEF c
<1>5. CASE c = "%"
  <2>1. state' = "S_FLAGS" /\ PutNothing /\ c # NUL
    BY <1>1, <1>5, NotNul DEF S_DEFAULT, Continue
  <2>2. BufferOK' /\ Complete'
    BY <1>1, <1>2, <1>3, <2>1, NothingPut
  <2>3. QED
    BY <1>1, <1>3, <1>4, <2>1, <2>2, LoopKeeps DEF Looping
<1>6. CASE c # "%"
  <2>1. state' = (IF c = NUL THEN "break" ELSE "S_DEFAULT") /\ Put(<<c>>)
    BY <1>1, <1>2, <1>6 DEF S_DEFAULT, Continue
  <2>2. <<c>> \in Seq(Byte)
    BY <1>2, ShortType
  <2>3. BufferOK' /\ Complete'
    BY <1>1, <1>2, <1>3, <2>1, <2>2, SomethingPut
  <2>4. state' \notin {"write", "idle"} /\ (state' \in Looping => Ends0(fmt'))
    BY <1>4, <2>1 DEF Looping
  <2>5. QED
    BY <1>1, <1>3, <2>3, <2>4, LoopKeeps
<1>7. QED
  BY <1>5, <1>6

LEMMA FlagsKeeps == FormatInv /\ S_FLAGS => FormatInv'
<1>1. SUFFICES ASSUME FormatInv, S_FLAGS
               PROVE  FormatInv'
  OBVIOUS
<1>2. state = "S_FLAGS" /\ state \in Looping /\ Ends0(fmt)
  BY <1>1 DEF S_FLAGS, Looping, FormatInv
<1>3. size' = size /\ PutNothing /\ width \in Int
  BY <1>1 DEF S_FLAGS, FormatInv
<1>4. BufferOK' /\ Complete'
  BY <1>1, <1>2, <1>3, NothingPut
<1>5. CASE c \in {"#", "0", "-", " ", "+", "'", "I"}
  <2>1. fmt' = Tail(fmt) /\ state' = state /\ width' = width /\ c # NUL
    BY <1>1, <1>5, NotNul DEF S_FLAGS
  <2>2. Ends0(fmt')
    BY <1>2, <2>1, TailEnds DEF c
  <2>3. QED
    BY <1>1, <1>2, <1>3, <1>4, <2>1, <2>2, LoopKeeps
<1>6. CASE c \notin {"#", "0", "-", " ", "+", "'", "I"}
  <2>1. fmt' = fmt /\ state' = (IF c = NUL THEN "break" ELSE "S_WIDTH") /\ width' = 0
    BY <1>1, <1>6 DEF S_FLAGS, Continue
  <2>2. QED
    BY <1>1, <1>2, <1>4, <2>1, LoopKeeps
<1>7. QED
  BY <1>5, <1>6

LEMMA WidthKeeps == FormatInv /\ S_WIDTH => FormatInv'
<1>1. SUFFICES ASSUME FormatInv, S_WIDTH
               PROVE  FormatInv'
  OBVIOUS
<1>2. state = "S_WIDTH" /\ state \in Looping /\ Ends0(fmt)
  BY <1>1 DEF S_WIDTH, Looping, FormatInv
<1>3. size' = size /\ PutNothing /\ width \in Int
  BY <1>1 DEF S_WIDTH, FormatInv
<1>4. BufferOK' /\ Complete'
  BY <1>1, <1>2, <1>3, NothingPut
<1>5. CASE c = "*" /\ fmt' = Tail(fmt) /\ UNCHANGED state
           /\ \E w \in Width : width' = IF w < 0 THEN -w ELSE w
  <2>1. width' \in Int
    BY <1>5, VsnprintfAssumption
  <2>2. Ends0(fmt')
    BY <1>2, <1>5, NotNul, TailEnds DEF c
  <2>3. QED
    BY <1>1, <1>2, <1>4, <1>5, <2>1, <2>2, LoopKeeps
<1>6. CASE /\ width' = ValueFrom(fmt, 1, 10) /\ UNCHANGED state
           /\ fmt' = SubSeq(fmt, Skip(fmt, 1, Digits(10)), Len(fmt))
  <2>1. fmt \in Seq(Byte) /\ 1 \in 1..Len(fmt) /\ 1 \in 1..(Len(fmt) + 1)
    BY <1>2, HeadType DEF Ends0
  <2>2. ValueFrom(fmt, 1, 10) \in Int
    BY <2>1, ValueType
  <2>3. Ends0(SubSeq(fmt, Skip(fmt, 1, Digits(10)), Len(fmt)))
    BY <1>2, <2>1, NotNul, SkipEnds
  <2>4. QED
    BY <1>1, <1>2, <1>4, <1>6, <2>2, <2>3, LoopKeeps
<1>7. CASE Continue(c, "S_PRECIS") /\ UNCHANGED <<fmt, width>>
  <2>1. state' \notin {"write", "idle"}
    BY <1>7 DEF Continue
  <2>2. QED
    BY <1>1, <1>2, <1>3, <1>4, <1>7, <2>1, LoopKeeps
<1>8. QED
  BY <1>1, <1>5, <1>6, <1>7 DEF S_WIDTH

LEMMA PrecisionKeeps == FormatInv /\ S_PRECIS => FormatInv'
<1>1. SUFFICES ASSUME FormatInv, S_PRECIS
               PROVE  FormatInv'
  OBVIOUS
<1>2. state = "S_PRECIS" /\ state \in Looping /\ Ends0(fmt)
  BY <1>1 DEF S_PRECIS, Looping, FormatInv
<1>3. size' = size /\ PutNothing /\ width \in Int /\ width' = width
  BY <1>1 DEF S_PRECIS, FormatInv
<1>4. BufferOK' /\ Complete'
  BY <1>1, <1>2, <1>3, NothingPut
<1>5. state' \notin {"write", "idle"}
  BY <1>1 DEF S_PRECIS, Continue
<1>6. Ends0(fmt')
  <2>1. CASE c # "."
    BY <1>1, <1>2, <2>1 DEF S_PRECIS
  <2>2. CASE c = "."
    <3>1. fmt' = SubSeq(fmt, Skip(fmt, 2, Digits(10)), Len(fmt))
      BY <1>1, <2>2 DEF S_PRECIS
    <3>2. Head(fmt) # NUL
      BY <2>2, NotNul DEF c
    <3>3. fmt[1] # NUL /\ fmt[Len(fmt)] = NUL /\ Len(fmt) \in Nat \ {0}
      BY <1>2, <3>2, HeadType DEF Ends0
    <3>4. 2 \in 1..Len(fmt)
      BY <3>3
    <3>5. QED
      BY <1>2, <3>1, <3>4, NotNul, SkipEnds
  <2>3. QED
    BY <2>1, <2>2
<1>7. QED
  BY <1>1, <1>3, <1>4, <1>5, <1>6, LoopKeeps

LEMMA LengthKeeps == FormatInv /\ S_LENGTH => FormatInv'
<1>1. SUFFICES ASSUME FormatInv, S_LENGTH
               PROVE  FormatInv'
  OBVIOUS
<1>2. state = "S_LENGTH" /\ state \in Looping /\ Ends0(fmt)
  BY <1>1 DEF S_LENGTH, Looping, FormatInv
<1>3. size' = size /\ PutNothing /\ width \in Int /\ width' = width
  BY <1>1 DEF S_LENGTH, FormatInv
<1>4. BufferOK' /\ Complete'
  BY <1>1, <1>2, <1>3, NothingPut
<1>5. CASE c \in {"h", "l", "L"}
  <2>1. fmt' = Tail(fmt) /\ state' = state /\ c # NUL
    BY <1>1, <1>5, NotNul DEF S_LENGTH
  <2>2. Ends0(fmt')
    BY <1>2, <2>1, TailEnds DEF c
  <2>3. QED
    BY <1>1, <1>2, <1>3, <1>4, <2>1, <2>2, LoopKeeps
<1>6. CASE c \notin {"h", "l", "L"}
  <2>1. fmt' = fmt /\ state' = (IF c = NUL THEN "break" ELSE "S_CONV")
    BY <1>1, <1>6 DEF S_LENGTH, Continue
  <2>2. QED
    BY <1>1, <1>2, <1>3, <1>4, <2>1, LoopKeeps
<1>7. QED
  BY <1>5, <1>6

(* Every conversion puts bytes, and goes on only behind a character that   *)
(* was not NUL.                                                            *)
LEMMA ConversionPuts ==
  ASSUME FormatInv, S_CONV
  PROVE  /\ \E s \in Seq(Byte) : Put(s)
         /\ state' \in {"S_DEFAULT", "break"}
         /\ state' = "S_DEFAULT" => c # NUL
<1>1. width \in Int /\ c \in Byte
  BY HeadType DEF FormatInv, S_CONV, Looping, c
<1>2. CASE ConvNumber
  <2>0. PICK num \in Number :
          \E fl : PutNumber(ArgumentOf(num), BaseOf(c), fl)
    BY <1>2 DEF ConvNumber
  <2>1. PICK fl : PutNumber(ArgumentOf(num), BaseOf(c), fl)
    BY <2>0
  <2>2. ArgumentOf(num) \in Int
    <3>1. num \in Int
      BY VsnprintfAssumption
    <3>2. ToLong(num) \in Int /\ num % WORD \in Int
      BY <3>1, ToLongType, ModWord
    <3>3. QED
      BY <3>1, <3>2 DEF ArgumentOf
  <2>3. BaseOf(c) \in Base
    BY DEF BaseOf, Base
  <2>4. fmt_int(ArgumentOf(num), BaseOf(c), width, fl) \in Seq(Byte)
    BY <1>1, <2>2, <2>3, NumberType
  <2>5. Put(fmt_int(ArgumentOf(num), BaseOf(c), width, fl))
    BY <2>1 DEF PutNumber
  <2>6. state' = "S_DEFAULT" /\ c # NUL
    BY <1>2, NotNul DEF ConvNumber
  <2>7. QED
    BY <2>4, <2>5, <2>6
<1>3. CASE ConvPointer
  <2>0. PICK num \in Number : \E fl : PutNumber(ToLong(num), 16, fl)
    BY <1>3 DEF ConvPointer
  <2>1. PICK fl : PutNumber(ToLong(num), 16, fl)
    BY <2>0
  <2>2. ToLong(num) \in Int /\ 16 \in Base
    BY VsnprintfAssumption, ToLongType DEF Base
  <2>3. fmt_int(ToLong(num), 16, width, fl) \in Seq(Byte)
    BY <1>1, <2>2, NumberType
  <2>4. Put(fmt_int(ToLong(num), 16, width, fl))
    BY <2>1 DEF PutNumber
  <2>5. state' = "S_DEFAULT" /\ c # NUL
    BY <1>3, NotNul DEF ConvPointer
  <2>6. QED
    BY <2>3, <2>4, <2>5
<1>4. CASE ConvString
  <2> DEFINE null == <<"(", "n", "u", "l", "l", ")">>
  <2>1. null \in Seq(Byte)
    <3>1. "(" \in Byte /\ "n" \in Byte /\ "u" \in Byte /\ "l" \in Byte /\ ")" \in Byte
      BY DEF Byte, Char
    <3>2. \A a, b, d, e, f, g \in Byte : <<a, b, d, e, f, g>> \in Seq(Byte)
      OBVIOUS
    <3>3. QED
      BY <3>1, <3>2, Zenon
  <2>2. PICK t \in String \cup {null} : Put(fmt_str(t, width, flags))
    BY <1>4 DEF ConvString
  <2> HIDE DEF null
  <2>3. t \in Seq(Byte)
    <3>1. Seq(Char) \subseteq Seq(Byte)
      BY DEF Byte
    <3>2. QED
      BY <2>1, <3>1, VsnprintfAssumption
  <2>4. fmt_str(t, width, flags) \in Seq(Byte)
    BY <1>1, <2>3, StringType
  <2>5. state' = "S_DEFAULT" /\ c # NUL
    BY <1>4, NotNul DEF ConvString
  <2>6. QED
    BY <2>2, <2>4, <2>5
<1>5. CASE ConvChar
  <2>1. PICK ch \in {NUL, "a"} : Put(fmt_str(<<ch>>, width, flags)) /\ Continue(ch, "S_DEFAULT")
    BY <1>5 DEF ConvChar
  <2>2. <<ch>> \in Seq(Byte)
    BY Literals, ShortType
  <2>3. fmt_str(<<ch>>, width, flags) \in Seq(Byte)
    BY <1>1, <2>2, StringType
  <2>4. state' \in {"S_DEFAULT", "break"} /\ c # NUL
    BY <1>5, <2>1, NotNul DEF ConvChar, Continue
  <2>5. QED
    BY <2>1, <2>3, <2>4
<1>6. CASE ConvOther
  <2> DEFINE t == IF c = "%" THEN <<c>> ELSE <<"%", c>>
  <2>1. Put(t) /\ state' = (IF c = NUL THEN "break" ELSE "S_DEFAULT")
    BY <1>6 DEF ConvOther, Continue
  <2>2. t \in Seq(Byte)
    <3>1. <<c>> \in Seq(Byte) /\ <<"%", c>> \in Seq(Byte)
      BY <1>1, Literals, ShortType, Zenon
    <3>2. QED
      BY <3>1
  <2> HIDE DEF t
  <2>3. QED
    BY <2>1, <2>2
<1>7. QED
  BY <1>2, <1>3, <1>4, <1>5, <1>6 DEF S_CONV

LEMMA ConversionKeeps == FormatInv /\ S_CONV => FormatInv'
<1>1. SUFFICES ASSUME FormatInv, S_CONV
               PROVE  FormatInv'
  OBVIOUS
<1>2. state \in Looping /\ Ends0(fmt)
  BY <1>1 DEF S_CONV, Looping, FormatInv
<1>3. size' = size /\ width \in Int /\ width' = width /\ fmt' = Tail(fmt)
  BY <1>1 DEF S_CONV, FormatInv
<1>4. BufferOK' /\ Complete'
  BY <1>1, <1>2, <1>3, ConversionPuts, SomethingPut
<1>5. state' \notin {"write", "idle"}
  BY <1>1, ConversionPuts
<1>6. state' \in Looping => Ends0(fmt')
  <2>1. state' \in Looping => c # NUL
    BY <1>1, ConversionPuts DEF Looping
  <2>2. QED
    BY <1>2, <1>3, <2>1, TailEnds DEF c
<1>7. QED
  BY <1>1, <1>3, <1>4, <1>5, <1>6, LoopKeeps

LEMMA ReturnKeeps == FormatInv /\ Return => FormatInv'
<1>1. SUFFICES ASSUME FormatInv, Return
               PROVE  FormatInv'
  OBVIOUS
<1> DEFINE len == (n - 1) % WORD
           end0 == IF len < size THEN {len} ELSE IF size > 0 THEN {size - 1} ELSE {}
<1>2. /\ buf' = [p \in DOMAIN buf \cup end0 |-> IF p \in end0 THEN NUL ELSE buf[p]]
      /\ result' = ToLong(len) /\ state = "break" /\ state' = "write"
      /\ size' = size /\ n' = n /\ out' = out /\ width' = width
  BY <1>1 DEF Return
<1>3. BufferOK /\ Complete /\ width \in Int
  BY <1>1, <1>2 DEF FormatInv
<1>4. n = Len(out) /\ n \in Nat /\ size \in 0..(WORD - 1) /\ out \in Seq(Byte)
  BY <1>3 DEF BufferOK
<1>5. WORD \in Nat /\ len \in 0..(WORD - 1) /\ (n > 0 /\ n <= WORD => len = n - 1)
  <2> DEFINE m == n - 1
  <2>1. m \in Int /\ (n > 0 => 0 <= m) /\ (n <= WORD => m < WORD)
    BY <1>4, CStringAssumption
  <2>2. len = m % WORD
    OBVIOUS
  <2> HIDE DEF m, len
  <2>3. WORD \in Nat /\ len \in 0..(WORD - 1) /\ (0 <= m /\ m < WORD => len = m)
    BY <2>1, <2>2, ModWord
  <2>4. QED
    BY <2>1, <2>3 DEF m
<1>6. ToLong(len) = ToLong(n - 1)
  <2>1. len % WORD = len
    BY <1>5, ModWord
  <2>2. QED
    BY <2>1 DEF ToLong
<1> HIDE DEF len
<1>7. end0 \subseteq 0..(size - 1)
  BY <1>4, <1>5
<1>8. DOMAIN buf' = DOMAIN buf \cup end0
  BY <1>2
<1>9. BufferOK'
  <2>1. DOMAIN buf' \subseteq 0..(size' - 1)
    BY <1>2, <1>3, <1>7, <1>8 DEF BufferOK
  <2>2. ASSUME NEW p \in DOMAIN buf'
        PROVE  buf'[p] \in Byte
    <3> HIDE DEF end0
    <3> QED
      BY <1>2, <1>3, <1>8, Literals DEF BufferOK
  <2>3. QED
    BY <1>2, <1>3, <2>1, <2>2 DEF BufferOK
<1>10. BufferHoldsText'
  <2>1. SUFFICES ASSUME out # <<>>, n <= WORD
                 PROVE  LET k == IF n <= size THEN n - 1 ELSE size - 1
                        IN  /\ result' = ToLong(n - 1)
                            /\ size > 0 => /\ 0..k \subseteq DOMAIN buf'
                                           /\ \A j \in 0..(k - 1) : buf'[j] = out[j + 1]
                                           /\ buf'[k] = NUL
    BY <1>2, <1>4 DEF BufferHoldsText
  <2> DEFINE k == IF n <= size THEN n - 1 ELSE size - 1
  <2>2. n > 0 /\ len = n - 1
    BY <1>4, <1>5, <2>1
  <2>3. result' = ToLong(n - 1)
    BY <1>2, <1>6
  <2>4. SUFFICES ASSUME size > 0
                 PROVE  /\ 0..k \subseteq DOMAIN buf'
                        /\ \A j \in 0..(k - 1) : buf'[j] = out[j + 1]
                        /\ buf'[k] = NUL
    BY <2>3
  <2>5. k \in Nat /\ k < size /\ k < n /\ end0 = {k}
    BY <1>4, <2>2, <2>4
  <2> HIDE DEF k, end0
  <2>6. buf'[k] = NUL /\ k \in DOMAIN buf'
    BY <1>2, <1>8, <2>5
  <2>7. ASSUME NEW j \in 0..(k - 1)
        PROVE  j \in DOMAIN buf' /\ buf'[j] = out[j + 1]
    <3>1. j \in 0..(size - 1) /\ j < n /\ j # k
      BY <1>4, <2>5
    <3>2. j \in DOMAIN buf /\ buf[j] = out[j + 1]
      BY <1>3, <3>1 DEF Complete
    <3>3. QED
      BY <1>2, <1>8, <2>5, <3>1, <3>2
  <2>8. 0..k \subseteq DOMAIN buf'
    BY <2>5, <2>6, <2>7
  <2>9. QED
    BY <2>6, <2>7, <2>8
<1>11. QED
  BY <1>2, <1>3, <1>9, <1>10 DEF FormatInv, Looping

LEMMA FormatStepKeeps == FormatInv /\ FormatStep => FormatInv'
BY DefaultKeeps, FlagsKeeps, WidthKeeps, PrecisionKeeps, LengthKeeps, ConversionKeeps,
   ReturnKeeps DEF FormatStep

(* What printk writes to the terminal and to the port. *)
LEMMA TextType ==
  ASSUME FormatInv
  PROVE  Text \in Seq(Byte)
<1>1. BufferOK /\ size \in Nat
  BY CStringAssumption DEF FormatInv, BufferOK
<1> DEFINE T == {k \in 0..size : k \notin DOMAIN buf \/ buf[k] = NUL}
<1>2. size \in T /\ T \in SUBSET Nat
  BY <1>1 DEF BufferOK
<1>3. PICK x \in T : \A y \in T : x <= y
  BY <1>2, LeastNumber
<1>4. \A j \in 0..(x - 1) : j \in DOMAIN buf /\ buf[j] # NUL
  BY <1>1, <1>3
<1> DEFINE e == CHOOSE k \in 0..size : /\ k \notin DOMAIN buf \/ buf[k] = NUL
                                    /\ \A j \in 0..(k - 1) : j \in DOMAIN buf /\ buf[j] # NUL
<1>5. e \in 0..size /\ \A j \in 0..(e - 1) : j \in DOMAIN buf /\ buf[j] # NUL
  BY <1>3, <1>4
<1>6. Text = [k \in 1..e |-> buf[k - 1]]
  BY DEF Text
<1> HIDE DEF e
<1>7. e \in Nat
  BY <1>1, <1>5
<1>8. ASSUME NEW k \in 1..e
      PROVE  buf[k - 1] \in Byte
  <2>1. k - 1 \in 0..(e - 1)
    BY <1>7
  <2>2. QED
    BY <1>1, <1>5, <2>1 DEF BufferOK
<1>9. QED
  BY <1>6, <1>7, <1>8

-----------------------------------------------------------------------------
(* The port.  What the chip's registers hold after each of the eight       *)
(* writes of serial_init: the divisor latch is open only from the third to *)
(* the fifth, so that the first one sets the interrupt enable register and *)
(* the fifth one the divisor.                                              *)
PortOK ==
  /\ port \in Port
  /\ setup \in 0..8
  /\ setup \in 3..5 <=> port.LINECTRL >= DLAB
  /\ setup >= 1 => port.IER = 0
  /\ setup >= 4 => port.DLLSB = 12
  /\ setup >= 5 => port.DLMSB = 0
  /\ setup >= 7 => port.LINECTRL = 3

SerialInv ==
  /\ PortOK
  /\ thr \in Byte \cup {NO}
  /\ sending \in Seq(Byte)
  /\ told \in Seq(Byte) /\ heard \in Seq(Byte \cup {NO})
  /\ setup = 8 => heard \o Pending = told

LEMMA AppendOne ==
  ASSUME NEW S, NEW s \in Seq(S), NEW e \in S
  PROVE  /\ s \o <<e>> \in Seq(S) /\ Len(s \o <<e>>) = Len(s) + 1
         /\ (s \o <<e>>)[Len(s) + 1] = e
         /\ \A j \in 1..Len(s) : (s \o <<e>>)[j] = s[j]
<1>1. <<e>> \in Seq(S) /\ Len(<<e>>) = 1 /\ <<e>>[1] = e /\ Len(s) \in Nat
  OBVIOUS
<1> DEFINE t == <<e>>
<1> HIDE DEF t
<1>2. s \o t \in Seq(S) /\ Len(s \o t) = Len(s) + 1
  BY <1>1 DEF t
<1>3. \A j \in 1..Len(s) : (s \o t)[j] = s[j]
  BY <1>1 DEF t
<1>4. (s \o t)[Len(s) + 1] = e
  BY <1>1 DEF t
<1>5. QED
  BY <1>2, <1>3, <1>4 DEF t

LEMMA InitWrites ==
  /\ Len(serial_init(FALSE)) = 8
  /\ serial_init(FALSE)[1] = <<"IER", 0>>
  /\ serial_init(FALSE)[2] = <<"FIFOCTRL", 64>>
  /\ serial_init(FALSE)[3] = <<"LINECTRL", 128>>
  /\ serial_init(FALSE)[4] = <<"THR", 12>>
  /\ serial_init(FALSE)[5] = <<"IER", 0>>
  /\ serial_init(FALSE)[6] = <<"LINECTRL", 0>>
  /\ serial_init(FALSE)[7] = <<"LINECTRL", 3>>
  /\ serial_init(FALSE)[8] = <<"MODEMCTRL", 8>>
<1>1. _serial_set_rate(SERIAL_DEFAULT_BAUD) =
        << <<"LINECTRL", 128>>, <<"THR", 12>>, <<"IER", 0>>, <<"LINECTRL", 0>> >>
  BY DEF _serial_set_rate, SERIAL_DEFAULT_BAUD, SERIAL_BASE_FREQ, DLAB
<1>2. _serial_set_params(3, 0, 0) = << <<"LINECTRL", 3>> >>
  BY DEF _serial_set_params
<1> DEFINE a == <<"IER", 0>>
           b == <<"FIFOCTRL", 64>>
           d == <<"LINECTRL", 128>>
           e == <<"THR", 12>>
           f == <<"IER", 0>>
           g == <<"LINECTRL", 0>>
           h == <<"LINECTRL", 3>>
           k == <<"MODEMCTRL", 8>>
           z == serial_init(FALSE)
<1>3. z = <<a, b>> \o <<d, e, f, g>> \o <<h>> \o <<k>> \o <<>>
  BY <1>1, <1>2, Zenon DEF serial_init
<1> HIDE DEF a, b, d, e, f, g, h, k, z
<1>4. /\ Len(z) = 8 /\ z[1] = a /\ z[2] = b /\ z[3] = d /\ z[4] = e
      /\ z[5] = f /\ z[6] = g /\ z[7] = h /\ z[8] = k
  <2> DEFINE S == {a, b, d, e, f, g, h, k}
             x == <<a, b>> \o <<d, e, f, g>>
             y == x \o <<h>>
             w == y \o <<k>>
  <2>1. <<a, b>> \in Seq(S) /\ <<d, e, f, g>> \in Seq(S) /\ h \in S /\ k \in S
    OBVIOUS
  <2> HIDE DEF S
  <2>2. /\ x \in Seq(S) /\ Len(x) = 6
        /\ x[1] = a /\ x[2] = b /\ x[3] = d /\ x[4] = e /\ x[5] = f /\ x[6] = g
    BY <2>1
  <2> HIDE DEF x
  <2>3. x \in Seq(S)
    BY <2>2
  <2>4. /\ y \in Seq(S) /\ Len(y) = Len(x) + 1 /\ y[Len(x) + 1] = h
        /\ \A j \in 1..Len(x) : y[j] = x[j]
    BY <2>1, <2>3, AppendOne
  <2> HIDE DEF y
  <2>5. /\ w \in Seq(S) /\ Len(w) = Len(y) + 1 /\ w[Len(y) + 1] = k
        /\ \A j \in 1..Len(y) : w[j] = y[j]
    BY <2>1, <2>4, AppendOne
  <2> HIDE DEF w
  <2>6. Len(x) + 1 = 7 /\ Len(y) + 1 = 8
    BY <2>2, <2>4
  <2>7. Len(w) = 8 /\ w[8] = k /\ w[7] = h /\ \A j \in 1..6 : w[j] = x[j]
    BY <2>2, <2>4, <2>5, <2>6
  <2>8. z = w
    <3>1. z = w \o <<>>
      BY <1>3 DEF w, y, x
    <3>2. QED
      BY <2>5, <3>1, ConcatEmptySeq
  <2>9. QED
    BY <2>2, <2>7, <2>8
<1>5. QED
  BY <1>4, Zenon DEF a, b, d, e, f, g, h, k, z

LEMMA PendingType ==
  ASSUME thr \in Byte \cup {NO}
  PROVE  Pending \in Seq(Byte)
BY DEF Pending

LEMMA PortSteps ==
  ASSUME PortOK, serial_init_step
  PROVE  PortOK'
<1>1. setup \in 0..7 /\ setup' = setup + 1
  <2>1. setup # Len(serial_init(FALSE)) /\ setup' = setup + 1
    BY DEF serial_init_step, Ready
  <2>2. setup # 8
    BY <2>1, InitWrites
  <2>3. QED
    BY <2>1, <2>2 DEF PortOK
<1>2. ASSUME NEW r, NEW v, NEW q,
             serial_init(FALSE)[setup + 1] = <<r, v>>, Register(port, r) = q
      PROVE  port' = [port EXCEPT ![q] = v]
  <2> DEFINE w == serial_init(FALSE)[setup + 1]
  <2>1. port' = outb(port, w[1], w[2])
    BY DEF serial_init_step
  <2>2. w = <<r, v>>
    BY <1>2
  <2> HIDE DEF w
  <2>3. w[1] = r /\ w[2] = v
    BY <2>2
  <2>4. QED
    BY <1>2, <2>1, <2>3 DEF outb
<1>3. DLAB = 128
  BY DEF DLAB
<1>4. CASE setup = 0
  <2>1. serial_init(FALSE)[setup + 1] = <<"IER", 0>>
    <3>1. setup + 1 = 1
      BY <1>4
    <3>2. QED
      BY <3>1, InitWrites, Zenon
  <2>2. Register(port, "IER") = "IER"
    BY <1>3, <1>4 DEF Register, PortOK, Port
  <2>3. port' = [port EXCEPT !["IER"] = 0]
    BY <1>2, <2>1, <2>2
  <2>4. QED
    BY <1>1, <1>3, <1>4, <2>3 DEF PortOK, Port
<1>5. CASE setup = 1
  <2>1. serial_init(FALSE)[setup + 1] = <<"FIFOCTRL", 64>>
    <3>1. setup + 1 = 2
      BY <1>5
    <3>2. QED
      BY <3>1, InitWrites, Zenon
  <2>2. Register(port, "FIFOCTRL") = "FIFOCTRL"
    BY <1>3, <1>5 DEF Register, PortOK, Port
  <2>3. port' = [port EXCEPT !["FIFOCTRL"] = 64]
    BY <1>2, <2>1, <2>2
  <2>4. QED
    BY <1>1, <1>3, <1>5, <2>3 DEF PortOK, Port
<1>6. CASE setup = 2
  <2>1. serial_init(FALSE)[setup + 1] = <<"LINECTRL", 128>>
    <3>1. setup + 1 = 3
      BY <1>6
    <3>2. QED
      BY <3>1, InitWrites, Zenon
  <2>2. Register(port, "LINECTRL") = "LINECTRL"
    BY <1>3, <1>6 DEF Register, PortOK, Port
  <2>3. port' = [port EXCEPT !["LINECTRL"] = 128]
    BY <1>2, <2>1, <2>2
  <2>4. QED
    BY <1>1, <1>3, <1>6, <2>3 DEF PortOK, Port
<1>7. CASE setup = 3
  <2>1. serial_init(FALSE)[setup + 1] = <<"THR", 12>>
    <3>1. setup + 1 = 4
      BY <1>7
    <3>2. QED
      BY <3>1, InitWrites, Zenon
  <2>2. Register(port, "THR") = "DLLSB"
    BY <1>3, <1>7 DEF Register, PortOK, Port
  <2>3. port' = [port EXCEPT !["DLLSB"] = 12]
    BY <1>2, <2>1, <2>2
  <2>4. QED
    BY <1>1, <1>3, <1>7, <2>3 DEF PortOK, Port
<1>8. CASE setup = 4
  <2>1. serial_init(FALSE)[setup + 1] = <<"IER", 0>>
    <3>1. setup + 1 = 5
      BY <1>8
    <3>2. QED
      BY <3>1, InitWrites, Zenon
  <2>2. Register(port, "IER") = "DLMSB"
    BY <1>3, <1>8 DEF Register, PortOK, Port
  <2>3. port' = [port EXCEPT !["DLMSB"] = 0]
    BY <1>2, <2>1, <2>2
  <2>4. QED
    BY <1>1, <1>3, <1>8, <2>3 DEF PortOK, Port
<1>9. CASE setup = 5
  <2>1. serial_init(FALSE)[setup + 1] = <<"LINECTRL", 0>>
    <3>1. setup + 1 = 6
      BY <1>9
    <3>2. QED
      BY <3>1, InitWrites, Zenon
  <2>2. Register(port, "LINECTRL") = "LINECTRL"
    BY <1>3, <1>9 DEF Register, PortOK, Port
  <2>3. port' = [port EXCEPT !["LINECTRL"] = 0]
    BY <1>2, <2>1, <2>2
  <2>4. QED
    BY <1>1, <1>3, <1>9, <2>3 DEF PortOK, Port
<1>10. CASE setup = 6
  <2>1. serial_init(FALSE)[setup + 1] = <<"LINECTRL", 3>>
    <3>1. setup + 1 = 7
      BY <1>10
    <3>2. QED
      BY <3>1, InitWrites, Zenon
  <2>2. Register(port, "LINECTRL") = "LINECTRL"
    BY <1>3, <1>10 DEF Register, PortOK, Port
  <2>3. port' = [port EXCEPT !["LINECTRL"] = 3]
    BY <1>2, <2>1, <2>2
  <2>4. QED
    BY <1>1, <1>3, <1>10, <2>3 DEF PortOK, Port
<1>11. CASE setup = 7
  <2>1. serial_init(FALSE)[setup + 1] = <<"MODEMCTRL", 8>>
    <3>1. setup + 1 = 8
      BY <1>11
    <3>2. QED
      BY <3>1, InitWrites, Zenon
  <2>2. Register(port, "MODEMCTRL") = "MODEMCTRL"
    BY <1>3, <1>11 DEF Register, PortOK, Port
  <2>3. port' = [port EXCEPT !["MODEMCTRL"] = 8]
    BY <1>2, <2>1, <2>2
  <2>4. QED
    BY <1>1, <1>3, <1>11, <2>3 DEF PortOK, Port
<1>12. QED
  BY <1>1, <1>4, <1>5, <1>6, <1>7, <1>8, <1>9, <1>10, <1>11

(* A history that begins again with what is pending. *)
LEMMA BeginsAgain ==
  ASSUME SerialInv, told' = Pending, heard' = <<>>, UNCHANGED <<thr, sending>>, PortOK'
  PROVE  SerialInv'
<1>1. Pending' = Pending /\ Pending \in Seq(Byte)
  BY PendingType DEF Pending, SerialInv
<1>2. <<>> \o Pending = Pending
  BY <1>1, ConcatEmptySeq
<1>3. heard' \in Seq(Byte \cup {NO})
  OBVIOUS
<1>4. QED
  BY <1>1, <1>2, <1>3 DEF SerialInv

LEMMA InitStepKeeps == SerialInv /\ serial_init_step => SerialInv'
BY BeginsAgain, PortSteps DEF SerialInv, serial_init_step

LEMMA ForgetKeeps == SerialInv /\ Forget => SerialInv'
<1>1. SUFFICES ASSUME SerialInv, Forget
               PROVE  SerialInv'
  OBVIOUS
<1>2. PortOK'
  BY <1>1 DEF SerialInv, Forget, PortOK
<1>3. QED
  BY <1>1, <1>2, BeginsAgain DEF Forget

LEMMA SerialIdle == SerialInv /\ UNCHANGED serialVars => SerialInv'
BY DEF SerialInv, serialVars, PortOK, Pending

LEMMA PutsKeeps ==
  ASSUME SerialInv, NEW s \in Seq(Byte), serial_puts(s)
  PROVE  SerialInv'
<1>1. sending' \in Seq(Byte)
  BY SentType DEF serial_puts
<1>2. QED
  BY <1>1 DEF SerialInv, serial_puts, PortOK, Pending

LEMMA PutcKeeps == SerialInv /\ serial_putc => SerialInv'
<1>1. SUFFICES ASSUME SerialInv, serial_putc
               PROVE  SerialInv'
  OBVIOUS
<1> DEFINE ch == Head(sending)
<1>2. /\ thr = NO /\ thr' = ch /\ sending' = Tail(sending) /\ told' = Append(told, ch)
      /\ heard' = heard /\ setup' = setup /\ port' = port
  BY <1>1 DEF serial_putc
<1>3. ch \in Byte /\ sending' \in Seq(Byte)
  BY <1>1 DEF SerialInv, serial_putc
<1> HIDE DEF ch
<1>4. ch # NO
  BY <1>3, ConsoleAssumption DEF Byte
<1>5. told \in Seq(Byte) /\ heard \in Seq(Byte \cup {NO})
  BY <1>1 DEF SerialInv
<1>6. PortOK'
  BY <1>1, <1>2 DEF SerialInv, PortOK
<1>7. setup = 8 => heard' \o Pending' = told'
  <2>1. SUFFICES ASSUME setup = 8
                 PROVE  heard \o <<ch>> = Append(told, ch)
    BY <1>2, <1>4 DEF Pending
  <2>2. heard \o <<>> = told
    BY <1>1, <1>2, <2>1 DEF SerialInv, Pending
  <2>3. heard = told
    BY <1>5, <2>2, ConcatEmptySeq
  <2>4. QED
    BY <1>3, <1>5, <2>3, AppendIsConcat
<1>8. told' \in Seq(Byte)
  BY <1>2, <1>3, <1>5
<1>9. QED
  BY <1>2, <1>3, <1>5, <1>6, <1>7, <1>8 DEF SerialInv

LEMMA TransmitKeeps == SerialInv /\ transmit => SerialInv'
<1>1. SUFFICES ASSUME SerialInv, transmit
               PROVE  SerialInv'
  OBVIOUS
<1>2. /\ thr # NO /\ thr' = NO /\ told' = told /\ sending' = sending
      /\ setup' = setup /\ port' = port /\ thr \in Byte
      /\ heard' = Append(heard, IF Proper THEN thr ELSE NO)
  BY <1>1 DEF transmit, SerialInv
<1>3. told \in Seq(Byte) /\ heard \in Seq(Byte \cup {NO})
  BY <1>1 DEF SerialInv
<1>4. PortOK'
  BY <1>1, <1>2 DEF SerialInv, PortOK
<1>5. heard' \in Seq(Byte \cup {NO})
  <2>1. (IF Proper THEN thr ELSE NO) \in Byte \cup {NO}
    BY <1>2
  <2>2. QED
    BY <1>2, <1>3, <2>1
<1>6. setup = 8 => heard' \o Pending' = told'
  <2>1. SUFFICES ASSUME setup = 8
                 PROVE  heard' \o <<>> = told
    BY <1>2 DEF Pending
  <2>2. Proper
    BY <1>1, <2>1 DEF SerialInv, PortOK, Proper
  <2>3. heard \o <<thr>> = told
    BY <1>1, <1>2, <2>1 DEF SerialInv, Pending
  <2>4. heard' = told
    BY <1>2, <1>3, <2>2, <2>3, AppendIsConcat
  <2>5. QED
    BY <1>3, <2>4, ConcatEmptySeq
<1>7. QED
  BY <1>1, <1>2, <1>3, <1>4, <1>5, <1>6 DEF SerialInv

-----------------------------------------------------------------------------
(* The kernel.  Nothing is being sent while serial_init works, and nothing *)
(* is formatted but in the stage of the messages.                          *)
StageInv ==
  /\ stage \in {"load_msg", "serial_init", "log", "shell", "hlt"}
  /\ stage = "load_msg" => setup = 0
  /\ stage = "serial_init" => sending = <<>>
  /\ stage \in {"log", "shell", "hlt"} => setup = 8
  /\ state # "idle" => stage = "log"

ConsoleInv == FormatInv /\ SerialInv /\ StageInv

LEMMA FormatIdle == FormatInv /\ UNCHANGED formatVars => FormatInv'
BY DEF FormatInv, formatVars, BufferOK, Complete, BufferHoldsText

LEMMA PrintkKeeps ==
  ASSUME FormatInv, NEW call \in Call, printk(call[1], call[2])
  PROVE  FormatInv'
<1> DEFINE f == call[1]
           sz == call[2]
<1>1. f \in Seq(Char) /\ sz \in 0..(WORD - 1)
  BY VsnprintfAssumption
<1>2. state = "idle" /\ fmt' = Append(f, NUL) /\ state' = "S_DEFAULT" /\ size' = sz
      /\ UNCHANGED <<width, n, buf, out>>
  BY DEF printk
<1> HIDE DEF f, sz
<1>3. f \in Seq(Byte) /\ NUL \in Byte
  BY <1>1 DEF Byte
<1>4. Ends0(fmt')
  <2>1. Append(f, NUL) \in Seq(Byte) /\ Len(Append(f, NUL)) = Len(f) + 1
    BY <1>3
  <2>2. Append(f, NUL)[Len(f) + 1] = NUL
    BY <1>3
  <2>3. Append(f, NUL) # <<>>
    BY <1>3
  <2>4. QED
    BY <1>2, <2>1, <2>2, <2>3 DEF Ends0
<1>5. out = <<>> /\ DOMAIN buf = {} /\ n = Len(out) /\ width \in Int
  BY <1>2 DEF FormatInv, BufferOK
<1>6. out' = <<>> /\ n' = 0 /\ DOMAIN buf' = {}
  BY <1>2, <1>5
<1>7. BufferOK'
  BY <1>1, <1>2, <1>6 DEF BufferOK
<1>8. Complete'
  BY <1>6 DEF Complete
<1>9. QED
  BY <1>2, <1>4, <1>5, <1>7, <1>8 DEF FormatInv, BufferHoldsText, Looping

LEMMA PrintkEnds ==
  ASSUME FormatInv, printk_end
  PROVE  FormatInv'
<1>1. /\ state' = "idle" /\ width' = 0 /\ size' = 0 /\ n' = 0 /\ buf' = <<>> /\ out' = <<>>
  BY DEF printk_end
<1>2. DOMAIN buf' = {}
  BY <1>1
<1>3. BufferOK'
  BY <1>1, <1>2, CStringAssumption DEF BufferOK
<1>4. Complete'
  BY <1>1 DEF Complete
<1>5. QED
  BY <1>1, <1>2, <1>3, <1>4 DEF FormatInv, BufferHoldsText, Looping

LEMMA ConsoleInitInv == ConsoleInit => ConsoleInv
<1>1. SUFFICES ASSUME ConsoleInit
               PROVE  ConsoleInv
  OBVIOUS
<1>2. FormatInv
  <2>1. state = "idle" /\ width = 0 /\ size = 0 /\ n = 0 /\ buf = <<>> /\ out = <<>>
    BY <1>1 DEF ConsoleInit, FormatInit
  <2>2. DOMAIN buf = {}
    BY <2>1
  <2>3. BufferOK
    BY <2>1, <2>2, CStringAssumption DEF BufferOK
  <2>4. Complete
    BY <2>1 DEF Complete
  <2>5. QED
    BY <2>1, <2>2, <2>3, <2>4 DEF FormatInv, BufferHoldsText, Looping
<1>3. SerialInv
  <2>1. /\ port \in Firmware /\ thr = NO /\ setup = 0
        /\ sending = Sent(LoadMsg) /\ told = <<>> /\ heard = <<>>
    BY <1>1 DEF ConsoleInit
  <2>2. port \in Port /\ port.LINECTRL < DLAB
    BY <2>1, SerialAssumption
  <2>3. PortOK
    <3>1. port.LINECTRL \in 0..255
      BY <2>2 DEF Port
    <3>2. ~ (port.LINECTRL >= DLAB)
      BY <2>2, <3>1 DEF DLAB
    <3>3. QED
      BY <2>1, <2>2, <3>2 DEF PortOK
  <2>4. LoadMsg \in Seq(Byte)
    BY ConsoleAssumption DEF Byte
  <2>5. sending \in Seq(Byte)
    BY <2>1, <2>4, SentType
  <2>6. told \in Seq(Byte) /\ heard \in Seq(Byte \cup {NO})
    BY <2>1
  <2>7. QED
    BY <2>1, <2>3, <2>5, <2>6 DEF SerialInv
<1>4. StageInv
  BY <1>1 DEF ConsoleInit, StageInv, FormatInit
<1>5. QED
  BY <1>2, <1>3, <1>4 DEF ConsoleInv

LEMMA ConsoleNextInv == ConsoleInv /\ [ConsoleNext]_consoleVars => ConsoleInv'
<1>1. SUFFICES ASSUME FormatInv, SerialInv, StageInv, [ConsoleNext]_consoleVars
               PROVE  FormatInv' /\ SerialInv' /\ StageInv'
  BY DEF ConsoleInv
<1>2. CASE load_msg
  BY <1>1, <1>2, FormatIdle, SerialIdle DEF load_msg, StageInv, Silent, formatVars, serialVars
<1>3. CASE init_port
  <2>1. FormatInv' /\ SerialInv'
    BY <1>1, <1>3, FormatIdle, InitStepKeeps, SerialIdle DEF init_port
  <2>5. stage = "serial_init" /\ state' = state
    BY <1>3 DEF init_port, formatVars
  <2>2. CASE serial_init_step /\ UNCHANGED stage
    <3>1. sending' = sending /\ stage' = stage
      BY <2>2 DEF serial_init_step
    <3>2. QED
      BY <1>1, <2>1, <2>5, <3>1 DEF StageInv
  <2>3. CASE Ready /\ stage' = "log" /\ UNCHANGED serialVars
    <3>1. setup = 8
      BY <2>3, InitWrites, Zenon DEF Ready
    <3>2. setup' = setup /\ stage' = "log"
      BY <2>3 DEF serialVars
    <3>3. QED
      BY <1>1, <2>1, <2>5, <3>1, <3>2 DEF StageInv
  <2>4. QED
    BY <1>3, <2>1, <2>2, <2>3 DEF init_port
<1>4. CASE format
  <2>1. FormatInv' /\ SerialInv'
    BY <1>1, <1>4, FormatStepKeeps, SerialIdle DEF format
  <2>2. state # "idle"
    BY <1>4 DEF format, FormatStep, S_DEFAULT, S_FLAGS, S_WIDTH, S_PRECIS, S_LENGTH, S_CONV,
                Return
  <2>3. QED
    BY <1>1, <1>4, <2>1, <2>2 DEF format, StageInv, serialVars
<1>5. CASE print
  <2>1. FormatInv'
    BY <1>1, <1>5, PrintkEnds DEF print
  <2>2. SerialInv'
    BY <1>1, <1>5, TextType, PutsKeeps DEF print
  <2>3. QED
    BY <1>1, <1>5, <2>1, <2>2 DEF print, printk_end, serial_puts, StageInv
<1>6. CASE put
  <2>1. FormatInv' /\ SerialInv'
    BY <1>1, <1>6, FormatIdle, PutcKeeps DEF put
  <2>2. QED
    BY <1>1, <1>6, <2>1 DEF put, serial_putc, StageInv, formatVars
<1>7. CASE in_shell \/ hlt
  <2>1. UNCHANGED formatVars /\ UNCHANGED serialVars
    BY <1>7 DEF in_shell, hlt
  <2>2. FormatInv' /\ SerialInv'
    BY <1>1, <2>1, FormatIdle, SerialIdle
  <2>3. QED
    BY <1>1, <1>7, <2>1, <2>2 DEF in_shell, hlt, StageInv, formatVars, serialVars
<1>8. CASE chip
  <2>1. FormatInv' /\ SerialInv'
    BY <1>1, <1>8, FormatIdle, TransmitKeeps DEF chip
  <2>2. QED
    BY <1>1, <1>8, <2>1 DEF chip, transmit, StageInv, formatVars
<1>9. ASSUME NEW call \in Call, LOG_P(call[1], call[2])
      PROVE  FormatInv' /\ SerialInv' /\ StageInv'
  <2>1. FormatInv' /\ SerialInv'
    BY <1>1, <1>9, PrintkKeeps, ForgetKeeps DEF LOG_P
  <2>2. QED
    BY <1>1, <1>9, <2>1 DEF LOG_P, Forget, StageInv
<1>10. CASE run_shell
  <2>1. FormatInv' /\ SerialInv'
    BY <1>1, <1>10, FormatIdle, ForgetKeeps DEF run_shell
  <2>2. QED
    BY <1>1, <1>10, <2>1 DEF run_shell, Forget, StageInv, formatVars
<1>11. ASSUME NEW l \in Line, keyboard(l)
       PROVE  FormatInv' /\ SerialInv' /\ StageInv'
  BY <1>1, <1>11, FormatIdle, SerialIdle DEF keyboard, StageInv, formatVars, serialVars
<1>12. CASE UNCHANGED consoleVars
  BY <1>1, <1>12, FormatIdle, SerialIdle DEF consoleVars, StageInv, formatVars, serialVars
<1>13. QED
  BY <1>1, <1>2, <1>3, <1>4, <1>5, <1>6, <1>7, <1>8, <1>9, <1>10, <1>11, <1>12
     DEF ConsoleNext, kmain

-----------------------------------------------------------------------------
(* In every state the buffer, the format and the port are as the invariant *)
(* says, whatever is printed and whatever the firmware left in the chip.   *)
THEOREM ConsoleInvariant == ConsoleSpec => []ConsoleInv
<1>1. QED
  BY ConsoleInitInv, ConsoleNextInv, PTL DEF ConsoleSpec

(* vsnprintf never writes behind its buffer. *)
THEOREM NoOverrun == ConsoleSpec => []StaysInBuffer
<1>1. ConsoleInv => StaysInBuffer
  BY DEF ConsoleInv, FormatInv, BufferOK, StaysInBuffer
<1>2. QED
  BY <1>1, ConsoleInvariant, PTL

(* When it returns, the buffer holds the text, cut where it must be, and   *)
(* its NUL, and the length returned is that of the whole text.             *)
THEOREM TextComplete == ConsoleSpec => []BufferHoldsText
<1>1. ConsoleInv => BufferHoldsText
  BY DEF ConsoleInv, FormatInv
<1>2. QED
  BY <1>1, ConsoleInvariant, PTL

(* After serial_init the other side receives what is written to the port.  *)
THEOREM SerialCorrect == ConsoleSpec => []SerialDelivers
<1>1. ConsoleInv => SerialDelivers
  <2>1. Ready => setup = 8
    BY InitWrites, Zenon DEF Ready
  <2>2. QED
    BY <2>1 DEF ConsoleInv, SerialInv, PortOK, SerialDelivers
<1>2. QED
  BY <1>1, ConsoleInvariant, PTL

(* A character that serial_putc writes is never taken for the divisor: the *)
(* latch is closed as long as there is something to send.                  *)
THEOREM WritesReachTransmitter ==
  ConsoleSpec => [](sending # <<>> => Register(port, "THR") = "THR")
<1>1. ConsoleInv => (sending # <<>> => Register(port, "THR") = "THR")
  <2>1. SUFFICES ASSUME ConsoleInv, sending # <<>>
                 PROVE  port.LINECTRL < DLAB
    BY DEF Register
  <2>2. setup \notin 3..5
    BY <2>1 DEF ConsoleInv, StageInv
  <2>3. port.LINECTRL \in 0..255 /\ DLAB = 128 /\ ~ (port.LINECTRL >= DLAB)
    BY <2>1, <2>2 DEF ConsoleInv, SerialInv, PortOK, Port, DLAB
  <2>4. QED
    BY <2>3
<1>2. QED
  BY <1>1, ConsoleInvariant, PTL

-----------------------------------------------------------------------------
(* The shell.  Addresses in cmd_buf. *)
Addr == 0..(BUF - 1)

LEMMA ScanStops ==
  ASSUME NEW limit \in Nat, NEW p \in 0..limit, NEW mem, NEW S
  PROVE  LET e == Scan(mem, p, S, limit)
         IN  /\ e \in p..limit
             /\ e = limit \/ mem[e] \in S
             /\ \A b \in p..(e - 1) : mem[b] \notin S
<1> DEFINE T == {a \in p..limit : a = limit \/ mem[a] \in S}
<1>1. limit \in T /\ T \in SUBSET Nat
  OBVIOUS
<1>2. PICK x \in T : \A y \in T : x <= y
  BY <1>1, LeastNumber
<1>3. \A b \in p..(x - 1) : mem[b] \notin S
  BY <1>1, <1>2
<1>4. \E a \in p..limit : /\ a = limit \/ mem[a] \in S
                         /\ \A b \in p..(a - 1) : mem[b] \notin S
  BY <1>3
<1>5. QED
  BY <1>4 DEF Scan

(* A scan ends where there is something to find and nothing before it. *)
LEMMA ScanIs ==
  ASSUME NEW limit \in Nat, NEW p \in 0..limit, NEW mem, NEW S,
         NEW x \in p..limit, x = limit \/ mem[x] \in S,
         \A b \in p..(x - 1) : mem[b] \notin S
  PROVE  Scan(mem, p, S, limit) = x
<1> DEFINE e == Scan(mem, p, S, limit)
<1>1. /\ e \in p..limit
      /\ e = limit \/ mem[e] \in S
      /\ \A b \in p..(e - 1) : mem[b] \notin S
  BY ScanStops
<1> HIDE DEF e
<1>2. e = x
  <2>1. ~ (e < x)
    BY <1>1
  <2>2. ~ (x < e)
    BY <1>1
  <2>3. QED
    BY <1>1, <2>1, <2>2
<1>3. QED
  BY <1>2 DEF e

LEMMA BufType == BUF \in Nat /\ BUF > 1 /\ BUF - 1 \in Nat
BY ShellAssumption

LEMMA NullIsNone ==
  ASSUME NEW p \in Nat
  PROVE  p # NULL
BY CStringAssumption

(* What a call of strtok gives back. *)
LEMMA StrtokType ==
  ASSUME NEW mem \in [Addr -> Byte], NEW p \in 0..BUF \cup {NULL}
  PROVE  LET r == strtok(mem, p, {" "}, BUF)
         IN  /\ r.mem \in [Addr -> Byte]
             /\ r.token \in Addr \cup {NULL}
             /\ r.next \in 0..BUF \cup {NULL}
<1> DEFINE r == strtok(mem, p, {" "}, BUF)
<1>1. CASE p = NULL \/ p = BUF \/ mem[p] = NUL
  BY <1>1 DEF strtok, NoToken
<1>2. CASE ~ (p = NULL \/ p = BUF \/ mem[p] = NUL)
  <2>1. p \in Addr /\ p \in 0..BUF
    BY <1>2, BufType DEF Addr
  <2>2. r = Token(mem, p, {" "}, BUF)
    BY <1>2 DEF strtok
  <2> DEFINE e == Scan(mem, p, {" "} \cup {NUL}, BUF)
  <2>3. e \in p..BUF
    BY <2>1, BufType, ScanStops
  <2>4. r = IF e = BUF \/ mem[e] = NUL
            THEN [mem |-> mem, token |-> p, next |-> NULL, stray |-> e = BUF]
            ELSE [mem |-> [mem EXCEPT ![e] = NUL], token |-> p, next |-> e + 1, stray |-> FALSE]
    BY <2>2 DEF Token
  <2> HIDE DEF e, r
  <2> DEFINE OK == /\ r.mem \in [Addr -> Byte]
                   /\ r.token \in Addr \cup {NULL}
                   /\ r.next \in 0..BUF \cup {NULL}
  <2>5. CASE e = BUF \/ mem[e] = NUL
    <3>1. r = [mem |-> mem, token |-> p, next |-> NULL, stray |-> e = BUF]
      BY <2>4, <2>5
    <3>2. r.mem = mem /\ r.token = p /\ r.next = NULL
      BY <3>1
    <3>3. OK
      BY <2>1, <3>2
    <3>4. QED
      BY <3>3 DEF r
  <2>6. CASE ~ (e = BUF \/ mem[e] = NUL)
    <3>1. NUL \in Byte
      BY DEF Byte
    <3>2. [mem EXCEPT ![e] = NUL] \in [Addr -> Byte]
      BY <3>1
    <3>3. e + 1 \in 0..BUF
      BY <2>1, <2>3, <2>6, BufType
    <3>4. r.mem = [mem EXCEPT ![e] = NUL] /\ r.token = p /\ r.next = e + 1
      BY <2>4, <2>6
    <3>5. OK
      BY <2>1, <3>2, <3>3, <3>4
    <3>6. QED
      BY <3>5 DEF r
  <2>7. QED
    BY <2>5, <2>6
<1>3. QED
  BY <1>1, <1>2

(* The end of the field of l that begins at s. *)
EndOf(l, s) ==
  CHOOSE e \in s..(Len(l) + 1) :
    /\ e = Len(l) + 1 \/ e \in {k \in 1..Len(l) : l[k] = " "}
    /\ \A k \in s..(e - 1) : k \notin {b \in 1..Len(l) : l[b] = " "}

LEMMA EndsAre ==
  ASSUME NEW s
  PROVE  Ends(s) = EndOf(line, s)
BY DEF Ends, EndOf, Blanks

LEMMA EndsIs ==
  ASSUME line \in Seq(Char), NEW s \in 1..(Len(line) + 1),
         NEW e \in s..(Len(line) + 1), e = Len(line) + 1 \/ e \in Blanks,
         \A k \in s..(e - 1) : k \notin Blanks
  PROVE  EndOf(line, s) = e
<1>1. Len(line) \in Nat
  OBVIOUS
<1> DEFINE f == EndOf(line, s)
<1>2. f \in s..(Len(line) + 1) /\ (f = Len(line) + 1 \/ f \in Blanks)
      /\ \A k \in s..(f - 1) : k \notin Blanks
  BY DEF EndOf, Blanks
<1> HIDE DEF f
<1>3. ~ (e < f) /\ ~ (f < e)
  BY <1>1, <1>2
<1>4. f = e
  BY <1>1, <1>2, <1>3
<1>5. QED
  BY <1>4 DEF f

LEMMA EndsStops ==
  ASSUME line \in Seq(Char), NEW s \in 1..(Len(line) + 1)
  PROVE  /\ EndOf(line, s) \in s..(Len(line) + 1)
         /\ EndOf(line, s) = Len(line) + 1 \/ EndOf(line, s) \in Blanks
         /\ \A k \in s..(EndOf(line, s) - 1) : k \notin Blanks
<1> DEFINE T == {e \in s..(Len(line) + 1) : e = Len(line) + 1 \/ e \in Blanks}
<1>1. Len(line) \in Nat /\ Len(line) + 1 \in T /\ T \in SUBSET Nat
  OBVIOUS
<1>2. PICK x \in T : \A y \in T : x <= y
  BY <1>1, LeastNumber
<1>3. \A k \in s..(x - 1) : k \notin Blanks
  BY <1>1, <1>2
<1>4. EndOf(line, s) = x
  BY <1>2, <1>3, EndsIs
<1>5. QED
  BY <1>2, <1>3, <1>4
-----------------------------------------------------------------------------
(* The k-th token: a field of the line that is still in cmd_buf, with a    *)
(* NUL behind it.                                                          *)
Cut(k) ==
  LET s == args[k] + 1
      e == EndOf(line, s)
  IN  /\ s \in Fields
      /\ \A a \in s..(e - 1) : cmd_buf[a - 1] = line[a]
      /\ cmd_buf[e - 1] = NUL

(* The tokens found are the first fields, in their order. *)
Consecutive ==
  /\ argc <= ARGS
  /\ argc > 0 => args[1] = 0
  /\ \A k \in 2..argc : args[k] = EndOf(line, args[k - 1] + 1)
  /\ \A k \in 1..argc : Cut(k)

(* The position of strtok: the rest of the line is untouched. *)
AtRest ==
  /\ cmd_buf[Len(line)] = NUL
  /\ next_token = NULL => argc > 0 /\ EndOf(line, args[argc] + 1) = Len(line) + 1
  /\ next_token # NULL =>
       /\ next_token \in 0..Len(line)
       /\ next_token + 1 \in Starts
       /\ next_token = IF argc = 0 THEN 0 ELSE EndOf(line, args[argc] + 1)
       /\ \A a \in next_token..(Len(line) - 1) : cmd_buf[a] = line[a + 1]
       /\ \A k \in 1..argc : EndOf(line, args[k] + 1) <= next_token

ShellType ==
  /\ pc \in {"off", "prompt", "getline", "strtok", "run", "mdmp", "ptwalk", "repeat", "done",
             "fault"}
  /\ pc # "off" => cmd_buf \in [Addr -> Byte]
  /\ args \in Seq(Addr) /\ (pc = "getline" => args = <<>>)
  /\ next_token \in 0..BUF \cup {NULL}
  /\ input \in Seq(Char)
  /\ line \in Seq(Char) /\ Len(line) < BUF

CutInv == pc = "strtok" /\ ~ Full => Consecutive /\ AtRest

StrayInv ==
  /\ stray \in BOOLEAN
  /\ pc \in {"off", "getline"} => ~ stray
  /\ pc \in {"strtok", "run"} /\ ~ Full => ~ stray
  /\ StraysExplained

LEMMA CharIsNotNul ==
  ASSUME NEW s \in Seq(Char), NEW k \in 1..Len(s)
  PROVE  s[k] # NUL
BY CharAssumption

(* A token is the field it was. *)
LEMMA CutIsWord ==
  ASSUME ShellType, ~ Full, NEW k \in 1..argc, Cut(k)
  PROVE  Word(k) = SubSeq(line, args[k] + 1, EndOf(line, args[k] + 1) - 1)
<1> DEFINE s == args[k] + 1
           e == EndOf(line, s)
<1>1. /\ args[k] \in 0..(BUF - 1) /\ Len(line) \in Nat /\ Len(line) < BUF - 1
      /\ line \in Seq(Char)
  BY BufType DEF ShellType, Addr, argc, Full
<1>2. s \in 1..Len(line) /\ s \in 1..(Len(line) + 1)
  BY <1>1 DEF Cut, Fields
<1>3. e \in s..(Len(line) + 1)
  BY <1>1, <1>2, EndsStops
<1>4. (\A a \in s..(e - 1) : cmd_buf[a - 1] = line[a]) /\ cmd_buf[e - 1] = NUL
  BY DEF Cut
<1>5. args[k] = s - 1
  BY <1>1
<1> HIDE DEF s, e
<1>6. Scan(cmd_buf, s - 1, {NUL}, BUF) = e - 1
  <2>1. ASSUME NEW b \in (s - 1)..((e - 1) - 1)
        PROVE  cmd_buf[b] \notin {NUL}
    <3>1. b + 1 \in s..(e - 1) /\ b + 1 \in 1..Len(line) /\ (b + 1) - 1 = b
      BY <1>1, <1>2, <1>3
    <3>2. cmd_buf[b] = line[b + 1]
      BY <1>4, <3>1
    <3>3. QED
      BY <1>1, <3>1, <3>2, CharIsNotNul
  <2> DEFINE p == s - 1
             x == e - 1
  <2>2. p \in 0..BUF /\ x \in p..BUF /\ BUF \in Nat
    BY <1>1, <1>2, <1>3, BufType
  <2>3. (\A b \in p..(x - 1) : cmd_buf[b] \notin {NUL}) /\ cmd_buf[x] \in {NUL}
    BY <1>4, <2>1
  <2> HIDE DEF p, x
  <2>4. Scan(cmd_buf, p, {NUL}, BUF) = x
    BY <2>2, <2>3, ScanIs
  <2>5. QED
    BY <2>4 DEF p, x
<1>7. Word(k) = [j \in 1..((e - 1) - (s - 1)) |-> cmd_buf[(s - 1) + j - 1]]
  BY <1>5, <1>6 DEF Word, StringAt, strlen
<1>8. SubSeq(line, s, e - 1) = [j \in 1..((e - 1) - s + 1) |-> line[s + j - 1]]
  BY <1>1, <1>2, <1>3
<1>9. (e - 1) - (s - 1) = (e - 1) - s + 1
  BY <1>1, <1>2, <1>3
<1>10. ASSUME NEW j \in 1..((e - 1) - s + 1)
       PROVE  cmd_buf[(s - 1) + j - 1] = line[s + j - 1]
  <2>1. s + j - 1 \in s..(e - 1) /\ (s + j - 1) - 1 = (s - 1) + j - 1
    BY <1>1, <1>2, <1>3
  <2>2. QED
    BY <1>4, <2>1
<1>11. QED
  BY <1>7, <1>8, <1>9, <1>10 DEF s, e

(* A field that is not behind the last token is a token. *)
LEMMA NoFieldBetween ==
  ASSUME ShellType, Consecutive, NEW s \in Fields, argc > 0, s <= args[argc] + 1
  PROVE  \E k \in 1..argc : s = args[k] + 1
<1>1. /\ argc \in Nat /\ \A k \in 1..argc : args[k] \in Nat
      /\ line \in Seq(Char) /\ Len(line) \in Nat
  BY BufType DEF ShellType, Addr, argc
<1>2. s \in 1..Len(line) /\ (s = 1 \/ s - 1 \in Blanks)
  <2>1. s \in Starts /\ s <= Len(line)
    BY DEF Fields
  <2>2. s = 1 \/ \E b \in Blanks : s = b + 1
    BY <2>1 DEF Starts
  <2>3. Blanks \subseteq 1..Len(line)
    BY Zenon DEF Blanks
  <2>4. QED
    BY <1>1, <2>1, <2>2, <2>3
<1> DEFINE T == {k \in 1..argc : s <= args[k] + 1}
<1>3. T \in SUBSET Nat /\ argc \in T
  BY <1>1
<1>4. PICK k \in T : \A y \in T : k <= y
  BY <1>3, LeastNumber
<1>5. k \in 1..argc /\ s <= args[k] + 1
  BY <1>4
<1>6. CASE k = 1
  BY <1>1, <1>2, <1>5, <1>6 DEF Consecutive
<1>7. CASE k # 1
  <2>1. k \in 2..argc /\ k - 1 \in 1..argc /\ ~ (s <= args[k - 1] + 1)
    BY <1>1, <1>4, <1>5, <1>7
  <2> DEFINE q == args[k - 1] + 1
  <2>2. args[k] = EndOf(line, q) /\ q \in 1..Len(line)
    <3>1. args[k] = EndOf(line, q)
      BY <2>1 DEF Consecutive
    <3>2. Cut(k - 1)
      BY <2>1 DEF Consecutive
    <3>3. q \in Fields
      BY <3>2 DEF Cut
    <3>4. q <= Len(line) /\ args[k - 1] \in Nat
      BY <1>1, <2>1, <3>3 DEF Fields
    <3>5. QED
      BY <1>1, <3>1, <3>4
  <2>3. \A b \in q..(EndOf(line, q) - 1) : b \notin Blanks
    <3>1. q \in 1..(Len(line) + 1)
      BY <1>1, <2>2
    <3> HIDE DEF q
    <3>2. QED
      BY <1>1, <3>1, EndsStops
  <2>4. s > q /\ s # 1 /\ s - 1 \in Blanks
    BY <1>1, <1>2, <2>1, <2>2
  <2> HIDE DEF q
  <2>5. args[k] \in Nat
    BY <1>1, <1>5
  <2>6. s = args[k] + 1
    BY <1>2, <1>5, <2>2, <2>3, <2>4, <2>5
  <2>7. QED
    BY <1>5, <2>6
<1>8. QED
  BY <1>6, <1>7

(* Every field is a token. *)
Covered == \A s \in Fields : argc > 0 /\ s <= args[argc] + 1

(* strtok on a line that ends in the buffer: no token is left, or the next *)
(* one is the next field.                                                  *)
NextIsField(r) ==
  LET e == EndOf(line, next_token + 1)
  IN  /\ r.token = next_token /\ next_token \in 0..(Len(line) - 1)
      /\ next_token + 1 \in Fields
      /\ \/ e = Len(line) + 1 /\ r.mem = cmd_buf /\ r.next = NULL
         \/ /\ e \in (next_token + 1)..Len(line)
            /\ r.mem = [cmd_buf EXCEPT ![e - 1] = NUL]
            /\ r.next = e /\ e + 1 \in Starts

LEMMA NothingLeft ==
  ASSUME ShellType, Consecutive, NEW e \in Nat, e >= Len(line),
         argc > 0 => EndOf(line, args[argc] + 1) = e, argc = 0 => Len(line) = 0
  PROVE  Covered
<1>1. argc \in Nat /\ line \in Seq(Char) /\ Len(line) \in Nat
  BY DEF ShellType, argc
<1>2. SUFFICES ASSUME NEW s \in Fields
               PROVE  argc > 0 /\ s <= args[argc] + 1
  BY DEF Covered
<1>3. s \in Starts /\ s <= Len(line)
  BY DEF Fields
<1>4. Blanks \subseteq 1..Len(line)
  BY Zenon DEF Blanks
<1>5. s \in 1..Len(line) /\ (s = 1 \/ s - 1 \in Blanks)
  BY <1>1, <1>3, <1>4 DEF Starts
<1>6. argc > 0 /\ argc \in 1..argc
  BY <1>1, <1>5
<1> DEFINE q == args[argc] + 1
<1>7. q \in Fields /\ args[argc] \in Nat
  <2>1. args[argc] \in Addr
    BY <1>6 DEF ShellType, argc
  <2>2. Cut(argc)
    BY <1>6 DEF Consecutive
  <2>3. QED
    BY <2>1, <2>2, BufType DEF Cut, Addr
<1>8. q \in 1..(Len(line) + 1)
  BY <1>1, <1>7 DEF Fields
<1>9. EndOf(line, q) = e
  BY <1>6
<1> HIDE DEF q
<1>10. \A b \in q..(e - 1) : b \notin Blanks
  BY <1>1, <1>8, <1>9, EndsStops
<1>11. s <= q
  BY <1>1, <1>5, <1>8, <1>10
<1>12. QED
  BY <1>6, <1>11 DEF q

LEMMA StrtokCut ==
  ASSUME ShellType, ~ Full, pc = "strtok", Consecutive, AtRest
  PROVE  LET r == strtok(cmd_buf, next_token, {" "}, BUF)
         IN  /\ r.stray = FALSE
             /\ \/ r.token = NULL /\ r.mem = cmd_buf /\ Covered
                \/ NextIsField(r)
<1> DEFINE r == strtok(cmd_buf, next_token, {" "}, BUF)
           p == next_token
           Goal == /\ r.stray = FALSE
                   /\ \/ r.token = NULL /\ r.mem = cmd_buf /\ Covered
                      \/ NextIsField(r)
<1>1. /\ argc \in Nat /\ line \in Seq(Char) /\ Len(line) \in Nat /\ Len(line) < BUF - 1
      /\ cmd_buf \in [Addr -> Byte] /\ cmd_buf[Len(line)] = NUL /\ Len(line) + 1 \in Nat
  BY BufType DEF ShellType, argc, Full, AtRest
<1>2. CASE p = NULL
  <2>1. argc > 0 /\ EndOf(line, args[argc] + 1) = Len(line) + 1
    BY <1>2 DEF AtRest
  <2>2. Covered
    <3> DEFINE e == Len(line) + 1
    <3>1. e \in Nat /\ e >= Len(line) /\ EndOf(line, args[argc] + 1) = e /\ argc # 0
      BY <1>1, <2>1
    <3> HIDE DEF e
    <3>2. QED
      BY <3>1, NothingLeft
  <2>3. r = NoToken(cmd_buf, NULL, FALSE)
    BY <1>2 DEF strtok
  <2> HIDE DEF r
  <2>4. Goal
    BY <2>2, <2>3 DEF NoToken
  <2>5. QED
    BY <2>4 DEF r
<1>3. CASE p # NULL
  <2>1. /\ p \in 0..Len(line) /\ p # BUF
        /\ p + 1 \in Starts
        /\ p = IF argc = 0 THEN 0 ELSE EndOf(line, args[argc] + 1)
        /\ \A a \in p..(Len(line) - 1) : cmd_buf[a] = line[a + 1]
    BY <1>1, <1>3, BufType DEF AtRest
  <2>2. p # Len(line) => cmd_buf[p] # NUL
    <3>1. SUFFICES ASSUME p # Len(line)
                   PROVE  cmd_buf[p] # NUL
      OBVIOUS
    <3>2. p + 1 \in 1..Len(line) /\ p \in p..(Len(line) - 1)
      BY <1>1, <2>1, <3>1
    <3>3. QED
      BY <1>1, <2>1, <3>2, CharIsNotNul
  <2>3. CASE p = Len(line)
    <3>1. r = NoToken(cmd_buf, p, FALSE)
      BY <1>1, <1>3, <2>1, <2>3 DEF strtok
    <3>2. Covered
      <4> DEFINE e == Len(line)
      <4>1. e \in Nat /\ e >= Len(line) /\ (argc > 0 => EndOf(line, args[argc] + 1) = e)
            /\ (argc = 0 => Len(line) = 0)
        BY <1>1, <2>1, <2>3
      <4> HIDE DEF e
      <4>2. QED
        BY <4>1, NothingLeft
    <3> HIDE DEF r
    <3>3. Goal
      BY <3>1, <3>2 DEF NoToken
    <3>4. QED
      BY <3>3 DEF r
  <2>4. CASE p # Len(line)
    <3>1. r = Token(cmd_buf, p, {" "}, BUF)
      BY <1>3, <2>1, <2>2, <2>4 DEF strtok
    <3> DEFINE s == p + 1
               e == EndOf(line, s)
               D == {" "} \cup {NUL}
    <3>2. s \in 1..Len(line) /\ s \in 1..(Len(line) + 1) /\ p = s - 1 /\ p \in 0..(Len(line) - 1)
      BY <1>1, <2>1, <2>4
    <3>3. s \in Fields
      BY <2>1, <3>2 DEF Fields
    <3> HIDE DEF s
    <3>4. /\ e \in s..(Len(line) + 1)
          /\ e = Len(line) + 1 \/ e \in Blanks
          /\ \A k \in s..(e - 1) : k \notin Blanks
      BY <1>1, <3>2, EndsStops
    <3> HIDE DEF e
    <3>5. \A a \in s..Len(line) : cmd_buf[a - 1] = line[a] /\ line[a] # NUL
      <4>1. SUFFICES ASSUME NEW a \in s..Len(line)
                     PROVE  cmd_buf[a - 1] = line[a] /\ line[a] # NUL
        OBVIOUS
      <4>2. a - 1 \in p..(Len(line) - 1) /\ (a - 1) + 1 = a /\ a \in 1..Len(line)
        BY <1>1, <3>2
      <4>3. QED
        BY <1>1, <2>1, <4>2, CharIsNotNul
    <3>6. \A a \in s..Len(line) : a \in Blanks <=> line[a] = " "
      <4>1. \A a \in s..Len(line) : a \in 1..Len(line)
        BY <1>1, <3>2
      <4>2. QED
        BY <4>1, Zenon DEF Blanks
    <3>7. ASSUME NEW b \in p..((e - 1) - 1)
          PROVE  cmd_buf[b] \notin D
      <4>1. b + 1 \in s..(e - 1) /\ b + 1 \in s..Len(line) /\ (b + 1) - 1 = b
        BY <1>1, <3>2, <3>4
      <4>2. cmd_buf[b] = line[b + 1] /\ line[b + 1] # NUL /\ line[b + 1] # " "
        BY <3>4, <3>5, <3>6, <4>1
      <4>3. QED
        BY <4>2
    <3>8. CASE e = Len(line) + 1
      <4>1. e - 1 = Len(line) /\ cmd_buf[e - 1] = NUL
        BY <1>1, <3>8
      <4> DEFINE x == e - 1
      <4>2. x \in p..BUF /\ p \in 0..BUF /\ cmd_buf[x] \in D /\ x # BUF /\ BUF \in Nat
            /\ (\A b \in p..(x - 1) : cmd_buf[b] \notin D)
        <5>1. x \in p..BUF /\ p \in 0..BUF /\ x # BUF /\ BUF \in Nat
          BY <1>1, <3>2, <4>1, BufType
        <5>2. cmd_buf[x] \in D
          BY <4>1
        <5>3. QED
          BY <3>7, <5>1, <5>2
      <4> HIDE DEF x, D
      <4>3. Scan(cmd_buf, p, D, BUF) = x
        BY <4>2, ScanIs
      <4>4. r = [mem |-> cmd_buf, token |-> p, next |-> NULL, stray |-> FALSE]
        BY <3>1, <4>1, <4>2, <4>3 DEF Token, x, D
      <4> HIDE DEF r
      <4>5. r.mem = cmd_buf /\ r.token = p /\ r.next = NULL /\ r.stray = FALSE
        BY <4>4
      <4>6. NextIsField(r)
        BY <3>2, <3>3, <3>8, <4>5 DEF NextIsField, s, e
      <4>7. Goal
        BY <4>5, <4>6
      <4>8. QED
        BY <4>7 DEF r
    <3>9. CASE e # Len(line) + 1
      <4>1. e \in s..Len(line) /\ e \in Blanks
        BY <1>1, <3>4, <3>9
      <4>2. cmd_buf[e - 1] = " " /\ cmd_buf[e - 1] # NUL
        BY <3>5, <3>6, <4>1
      <4> DEFINE x == e - 1
      <4>3. x \in p..BUF /\ p \in 0..BUF /\ cmd_buf[x] \in D /\ x # BUF /\ BUF \in Nat
            /\ (\A b \in p..(x - 1) : cmd_buf[b] \notin D)
        <5>1. x \in p..BUF /\ p \in 0..BUF /\ x # BUF /\ BUF \in Nat
          BY <1>1, <3>2, <3>4, <4>1, BufType
        <5>2. cmd_buf[x] \in D
          BY <4>2
        <5>3. QED
          BY <3>7, <5>1, <5>2
      <4>4. x + 1 = e
        BY <3>2, <3>4
      <4> HIDE DEF x, D
      <4>5. Scan(cmd_buf, p, D, BUF) = x
        BY <4>3, ScanIs
      <4>6. r = [mem |-> [cmd_buf EXCEPT ![x] = NUL], token |-> p, next |-> x + 1,
                 stray |-> FALSE]
        BY <3>1, <4>2, <4>3, <4>5 DEF Token, x, D
      <4> HIDE DEF r
      <4>7. r.mem = [cmd_buf EXCEPT ![e - 1] = NUL] /\ r.token = p /\ r.next = e /\ r.stray = FALSE
        BY <4>4, <4>6 DEF x
      <4>8. e + 1 \in Starts
        BY <4>1 DEF Starts
      <4>9. e \in (p + 1)..Len(line)
        BY <4>1 DEF s
      <4>10. NextIsField(r)
        BY <3>2, <3>3, <4>7, <4>8, <4>9 DEF NextIsField, s, e
      <4>11. Goal
        BY <4>7, <4>10
      <4>12. QED
        BY <4>11 DEF r
    <3>10. QED
      BY <3>8, <3>9
  <2>5. QED
    BY <2>3, <2>4
<1>4. QED
  BY <1>2, <1>3

-----------------------------------------------------------------------------
(* The loop of run_cmd that calls strtok keeps this. *)
RunInv == pc = "run" /\ ~ Full => Consecutive /\ (argc = ARGS \/ Covered)

TokenInv == CutInv /\ RunInv /\ StrayInv

LEMMA LineFixed ==
  ASSUME line' = line
  PROVE  /\ Blanks' = Blanks /\ Starts' = Starts /\ Fields' = Fields /\ Full' = Full
BY DEF Blanks, Starts, Fields, Full

(* A byte behind the tokens may change. *)
LEMMA CutStays ==
  ASSUME ShellType, ~ Full, pc = "strtok", line' = line, NEW k \in 1..argc, Cut(k),
         args'[k] = args[k],
         NEW x \in Nat, EndOf(line, args[k] + 1) <= x,
         cmd_buf' \in {cmd_buf, [cmd_buf EXCEPT ![x] = NUL]}
  PROVE  Cut(k)'
<1> DEFINE s == args[k] + 1
           e == EndOf(line, s)
<1>1. /\ args[k] \in 0..(BUF - 1) /\ Len(line) \in Nat /\ Len(line) < BUF - 1
      /\ line \in Seq(Char) /\ cmd_buf \in [Addr -> Byte]
  BY BufType DEF ShellType, Addr, argc, Full
<1>2. s \in 1..(Len(line) + 1) /\ s \in Fields
  BY <1>1 DEF Cut, Fields
<1>3. e \in s..(Len(line) + 1)
  BY <1>1, <1>2, EndsStops
<1>4. (\A a \in s..(e - 1) : cmd_buf[a - 1] = line[a]) /\ cmd_buf[e - 1] = NUL
  BY DEF Cut
<1>5. Fields' = Fields /\ args'[k] + 1 = s
  BY LineFixed
<1>6. \A b \in 0..(e - 1) : cmd_buf'[b] = cmd_buf[b]
  <2>1. SUFFICES ASSUME NEW b \in 0..(e - 1)
                 PROVE  cmd_buf'[b] = cmd_buf[b]
    OBVIOUS
  <2>2. b \in Addr /\ b # x
    BY <1>1, <1>2, <1>3, BufType DEF Addr
  <2>3. [cmd_buf EXCEPT ![x] = NUL][b] = cmd_buf[b]
    BY <1>1, <2>2
  <2>4. QED
    BY <2>3
<1> HIDE DEF s, e
<1>7. \A a \in s..e : a - 1 \in 0..(e - 1)
  BY <1>1, <1>2, <1>3
<1>8. (\A a \in s..(e - 1) : cmd_buf'[a - 1] = line[a]) /\ cmd_buf'[e - 1] = NUL
  <2>1. \A a \in s..(e - 1) : a \in s..e
    BY <1>1, <1>2, <1>3
  <2>2. e \in s..e
    BY <1>2, <1>3
  <2>3. QED
    BY <1>4, <1>6, <1>7, <2>1, <2>2
<1>9. QED
  BY <1>2, <1>5, <1>8 DEF Cut, s, e

LEMMA TokenizeType ==
  ASSUME ShellType, tokenize
  PROVE  ShellType'
<1> DEFINE r == strtok(cmd_buf, next_token, {" "}, BUF)
<1>1. /\ cmd_buf \in [Addr -> Byte] /\ next_token \in 0..BUF \cup {NULL} /\ args \in Seq(Addr)
  BY DEF ShellType, tokenize
<1>2. /\ r.mem \in [Addr -> Byte] /\ r.token \in Addr \cup {NULL}
      /\ r.next \in 0..BUF \cup {NULL}
  BY <1>1, StrtokType
<1>3. /\ cmd_buf' = r.mem /\ next_token' = r.next
      /\ args' = IF r.token # NULL /\ Len(args) < ARGS THEN Append(args, r.token) ELSE args
      /\ pc' \in {"strtok", "run"} /\ input' = input /\ line' = line
  BY DEF tokenize
<1> HIDE DEF r
<1>4. args' \in Seq(Addr)
  BY <1>1, <1>2, <1>3
<1>5. QED
  BY <1>2, <1>3, <1>4 DEF ShellType

(* The next field becomes a token, or there is no room for it. *)
LEMMA NextTokenKeeps ==
  ASSUME ShellType, ~ Full, pc = "strtok", Consecutive, AtRest, line' = line,
         NEW r, NextIsField(r), cmd_buf' = r.mem, next_token' = r.next
  PROVE  /\ args' = args => Consecutive'
         /\ args' = Append(args, r.token) /\ argc < ARGS => Consecutive' /\ AtRest'
<1> DEFINE p == next_token
           s == p + 1
           e == EndOf(line, s)
           x == e - 1
<1>1. /\ argc \in Nat /\ argc = Len(args) /\ args \in Seq(Addr) /\ line \in Seq(Char)
      /\ Len(line) \in Nat /\ Len(line) < BUF - 1 /\ cmd_buf \in [Addr -> Byte]
  BY BufType DEF ShellType, argc, Full
<1>2. p \in 0..(Len(line) - 1) /\ s \in Fields /\ r.token = p /\ p # NULL
  BY NullIsNone DEF NextIsField
<1>3. /\ p = IF argc = 0 THEN 0 ELSE EndOf(line, args[argc] + 1)
      /\ \A a \in p..(Len(line) - 1) : cmd_buf[a] = line[a + 1]
      /\ \A k \in 1..argc : EndOf(line, args[k] + 1) <= p
      /\ cmd_buf[Len(line)] = NUL
  BY <1>2 DEF AtRest
<1>4. \/ e = Len(line) + 1 /\ cmd_buf' = cmd_buf /\ next_token' = NULL
      \/ /\ e \in s..Len(line) /\ cmd_buf' = [cmd_buf EXCEPT ![x] = NUL]
         /\ next_token' = e /\ e + 1 \in Starts
  BY DEF NextIsField
<1>5. s \in 1..Len(line) /\ s \in 1..(Len(line) + 1) /\ p = s - 1
  BY <1>1, <1>2
<1> HIDE DEF s
<1>6. e \in s..(Len(line) + 1)
  BY <1>1, <1>5, EndsStops
<1> HIDE DEF e
<1>7. x \in Nat /\ p <= x /\ x \in Addr /\ e = x + 1 /\ p < e
  BY <1>1, <1>5, <1>6, BufType DEF Addr
<1>8. cmd_buf' \in {cmd_buf, [cmd_buf EXCEPT ![x] = NUL]}
  BY <1>4
<1> HIDE DEF x
<1>9. ASSUME NEW k \in 1..argc, args'[k] = args[k]
      PROVE  Cut(k)'
  <2>1. EndOf(line, args[k] + 1) <= x /\ Cut(k)
    <3>1. EndOf(line, args[k] + 1) <= p /\ Cut(k)
      BY <1>3 DEF Consecutive
    <3>2. args[k] \in 0..(BUF - 1) /\ args[k] + 1 \in Fields
      <4>1. args[k] \in Addr
        BY <1>1
      <4>2. QED
        BY <3>1, <4>1 DEF Cut, Addr
    <3>3. args[k] + 1 \in 1..(Len(line) + 1)
      BY <1>1, <3>2, BufType DEF Fields
    <3> DEFINE q == args[k] + 1
    <3> HIDE DEF q
    <3>4. EndOf(line, q) \in q..(Len(line) + 1) /\ q \in 1..(Len(line) + 1)
      BY <1>1, <3>3, EndsStops DEF q
    <3>5. EndOf(line, q) <= x
      BY <1>1, <1>2, <1>7, <3>1, <3>4 DEF q
    <3>6. QED
      BY <3>1, <3>5 DEF q
  <2>2. QED
    BY <1>7, <1>8, <1>9, <2>1, CutStays
<1>10. /\ Blanks' = Blanks /\ Starts' = Starts /\ Fields' = Fields
  BY LineFixed
<1>11. ASSUME args' = args
       PROVE  Consecutive'
  <2>1. argc' = argc
    BY <1>11 DEF argc
  <2>2. \A k \in 1..argc : Cut(k)'
    BY <1>9, <1>11
  <2>3. \A k \in 2..argc : args[k] = EndOf(line, args[k - 1] + 1)
    BY DEF Consecutive
  <2>4. QED
    BY <1>11, <2>1, <2>2, <2>3 DEF Consecutive
<1>12. ASSUME args' = Append(args, r.token), argc < ARGS
       PROVE  Consecutive' /\ AtRest'
  <2>1. /\ argc' = argc + 1 /\ args'[argc + 1] = p
        /\ \A k \in 1..argc : args'[k] = args[k]
    <3>1. p \in Addr
      BY <1>1, <1>2, BufType DEF Addr
    <3>2. Len(args') = Len(args) + 1
      BY <1>1, <1>2, <1>12, <3>1
    <3>3. QED
      BY <1>1, <1>2, <1>12, <3>1, <3>2 DEF argc
  <2>2. e = x + 1 /\ cmd_buf'[x] = NUL
    <3>1. CASE e = Len(line) + 1 /\ cmd_buf' = cmd_buf
      <4>1. x = Len(line)
        BY <1>1, <1>7, <3>1
      <4>2. QED
        BY <1>3, <1>7, <3>1, <4>1
    <3>2. CASE cmd_buf' = [cmd_buf EXCEPT ![x] = NUL]
      BY <1>1, <1>7, <3>2
    <3>3. QED
      BY <1>4, <3>1, <3>2
  <2>3. \A a \in Addr : a # x => cmd_buf'[a] = cmd_buf[a]
    BY <1>1, <1>8
  <2>4. \A a \in s..x : cmd_buf'[a - 1] = line[a]
    <3>1. SUFFICES ASSUME NEW a \in s..x
                   PROVE  cmd_buf'[a - 1] = line[a]
      OBVIOUS
    <3>2. a - 1 \in p..(Len(line) - 1) /\ (a - 1) + 1 = a /\ a - 1 # x /\ a - 1 \in Addr
      BY <1>1, <1>5, <1>6, <1>7, BufType DEF Addr
    <3>3. QED
      BY <1>3, <2>3, <3>2
  <2>5. ASSUME NEW k, k = argc + 1
        PROVE  Cut(k)'
    <3>1. args'[k] + 1 = s /\ EndOf(line, s) = e /\ s \in Fields' /\ e - 1 = x
      BY <1>2, <1>7, <1>10, <2>1, <2>5 DEF s, e
    <3>2. QED
      BY <2>2, <2>4, <3>1 DEF Cut
  <2>6. \A k \in 1..(argc + 1) : Cut(k)'
    <3>1. \A k \in 1..(argc + 1) : k \in 1..argc \/ k = argc + 1
      BY <1>1
    <3>2. QED
      BY <1>9, <2>1, <2>5, <3>1
  <2>7. args'[1] = 0
    <3>1. CASE argc = 0
      BY <1>3, <2>1, <3>1
    <3>2. CASE argc # 0
      <4>1. argc > 0 /\ 1 \in 1..argc
        BY <1>1, <3>2
      <4>2. QED
        BY <2>1, <4>1 DEF Consecutive
    <3>3. QED
      BY <3>1, <3>2
  <2>8. ASSUME NEW k \in 2..(argc + 1)
        PROVE  args'[k] = EndOf(line, args'[k - 1] + 1)
    <3>1. k - 1 \in 1..argc /\ args'[k - 1] = args[k - 1]
      BY <1>1, <2>1
    <3>2. CASE k = argc + 1
      <4>1. argc # 0 /\ k - 1 = argc
        BY <1>1, <3>2
      <4>2. p = EndOf(line, args[k - 1] + 1)
        BY <1>3, <4>1
      <4>3. QED
        BY <1>10, <2>1, <3>1, <3>2, <4>2
    <3>3. CASE k # argc + 1
      <4>1. k \in 2..argc /\ k \in 1..argc
        BY <1>1, <3>3
      <4>2. args[k] = EndOf(line, args[k - 1] + 1)
        BY <4>1 DEF Consecutive
      <4>3. QED
        BY <1>10, <2>1, <3>1, <4>1, <4>2
    <3>4. QED
      BY <3>2, <3>3
  <2>9. argc + 1 <= ARGS
    BY <1>1, <1>12, ShellAssumption
  <2>10. Consecutive'
    <3>1. argc' = argc + 1
      BY <2>1
    <3>2. QED
      BY <2>6, <2>7, <2>8, <2>9, <3>1 DEF Consecutive
  <2>11. cmd_buf'[Len(line)] = NUL
    <3>1. CASE Len(line) = x
      BY <2>2, <3>1
    <3>2. CASE Len(line) # x
      <4>1. Len(line) \in Addr
        BY <1>1, BufType DEF Addr
      <4>2. QED
        BY <1>3, <2>3, <3>2, <4>1
    <3>3. QED
      BY <3>1, <3>2
  <2>12. argc' > 0 /\ EndOf(line, args'[argc'] + 1) = e
    BY <1>1, <1>10, <2>1 DEF s, e
  <2>13. CASE e = Len(line) + 1 /\ next_token' = NULL
    BY <2>10, <2>11, <2>12, <2>13 DEF AtRest
  <2>14. CASE e \in s..Len(line) /\ next_token' = e /\ e + 1 \in Starts
    <3>1. e \in 0..Len(line) /\ e # NULL
      BY <1>5, <2>14, NullIsNone
    <3>2. ASSUME NEW a \in e..(Len(line) - 1)
          PROVE  cmd_buf'[a] = line[a + 1]
      <4>1. a \in p..(Len(line) - 1) /\ a # x /\ a \in Addr
        BY <1>1, <1>2, <1>5, <1>7, <2>14, BufType DEF Addr
      <4>2. QED
        BY <1>3, <2>3, <4>1
    <3>3. ASSUME NEW k \in 1..(argc + 1)
          PROVE  EndOf(line, args'[k] + 1) <= e
      <4>1. CASE k = argc + 1
        BY <1>10, <2>1, <3>1, <4>1 DEF s, e
      <4>2. CASE k # argc + 1
        <5>1. k \in 1..argc
          BY <1>1, <4>2
        <5>2. EndOf(line, args[k] + 1) <= p /\ args'[k] = args[k] /\ Cut(k)
          BY <1>3, <2>1, <5>1 DEF Consecutive
        <5> DEFINE q == args[k] + 1
        <5>3. q \in 1..(Len(line) + 1)
          <6>1. args[k] \in Addr /\ q \in Fields
            BY <1>1, <5>1, <5>2 DEF Cut
          <6>2. QED
            BY <1>1, <6>1, BufType DEF Addr, Fields
        <5> HIDE DEF q
        <5>4. EndOf(line, q) \in q..(Len(line) + 1)
          BY <1>1, <5>3, EndsStops
        <5>5. EndOf(line, q) <= e
          BY <1>1, <1>2, <1>7, <3>1, <5>2, <5>3, <5>4 DEF q
        <5>6. QED
          BY <1>10, <5>2, <5>5 DEF q
      <4>3. QED
        BY <4>1, <4>2
    <3>4. argc' = argc + 1 /\ argc' # 0
      BY <1>1, <2>1
    <3>5. QED
      BY <1>10, <2>10, <2>11, <2>12, <2>14, <3>1, <3>2, <3>3, <3>4 DEF AtRest
  <2>15. QED
    BY <1>4, <2>10, <2>13, <2>14
<1>13. QED
  BY <1>11, <1>12

LEMMA TokenizeKeeps ==
  ASSUME ShellType, TokenInv, tokenize
  PROVE  TokenInv'
<1> DEFINE r == strtok(cmd_buf, next_token, {" "}, BUF)
           more == r.token # NULL /\ Len(args) < ARGS
<1>1. /\ pc = "strtok" /\ cmd_buf' = r.mem /\ next_token' = r.next
      /\ args' = IF more THEN Append(args, r.token) ELSE args
      /\ pc' = IF more THEN "strtok" ELSE "run"
      /\ stray' = (stray \/ r.stray) /\ line' = line
  BY DEF tokenize
<1>2. Full' = Full /\ Fields' = Fields
  BY <1>1, LineFixed
<1>3. CASE Full
  BY <1>1, <1>2, <1>3 DEF TokenInv, CutInv, RunInv, StrayInv, StraysExplained
<1>4. CASE ~ Full
  <2>1. Consecutive /\ AtRest /\ ~ stray
    BY <1>1, <1>4 DEF TokenInv, CutInv, StrayInv
  <2>2. /\ r.stray = FALSE
        /\ \/ r.token = NULL /\ r.mem = cmd_buf /\ Covered
           \/ NextIsField(r)
    BY <1>1, <1>4, <2>1, StrtokCut
  <2> HIDE DEF r
  <2>3. StrayInv'
    BY <1>1, <2>1, <2>2 DEF StrayInv, StraysExplained
  <2>4. CASE r.token = NULL /\ r.mem = cmd_buf /\ Covered
    <3>1. pc' = "run" /\ args' = args /\ cmd_buf' = cmd_buf
      BY <1>1, <2>4
    <3>2. Consecutive' /\ Covered'
      <4>1. argc' = argc
        BY <3>1 DEF argc
      <4>2. \A k \in 1..argc : Cut(k)'
        BY <1>1, <1>2, <2>1, <3>1 DEF Consecutive, Cut
      <4>3. Consecutive'
        BY <1>1, <2>1, <3>1, <4>1, <4>2 DEF Consecutive
      <4>4. Covered'
        BY <1>2, <2>4, <3>1, <4>1 DEF Covered
      <4>5. QED
        BY <4>3, <4>4
    <3>3. QED
      BY <2>3, <3>1, <3>2 DEF TokenInv, CutInv, RunInv
  <2>5. CASE NextIsField(r)
    <3>1. /\ args' = args => Consecutive'
          /\ args' = Append(args, r.token) /\ argc < ARGS => Consecutive' /\ AtRest'
      BY <1>1, <1>4, <2>1, <2>5, NextTokenKeeps
    <3>2. r.token # NULL
      <4>1. r.token \in Nat
        BY <2>5 DEF NextIsField
      <4>2. QED
        BY <4>1, NullIsNone
    <3>3. CASE argc < ARGS
      <4>1. args' = Append(args, r.token) /\ pc' = "strtok"
        BY <1>1, <3>2, <3>3 DEF argc
      <4>2. QED
        BY <2>3, <3>1, <3>3, <4>1 DEF TokenInv, CutInv, RunInv
    <3>4. CASE ~ (argc < ARGS)
      <4>1. args' = args /\ pc' = "run"
        BY <1>1, <3>4 DEF argc
      <4>2. argc' = ARGS
        <5>1. argc <= ARGS /\ argc \in Nat /\ argc' = argc
          BY <2>1, <4>1 DEF Consecutive, ShellType, argc
        <5>2. QED
          BY <3>4, <5>1, ShellAssumption
      <4>3. QED
        BY <2>3, <3>1, <4>1, <4>2 DEF TokenInv, CutInv, RunInv
    <3>5. QED
      BY <3>3, <3>4
  <2>6. QED
    BY <2>2, <2>4, <2>5
<1>5. QED
  BY <1>3, <1>4

(* A line is read: it ends in the buffer, or fills it. *)
LEMMA GetlineKeeps ==
  ASSUME ShellType, TokenInv, getlinek
  PROVE  ShellType' /\ TokenInv'
<1> DEFINE S == {input[k] : k \in 1..Len(input)} \ {"\n"}
           e == Skip(input, 1, S)
           len == IF e < BUF THEN e - 1 ELSE BUF - 1
<1>1. /\ pc = "getline" /\ input # <<>>
      /\ cmd_buf' = [a \in 0..(BUF - 1) |->
                       IF a < len THEN input[a + 1]
                       ELSE IF a = len /\ e < BUF THEN NUL ELSE cmd_buf[a]]
      /\ input' = SubSeq(input, IF e < BUF THEN e + 1 ELSE BUF, Len(input))
      /\ line' = SubSeq(input, 1, len)
      /\ next_token' = 0 /\ pc' = "strtok" /\ args' = args /\ stray' = stray
  BY DEF getlinek
<1>2. /\ input \in Seq(Char) /\ input \in Seq(Byte) /\ Len(input) \in Nat
      /\ cmd_buf \in [Addr -> Byte] /\ args \in Seq(Addr)
      /\ BUF \in Nat /\ BUF > 1
  BY <1>1, BufType DEF ShellType, Byte
<1> HIDE DEF S
<1>3. e \in 1..(Len(input) + 1)
  <2>1. 1 \in 1..(Len(input) + 1)
    BY <1>2
  <2>2. QED
    BY <1>2, <2>1, SkipStops
<1> HIDE DEF e
<1>4. /\ len \in 0..Len(input) /\ len \in Addr
      /\ e < BUF <=> len < BUF - 1
  BY <1>2, <1>3 DEF Addr
<1> HIDE DEF len
<1>5. line' \in Seq(Char) /\ Len(line') = len /\ \A k \in 1..len : line'[k] = input[k]
  <2>1. SubSeq(input, 1, len) = [k \in 1..len |-> input[k]]
    BY <1>2, <1>4
  <2>2. \A k \in 1..len : input[k] \in Char
    BY <1>2, <1>4
  <2>3. QED
    BY <1>1, <1>4, <2>1, <2>2
<1>6. input' \in Seq(Char)
  <2> DEFINE from == IF e < BUF THEN e + 1 ELSE BUF
  <2>1. from \in Nat \ {0} /\ from >= 1
    BY <1>2, <1>3
  <2>2. input' = SubSeq(input, from, Len(input))
    BY <1>1
  <2> HIDE DEF from
  <2>3. SubSeq(input, from, Len(input)) \in Seq(Char)
    BY <1>2, <2>1
  <2>4. QED
    BY <2>2, <2>3
<1>7. cmd_buf' \in [Addr -> Byte]
  <2>1. ASSUME NEW a \in 0..(BUF - 1)
        PROVE  (IF a < len THEN input[a + 1]
                ELSE IF a = len /\ e < BUF THEN NUL ELSE cmd_buf[a]) \in Byte
    <3>1. a < len => a + 1 \in 1..Len(input)
      BY <1>2, <1>4
    <3>2. NUL \in Byte /\ cmd_buf[a] \in Byte
      BY <1>2 DEF Byte, Addr
    <3>3. QED
      BY <1>2, <3>1, <3>2
  <2>2. QED
    BY <1>1, <2>1 DEF Addr
<1>8. ShellType'
  <2>1. len < BUF
    BY <1>2, <1>4 DEF Addr
  <2>2. 0 \in 0..BUF
    BY <1>2
  <2>3. QED
    BY <1>1, <1>2, <1>5, <1>6, <1>7, <2>1, <2>2 DEF ShellType
<1>9. ~ stray /\ stray' = FALSE
  BY <1>1 DEF TokenInv, StrayInv
<1>10. StrayInv'
  BY <1>9 DEF StrayInv, StraysExplained
<1>11. ASSUME ~ Full'
       PROVE  Consecutive' /\ AtRest'
  <2>1. e < BUF /\ len < BUF - 1
    BY <1>2, <1>4, <1>5, <1>11 DEF Full, Addr
  <2>2. cmd_buf'[len] = NUL
    BY <1>1, <1>4, <2>1 DEF Addr
  <2>3. argc' = 0
    BY <1>1 DEF ShellType, argc
  <2>4. ASSUME NEW a \in 0..(len - 1)
        PROVE  cmd_buf'[a] = line'[a + 1]
    <3>1. a \in 0..(BUF - 1) /\ a < len /\ a + 1 \in 1..len
      BY <1>2, <1>4 DEF Addr
    <3>2. QED
      BY <1>1, <1>5, <3>1
  <2>5. Consecutive'
    BY <2>3, ShellAssumption DEF Consecutive
  <2>6. 0 # NULL /\ 0 + 1 \in Starts' /\ 0 \in 0..len
    BY <1>4, NullIsNone DEF Starts
  <2>7. AtRest'
    <3>1. next_token' = 0 /\ Len(line') = len /\ ~ (argc' > 0)
      BY <1>1, <1>5, <2>3
    <3>2. \A k \in 1..argc' : FALSE
      BY <2>3
    <3>3. next_token' + 1 \in Starts' /\ next_token' # NULL /\ next_token' \in 0..Len(line')
      BY <2>6, <3>1
    <3>4. \A a \in next_token'..(Len(line') - 1) : cmd_buf'[a] = line'[a + 1]
      BY <2>4, <3>1
    <3>5. cmd_buf'[Len(line')] = NUL
      BY <2>2, <3>1
    <3>6. next_token' = IF argc' = 0 THEN 0 ELSE EndOf(line', args'[argc'] + 1)
      BY <2>3, <3>1
    <3>7. QED
      BY <3>2, <3>3, <3>4, <3>5, <3>6 DEF AtRest
  <2>8. QED
    BY <2>5, <2>7
<1>12. QED
  BY <1>1, <1>8, <1>10, <1>11 DEF TokenInv, CutInv, RunInv

-----------------------------------------------------------------------------
(* The commands.  A word is a string, a number a long. *)
LEMMA WordType ==
  ASSUME ShellType, pc # "off", NEW k \in 1..argc
  PROVE  Word(k) \in Seq(Byte)
<1>1. args[k] \in Addr /\ cmd_buf \in [Addr -> Byte] /\ BUF \in Nat /\ BUF > 1
  BY BufType DEF ShellType, argc
<1> DEFINE p == args[k]
           e == Scan(cmd_buf, p, {NUL}, BUF)
<1>2. p \in 0..BUF
  BY <1>1 DEF Addr
<1> HIDE DEF p
<1>3. e \in p..BUF
  BY <1>1, <1>2, ScanStops
<1>4. Word(k) = [j \in 1..(e - p) |-> cmd_buf[p + j - 1]]
  BY DEF Word, StringAt, strlen, p
<1> HIDE DEF e
<1>5. e - p \in Nat
  BY <1>2, <1>3
<1>6. \A j \in 1..(e - p) : cmd_buf[p + j - 1] \in Byte
  <2>1. \A j \in 1..(e - p) : p + j - 1 \in Addr
    BY <1>1, <1>2, <1>3 DEF Addr
  <2>2. QED
    BY <1>1, <2>1
<1>7. QED
  BY <1>4, <1>5, <1>6

LEMMA ToLongRange ==
  ASSUME NEW x \in Int
  PROVE  ToLong(x) \in Int /\ ToLong(x) < WORD
<1>1. x % WORD \in 0..(WORD - 1) /\ WORD \in Nat
  BY CStringAssumption
<1> DEFINE low == x % WORD
<1>2. ToLong(x) = IF 2 * low >= WORD THEN low - WORD ELSE low
  BY DEF ToLong
<1> HIDE DEF low
<1>3. low \in 0..(WORD - 1)
  BY <1>1 DEF low
<1>4. QED
  BY <1>1, <1>2, <1>3

LEMMA ValueRange ==
  ASSUME NEW s \in Seq(Byte), NEW a \in 1..(Len(s) + 1), NEW base \in 1..36
  PROVE  ValueFrom(s, a, base) \in Int /\ ValueFrom(s, a, base) < WORD
<1> DEFINE v == ValueAt(s, a, base)
           last == DigitsEnd(s, a, base)
<1>1. /\ ValueFrom(s, a, base) = v[last] /\ v[a - 1] = 0
      /\ \A j \in a..last : v[j] = ToLong(v[j - 1] * base + DigitValue(s[j]))
      /\ \A j \in (a - 1)..last : v[j] \in Int
  BY ValueUnfold
<1>2. last \in (a - 1)..Len(s) /\ \A j \in a..last : s[j] \in Digits(base)
  <2>1. /\ Skip(s, a, Digits(base)) \in a..(Len(s) + 1)
        /\ \A k \in a..(Skip(s, a, Digits(base)) - 1) : s[k] \in Digits(base)
    BY SkipStops
  <2>2. QED
    BY <2>1 DEF DigitsEnd
<1> HIDE DEF v, last
<1>3. CASE last = a - 1
  BY <1>1, <1>3, CStringAssumption
<1>4. CASE last # a - 1
  <2>1. last \in a..last /\ last - 1 \in (a - 1)..last
    BY <1>2, <1>4
  <2>2. v[last - 1] \in Int /\ DigitValue(s[last]) \in Int
    BY <1>1, <1>2, <2>1, DigitValueType
  <2>3. v[last - 1] * base + DigitValue(s[last]) \in Int
    BY <2>2
  <2>4. QED
    BY <1>1, <2>1, <2>3, ToLongRange
<1>5. QED
  BY <1>3, <1>4

LEMMA StrtolType ==
  ASSUME NEW s \in Seq(Byte), NEW base \in {0, 10}
  PROVE  strtol(s, base) \in Int /\ strtol(s, base) < WORD
<1> DEFINE a == Skip(s, 1, Space)
           b == IF At(s, a, {"-", "+"}) THEN a + 1 ELSE a
           hex == At(s, b, {"0"}) /\ At(s, b + 1, {"x", "X"})
           actual == IF base # 0 THEN base
                     ELSE IF hex THEN 16 ELSE IF At(s, b, {"0"}) THEN 8 ELSE 10
           c0 == IF hex /\ base \in {0, 16} THEN b + 2
                 ELSE IF base = 0 /\ At(s, b, {"0"}) THEN b + 1 ELSE b
           value == ValueFrom(s, c0, actual)
<1>0. strtol(s, base) = IF At(s, a, {"-"}) THEN ToLong(-value) ELSE value
  BY DEF strtol
<1>1. a \in 1..(Len(s) + 1)
  <2>1. 1 \in 1..(Len(s) + 1)
    OBVIOUS
  <2>2. QED
    BY <2>1, SkipStops
<1> HIDE DEF a
<1>2. b \in 1..(Len(s) + 1)
  BY <1>1 DEF At
<1> HIDE DEF b
<1>3. c0 \in 1..(Len(s) + 1)
  BY <1>2 DEF At
<1>4. actual \in 1..36
  OBVIOUS
<1> HIDE DEF c0, actual
<1>5. value \in Int /\ value < WORD
  BY <1>3, <1>4, ValueRange
<1> HIDE DEF value
<1>6. -value \in Int
  BY <1>5
<1>7. QED
  BY <1>0, <1>5, <1>6, ToLongRange

LEMMA UnsignedType ==
  ASSUME NEW x \in Int
  PROVE  Unsigned(x) \in 0..(WORD - 1)
BY CStringAssumption DEF Unsigned

LEMMA SmallUnsigned ==
  ASSUME NEW x \in 0..(WORD - 1)
  PROVE  Unsigned(x) = x
BY CStringAssumption DEF Unsigned

-----------------------------------------------------------------------------
(* mdmp.  The addresses of count bytes from offset begin of base on. *)
Span(base, begin, count) == [k \in 1..count |-> Unsigned(base + begin + k - 1)]

(* What the iteration that begins at offset o shows. *)
RowOf(base, o, to) ==
  CHOOSE f : f = [j \in 0..ROW |->
                    IF j = 0 THEN <<>>
                    ELSE IF Unsigned(o + j - 1) < to
                    THEN Append(f[j - 1], Unsigned(base + o + j - 1))
                    ELSE f[j - 1]]

AtMost(a, b) == IF a <= b THEN a ELSE b

LEMMA SpanType ==
  ASSUME NEW base \in Int, NEW o \in Nat, NEW n1 \in Nat
  PROVE  Span(base, o, n1) \in Seq(Int) /\ Len(Span(base, o, n1)) = n1
<1>1. \A k \in 1..n1 : Unsigned(base + o + k - 1) \in Int
  BY CStringAssumption DEF Unsigned
<1>2. Span(base, o, n1) \in [1..n1 -> Int]
  BY <1>1 DEF Span
<1> DEFINE f == Span(base, o, n1)
<1>3. f = [k \in 1..n1 |-> f[k]]
  BY DEF Span
<1> HIDE DEF f
<1>4. f \in Seq(Int) /\ Len(f) = n1
  BY <1>2, <1>3 DEF f
<1>5. QED
  BY <1>4 DEF f

LEMMA SpanAppend ==
  ASSUME NEW base \in Int, NEW o \in Nat, NEW n1 \in Nat
  PROVE  Append(Span(base, o, n1), Unsigned(base + o + (n1 + 1) - 1)) = Span(base, o, n1 + 1)
<1> DEFINE x == Unsigned(base + o + (n1 + 1) - 1)
           s == Span(base, o, n1)
           t == Span(base, o, n1 + 1)
<1>1. x \in Int
  BY CStringAssumption DEF Unsigned
<1>2. s \in Seq(Int) /\ Len(s) = n1
  BY SpanType
<1>3. t = [k \in 1..(n1 + 1) |-> Unsigned(base + o + k - 1)]
  BY DEF Span
<1>4. \A k \in 1..n1 : s[k] = Unsigned(base + o + k - 1)
  BY DEF Span
<1> HIDE DEF s, t
<1>5. t[n1 + 1] = x /\ \A k \in 1..n1 : t[k] = s[k]
  BY <1>3, <1>4
<1> HIDE DEF x
<1>6. Append(s, x) \in Seq(Int) /\ Len(Append(s, x)) = n1 + 1
      /\ Append(s, x)[n1 + 1] = x /\ \A k \in 1..n1 : Append(s, x)[k] = s[k]
  BY <1>1, <1>2, AppendProperties
<1>7. \A k \in 1..(n1 + 1) : k = n1 + 1 \/ k \in 1..n1
  OBVIOUS
<1>10. t \in Seq(Int) /\ Len(t) = n1 + 1
  BY SpanType DEF t
<1>8. Append(s, x) = t
  BY <1>5, <1>6, <1>7, <1>10, SeqEqual
<1>9. QED
  BY <1>8 DEF s, t, x

LEMMA SpanConcat ==
  ASSUME NEW base \in Int, NEW o \in Nat, NEW m \in Nat
  PROVE  Span(base, 0, o) \o Span(base, o, m) = Span(base, 0, o + m)
<1> DEFINE s == Span(base, 0, o)
           t == Span(base, o, m)
           u == Span(base, 0, o + m)
<1>1. /\ s \in Seq(Int) /\ Len(s) = o /\ t \in Seq(Int) /\ Len(t) = m
      /\ u \in Seq(Int) /\ Len(u) = o + m
  <2>1. 0 \in Nat /\ o + m \in Nat
    OBVIOUS
  <2>2. QED
    BY <2>1, SpanType
<1>2. \A k \in 1..o : s[k] = Unsigned(base + 0 + k - 1)
  BY DEF Span
<1>3. \A k \in 1..m : t[k] = Unsigned(base + o + k - 1)
  BY DEF Span
<1>4. \A k \in 1..(o + m) : u[k] = Unsigned(base + 0 + k - 1)
  BY DEF Span
<1> HIDE DEF s, t, u
<1>5. s \o t \in Seq(Int) /\ Len(s \o t) = o + m
  BY <1>1, ConcatProperties
<1>6. ASSUME NEW k \in 1..(o + m)
      PROVE  (s \o t)[k] = u[k]
  <2>1. CASE k <= o
    <3>1. k \in 1..o
      BY <2>1
    <3>2. (s \o t)[k] = s[k]
      BY <1>1, <3>1
    <3>3. QED
      BY <1>2, <1>4, <3>1, <3>2
  <2>2. CASE ~ (k <= o)
    <3>1. k - o \in 1..m /\ base + o + (k - o) - 1 = base + 0 + k - 1
      BY <2>2
    <3>2. (s \o t)[k] = t[k - o]
      BY <1>1, <2>2, ConcatProperties
    <3>3. QED
      BY <1>3, <1>4, <3>1, <3>2
  <2>3. QED
    BY <2>1, <2>2
<1>7. s \o t = u
  BY <1>1, <1>5, <1>6, SeqEqual
<1>8. QED
  BY <1>7 DEF s, t, u

(* The bytes of a row, up to the last one asked for. *)
LEMMA RowIs ==
  ASSUME NEW base \in Int, NEW o \in Nat, NEW to \in Nat, o < to, to <= WORD - ROW
  PROVE  RowOf(base, o, to)[ROW] = Span(base, o, AtMost(ROW, to - o))
<1> DEFINE body(f, j) == IF j = 0 THEN <<>>
                         ELSE IF Unsigned(o + j - 1) < to
                         THEN Append(f[j - 1], Unsigned(base + o + j - 1))
                         ELSE f[j - 1]
           G == [j \in 0..ROW |-> Span(base, o, AtMost(j, to - o))]
<1>1. ROW \in Nat \ {0} /\ WORD \in Nat
  BY ShellAssumption, CStringAssumption
<1>2. ASSUME NEW j \in 0..ROW, NEW f, j # 0 => f[j - 1] = G[j - 1]
      PROVE  body(f, j) = G[j]
  <2>1. CASE j = 0
    <3>1. AtMost(j, to - o) = 0
      BY <2>1 DEF AtMost
    <3>2. Span(base, o, 0) = <<>>
      <4>1. Span(base, o, 0) \in Seq(Int) /\ Len(Span(base, o, 0)) = 0
        BY SpanType
      <4>2. QED
        BY <4>1
    <3>3. QED
      BY <2>1, <3>1, <3>2
  <2>2. CASE j # 0
    <3>1. /\ j - 1 \in 0..ROW /\ j - 1 \in Nat /\ (j - 1) + 1 = j /\ o + j - 1 \in 0..(WORD - 1)
          /\ base + o + ((j - 1) + 1) - 1 = base + o + j - 1
      BY <1>1, <2>2
    <3>2. Unsigned(o + j - 1) = o + j - 1
      BY <3>1, SmallUnsigned
    <3>3. f[j - 1] = Span(base, o, AtMost(j - 1, to - o))
      BY <1>2, <2>2, <3>1
    <3>4. CASE o + j - 1 < to
      <4>1. AtMost(j - 1, to - o) = j - 1 /\ AtMost(j, to - o) = j
        BY <3>1, <3>4 DEF AtMost
      <4>2. body(f, j) = Append(f[j - 1], Unsigned(base + o + j - 1))
        BY <2>2, <3>2, <3>4
      <4> HIDE DEF body
      <4>3. Append(Span(base, o, j - 1), Unsigned(base + o + ((j - 1) + 1) - 1))
            = Span(base, o, (j - 1) + 1)
        BY <3>1, SpanAppend
      <4>4. QED
        BY <3>1, <3>3, <4>1, <4>2, <4>3
    <3>5. CASE ~ (o + j - 1 < to)
      <4>1. AtMost(j - 1, to - o) = to - o /\ AtMost(j, to - o) = to - o
        BY <3>1, <3>5 DEF AtMost
      <4>2. body(f, j) = f[j - 1]
        BY <2>2, <3>2, <3>5
      <4> HIDE DEF body
      <4>3. QED
        BY <3>3, <4>1, <4>2
    <3>6. QED
      BY <3>4, <3>5
  <2>3. QED
    BY <2>1, <2>2
<1>3. G = [j \in 0..ROW |-> body(G, j)]
  <2>1. \A j \in 0..ROW : body(G, j) = G[j]
    BY <1>2
  <2> HIDE DEF body
  <2>2. QED
    BY <2>1
<1> DEFINE R == RowOf(base, o, to)
<1>4. R = CHOOSE f : f = [j \in 0..ROW |-> body(f, j)]
  BY DEF RowOf
<1>5. R = [j \in 0..ROW |-> body(R, j)]
  <2> HIDE DEF R, body, G
  <2> QED
    BY <1>3, <1>4
<1> DEFINE S == {k \in Nat : k <= ROW => R[k] = G[k]}
<1> HIDE DEF R, body, G
<1>6. 0 \in S
  BY <1>1, <1>2, <1>5
<1>7. ASSUME NEW k \in Nat, k \in S
      PROVE  k + 1 \in S
  <2>1. SUFFICES ASSUME k + 1 <= ROW
                 PROVE  R[k + 1] = G[k + 1]
    OBVIOUS
  <2> DEFINE j == k + 1
  <2>2. j \in 0..ROW /\ j # 0 /\ R[j - 1] = G[j - 1]
    BY <1>1, <1>7, <2>1
  <2> HIDE DEF j
  <2>3. R[j] = G[j]
    BY <1>2, <1>5, <2>2
  <2>4. QED
    BY <2>3 DEF j
<1> HIDE DEF S
<1>8. ROW \in S
  BY <1>1, <1>6, <1>7, NaturalInduction
<1>9. R[ROW] = G[ROW]
  BY <1>1, <1>8 DEF S
<1>10. QED
  BY <1>1, <1>9 DEF R, G

-----------------------------------------------------------------------------
(* The loops of the commands, before each iteration. *)
DumpInv ==
  /\ argc >= 3 /\ end \in 0..(WORD - 1) /\ i \in Nat
  /\ end <= WORD - ROW => said = Span(dump_address, 0, AtMost(i, end))

WalkInv ==
  /\ i \in 0..(WORD - 1) /\ end \in 0..(WORD - 1) /\ said \in Seq(Nat)
  /\ end < WORD - PAGE =>
       /\ Len(said) <= i
       /\ \A k \in 1..Len(said) : said[k] <= end
       /\ \A k \in 2..Len(said) : said[k] = said[k - 1] + PAGE
       /\ said # <<>> => said[Len(said)] + PAGE = i

RepeatInv ==
  /\ i \in Nat /\ end \in Int /\ end < WORD
  /\ \E T : said \in Seq(T)
  /\ Len(said) = i /\ (i = 0 \/ i <= end)

LoopInv ==
  /\ pc = "mdmp" => DumpInv
  /\ pc = "ptwalk" => WalkInv
  /\ pc = "repeat" => RepeatInv

ShellInv == ShellType /\ TokenInv /\ LoopInv

(* A command leaves the line, its tokens and its words alone. *)
LEMMA StayKeeps ==
  ASSUME Stay
  PROVE  /\ argc' = argc /\ Full' = Full /\ dump_address' = dump_address
         /\ \A name : Named(name)' <=> Named(name)
         /\ (/\ ShellType /\ pc # "off"
             /\ pc' \in {"prompt", "mdmp", "ptwalk", "repeat", "done", "fault"}) => ShellType'
<1>1. /\ shellOf' = shellOf /\ input' = input /\ cmd_buf' = cmd_buf
      /\ next_token' = next_token /\ args' = args /\ line' = line
  BY DEF Stay
<1>2. argc' = argc /\ Full' = Full /\ dump_address' = dump_address
  BY <1>1 DEF argc, Full, dump_address, Word
<1>3. \A name : Named(name)' <=> Named(name)
  BY <1>1, <1>2 DEF Named, Known, Word
<1>4. ASSUME ShellType, pc # "off", pc' \in {"prompt", "mdmp", "ptwalk", "repeat", "done", "fault"}
      PROVE  ShellType'
  BY <1>1, <1>4 DEF ShellType
<1>5. QED
  BY <1>2, <1>3, <1>4

(* What explains a stray access. *)
Excused == \/ Full
           \/ line = <<>>
           \/ Named("echo") /\ argc = 1
           \/ Named("repeat") /\ argc = 2

LEMMA StrayKeeps ==
  ASSUME ShellType, TokenInv, Stay, pc # "off",
         pc' \in {"prompt", "mdmp", "ptwalk", "repeat", "done", "fault"},
         stray' \in BOOLEAN, stray' => stray \/ Excused
  PROVE  ShellType' /\ TokenInv'
<1>1. ShellType'
  BY StayKeeps
<1>2. Excused' <=> Excused
  BY StayKeeps DEF Excused, Stay
<1>3. stray => Excused
  BY DEF TokenInv, StrayInv, StraysExplained, Excused
<1>4. StraysExplained'
  BY <1>2, <1>3 DEF StraysExplained, Excused
<1>5. QED
  BY <1>1, <1>4 DEF TokenInv, CutInv, RunInv, StrayInv

LEMMA NumberArg ==
  ASSUME ShellType, pc # "off", NEW k \in 1..argc, NEW base \in {0, 10}
  PROVE  /\ strtol(Word(k), base) \in Int /\ strtol(Word(k), base) < WORD
         /\ Unsigned(strtol(Word(k), base)) \in 0..(WORD - 1)
<1> DEFINE w == Word(k)
<1>1. w \in Seq(Byte)
  BY WordType
<1> HIDE DEF w
<1>2. strtol(w, base) \in Int /\ strtol(w, base) < WORD
  BY <1>1, StrtolType
<1>3. QED
  BY <1>2, UnsignedType DEF w

LEMMA DumpAddressType ==
  ASSUME ShellType, pc # "off", argc >= 3
  PROVE  dump_address \in Int
<1>1. 3 \in 1..argc /\ WORD \in Nat
  BY CStringAssumption DEF ShellType, argc
<1>2. Unsigned(strtol(Word(3), 0)) \in 0..(WORD - 1)
  BY <1>1, NumberArg
<1>3. QED
  BY <1>1, <1>2 DEF dump_address

(* A line of any character has a token. *)
LEMMA NoTokenNoLine ==
  ASSUME ShellType, TokenInv, pc = "run", argc = 0
  PROVE  Full \/ line = <<>>
<1>1. SUFFICES ASSUME ~ Full, line # <<>>
               PROVE  FALSE
  OBVIOUS
<1>2. Covered
  BY <1>1, ShellAssumption DEF TokenInv, RunInv
<1>3. line \in Seq(Char) /\ Len(line) \in Nat
  BY DEF ShellType
<1>4. Len(line) >= 1
  BY <1>1, <1>3, EmptySeq
<1>5. 1 \in Fields
  BY <1>4 DEF Fields, Starts
<1>6. QED
  BY <1>2, <1>5 DEF Covered

LEMMA CommandKeeps == ShellInv /\ run_cmd => ShellInv'
<1>1. SUFFICES ASSUME ShellType, TokenInv, LoopInv, run_cmd
               PROVE  ShellInv'
  BY DEF ShellInv
<1>2. /\ pc = "run" /\ Stay /\ argc \in Nat /\ WORD \in Nat /\ WORD > 1 /\ stray \in BOOLEAN
  BY <1>1, CStringAssumption
     DEF run_cmd, no_token, exit, other_cmd, mdmp, ptwalk, echo, repeat, Loop, ShellType, argc,
         TokenInv, StrayInv
<1>3. CASE exit \/ other_cmd
  <2>1. pc' \in {"done", "prompt"} /\ stray' = stray
    BY <1>3 DEF exit, other_cmd, Prompt
  <2>2. ShellType' /\ TokenInv'
    BY <1>1, <1>2, <2>1, StrayKeeps
  <2>3. QED
    BY <2>1, <2>2 DEF ShellInv, LoopInv
<1>8. CASE no_token
  <2>1. pc' \in {"prompt", "fault"} /\ stray' = TRUE /\ argc = 0
    BY <1>8 DEF no_token
  <2>2. Excused
    BY <1>1, <1>2, <2>1, NoTokenNoLine DEF Excused
  <2>3. ShellType' /\ TokenInv'
    BY <1>1, <1>2, <2>1, <2>2, StrayKeeps
  <2>4. QED
    BY <2>1, <2>3 DEF ShellInv, LoopInv
<1>4. CASE mdmp
  <2>1. /\ pc' = "mdmp" /\ stray' = stray /\ i' = 0 /\ said' = <<>> /\ argc >= 3
        /\ end' = Unsigned(strtol(Word(2), 0))
    BY <1>4 DEF mdmp, Loop
  <2>2. ShellType' /\ TokenInv'
    BY <1>1, <1>2, <2>1, StrayKeeps
  <2>3. 2 \in 1..argc
    BY <1>2, <2>1
  <2>4. end' \in 0..(WORD - 1)
    BY <1>1, <1>2, <2>1, <2>3, NumberArg
  <2>5. dump_address' = dump_address /\ dump_address \in Int /\ argc' = argc
    BY <1>1, <1>2, <2>1, StayKeeps, DumpAddressType
  <2>6. said' = Span(dump_address, 0, AtMost(0, end'))
    <3>1. AtMost(0, end') = 0
      BY <1>2, <2>4 DEF AtMost
    <3>2. Span(dump_address, 0, 0) \in Seq(Int) /\ Len(Span(dump_address, 0, 0)) = 0
      BY <2>5, SpanType
    <3>3. QED
      BY <2>1, <3>1, <3>2
  <2>7. DumpInv'
    BY <2>1, <2>4, <2>5, <2>6 DEF DumpInv
  <2>8. QED
    BY <2>1, <2>2, <2>7 DEF ShellInv, LoopInv
<1>5. CASE ptwalk
  <2>1. /\ pc' = "ptwalk" /\ stray' = stray /\ said' = <<>>
        /\ i' = IF argc > 1 THEN Unsigned(strtol(Word(2), 0)) ELSE 0
        /\ end' = IF argc > 2 THEN Unsigned(strtol(Word(3), 0)) ELSE DEFAULT_END
    BY <1>5 DEF ptwalk, Loop
  <2>2. ShellType' /\ TokenInv'
    BY <1>1, <1>2, <2>1, StrayKeeps
  <2>3. i' \in 0..(WORD - 1)
    <3>1. argc > 1 => 2 \in 1..argc
      BY <1>2
    <3>2. argc > 1 => Unsigned(strtol(Word(2), 0)) \in 0..(WORD - 1)
      BY <1>1, <1>2, <3>1, NumberArg
    <3>3. 0 \in 0..(WORD - 1)
      BY <1>2
    <3>4. QED
      BY <2>1, <3>2, <3>3
  <2>4. end' \in 0..(WORD - 1)
    <3>1. argc > 2 => 3 \in 1..argc
      BY <1>2
    <3>2. argc > 2 => Unsigned(strtol(Word(3), 0)) \in 0..(WORD - 1)
      BY <1>1, <1>2, <3>1, NumberArg
    <3>3. QED
      BY <2>1, <3>2, ShellAssumption
  <2>5. said' \in Seq(Nat) /\ Len(said') = 0
    BY <2>1
  <2>6. WalkInv'
    BY <2>1, <2>3, <2>4, <2>5 DEF WalkInv
  <2>7. QED
    BY <2>1, <2>2, <2>6 DEF ShellInv, LoopInv
<1>6. CASE echo
  <2>1. /\ pc' = "prompt" /\ stray' = (stray \/ argc < 2) /\ Named("echo")
    BY <1>6 DEF echo, Prompt
  <2>2. argc > 0
    BY <2>1 DEF Named
  <2>3. argc < 2 => Excused
    BY <1>2, <2>1, <2>2 DEF Excused
  <2>4. ShellType' /\ TokenInv'
    BY <1>1, <1>2, <2>1, <2>3, StrayKeeps
  <2>5. QED
    BY <2>1, <2>4 DEF ShellInv, LoopInv
<1>7. CASE repeat
  <2>1. CASE argc > 1
    <3>1. /\ pc' = "repeat" /\ i' = 0 /\ end' = strtol(Word(2), 10) /\ said' = <<>>
          /\ stray' = (stray \/ argc < 3) /\ Named("repeat")
      BY <1>7, <2>1 DEF repeat
    <3>2. argc < 3 => Excused
      BY <1>2, <2>1, <3>1 DEF Excused
    <3>3. ShellType' /\ TokenInv'
      BY <1>1, <1>2, <3>1, <3>2, StrayKeeps
    <3>4. 2 \in 1..argc
      BY <1>2, <2>1
    <3>5. end' \in Int /\ end' < WORD
      BY <1>1, <1>2, <3>1, <3>4, NumberArg
    <3>6. said' \in Seq({}) /\ Len(said') = 0
      BY <3>1
    <3>7. RepeatInv'
      BY <3>1, <3>5, <3>6 DEF RepeatInv
    <3>8. QED
      BY <3>1, <3>3, <3>7 DEF ShellInv, LoopInv
  <2>2. CASE ~ (argc > 1)
    <3>1. pc' = "prompt" /\ stray' = stray
      BY <1>7, <2>2 DEF repeat, Prompt
    <3>2. ShellType' /\ TokenInv'
      BY <1>1, <1>2, <3>1, StrayKeeps
    <3>3. QED
      BY <3>1, <3>2 DEF ShellInv, LoopInv
  <2>3. QED
    BY <2>1, <2>2
<1>9. QED
  BY <1>1, <1>3, <1>4, <1>5, <1>6, <1>7, <1>8 DEF run_cmd

LEMMA RowKeeps ==
  ASSUME ShellType, pc = "mdmp", DumpInv, dump_row
  PROVE  DumpInv'
<1> DEFINE base == dump_address
           row == RowOf(base, i, end)[ROW]
<1>1. /\ Stay /\ end' = end /\ i < end /\ i' = Unsigned(i + ROW)
      /\ said' = IF Len(said) < WORD THEN said \o row ELSE said
  BY DEF dump_row, RowOf, Say
<1>2. /\ argc >= 3 /\ end \in 0..(WORD - 1) /\ i \in Nat /\ end \in Nat
      /\ WORD \in Nat /\ ROW \in Nat
  BY CStringAssumption, ShellAssumption DEF DumpInv
<1>3. base \in Int /\ dump_address' = base /\ argc' = argc
  BY <1>1, <1>2, StayKeeps, DumpAddressType
<1>4. i' \in Nat
  BY <1>1, <1>2, UnsignedType
<1>5. ASSUME end <= WORD - ROW
      PROVE  said' = Span(base, 0, AtMost(i', end))
  <2> HIDE DEF base
  <2>1. AtMost(i, end) = i
    BY <1>1, <1>2 DEF AtMost
  <2>2. said = Span(base, 0, i)
    BY <1>5, <2>1 DEF DumpInv, base
  <2>3. Len(said) = i /\ i < WORD
    <3>1. 0 \in Nat
      OBVIOUS
    <3>2. Len(said) = i
      BY <1>2, <1>3, <2>2, <3>1, SpanType
    <3>3. QED
      BY <1>1, <1>2, <3>2
  <2> DEFINE m == AtMost(ROW, end - i)
  <2>4. m \in Nat
    BY <1>1, <1>2 DEF AtMost
  <2>5. row = Span(base, i, m)
    BY <1>1, <1>2, <1>3, <1>5, RowIs
  <2>6. i' = i + ROW
    <3>1. i + ROW \in 0..(WORD - 1)
      BY <1>1, <1>2, <1>5
    <3>2. QED
      BY <1>1, <3>1, SmallUnsigned
  <2>7. AtMost(i', end) = i + m
    BY <1>1, <1>2, <2>6 DEF AtMost
  <2> HIDE DEF row, m
  <2>8. said' = said \o row
    BY <1>1, <2>3
  <2>9. Span(base, 0, i) \o Span(base, i, m) = Span(base, 0, i + m)
    BY <1>2, <1>3, <2>4, SpanConcat
  <2>10. QED
    BY <2>2, <2>5, <2>7, <2>8, <2>9
<1>6. QED
  BY <1>1, <1>2, <1>3, <1>4, <1>5 DEF DumpInv

LEMMA WalkKeeps ==
  ASSUME ShellType, WalkInv, walk_page
  PROVE  WalkInv'
<1>1. /\ end' = end /\ i <= end /\ i' = Unsigned(i + PAGE)
      /\ said' = IF Len(said) < WORD THEN said \o <<i>> ELSE said
  BY DEF walk_page, Say
<1>2. /\ i \in 0..(WORD - 1) /\ end \in 0..(WORD - 1) /\ said \in Seq(Nat)
      /\ WORD \in Nat /\ PAGE \in Nat \ {0} /\ i \in Nat /\ end \in Nat /\ Len(said) \in Nat
  BY CStringAssumption, ShellAssumption DEF WalkInv
<1>3. i' \in 0..(WORD - 1)
  BY <1>1, <1>2, UnsignedType
<1>4. <<i>> \in Seq(Nat) /\ Len(<<i>>) = 1 /\ <<i>>[1] = i
  BY <1>2
<1> DEFINE s == said \o <<i>>
<1>5. /\ s \in Seq(Nat) /\ Len(s) = Len(said) + 1 /\ s[Len(said) + 1] = i
      /\ \A k \in 1..Len(said) : s[k] = said[k]
  BY <1>2, <1>4, ConcatProperties
<1> HIDE DEF s
<1>6. said' \in Seq(Nat)
  BY <1>1, <1>2, <1>5 DEF s
<1>7. ASSUME end < WORD - PAGE
      PROVE  /\ Len(said') <= i'
             /\ \A k \in 1..Len(said') : said'[k] <= end
             /\ \A k \in 2..Len(said') : said'[k] = said'[k - 1] + PAGE
             /\ said'[Len(said')] + PAGE = i'
  <2>1. /\ Len(said) <= i
        /\ \A k \in 1..Len(said) : said[k] <= end
        /\ \A k \in 2..Len(said) : said[k] = said[k - 1] + PAGE
        /\ said # <<>> => said[Len(said)] + PAGE = i
    BY <1>7 DEF WalkInv
  <2>2. said' = s
    BY <1>1, <1>2, <2>1 DEF s
  <2>3. i' = i + PAGE
    <3>1. i + PAGE \in 0..(WORD - 1)
      BY <1>1, <1>2, <1>7
    <3>2. QED
      BY <1>1, <3>1, SmallUnsigned
  <2>4. Len(s) <= i'
    BY <1>2, <1>5, <2>1, <2>3
  <2>5. ASSUME NEW k \in 1..Len(s)
        PROVE  s[k] <= end
    <3>1. k \in 1..Len(said) \/ k = Len(said) + 1
      BY <1>2, <1>5
    <3>2. QED
      BY <1>1, <1>5, <2>1, <3>1
  <2>6. ASSUME NEW k \in 2..Len(s)
        PROVE  s[k] = s[k - 1] + PAGE
    <3>1. CASE k = Len(said) + 1
      <4>1. k - 1 = Len(said) /\ Len(said) \in 1..Len(said) /\ said # <<>>
        BY <1>2, <3>1
      <4>2. QED
        BY <1>5, <2>1, <3>1, <4>1
    <3>2. CASE k # Len(said) + 1
      <4>1. k \in 2..Len(said) /\ k \in 1..Len(said) /\ k - 1 \in 1..Len(said)
        BY <1>2, <1>5, <3>2
      <4>2. QED
        BY <1>5, <2>1, <4>1
    <3>3. QED
      BY <3>1, <3>2
  <2>7. s[Len(s)] + PAGE = i'
    BY <1>5, <2>3
  <2>8. QED
    BY <2>2, <2>4, <2>5, <2>6, <2>7
<1>8. QED
  BY <1>1, <1>2, <1>3, <1>6, <1>7 DEF WalkInv

LEMMA RepeatKeeps ==
  ASSUME RepeatInv, repeat_print
  PROVE  RepeatInv'
<1> DEFINE x == Joined(3)
<1>1. /\ end' = end /\ i < end /\ i' = i + 1
      /\ said' = IF Len(said) < WORD THEN said \o <<x>> ELSE said
  BY DEF repeat_print, Say
<1> HIDE DEF x
<1>2. i \in Nat /\ end \in Int /\ end < WORD /\ Len(said) = i /\ WORD \in Nat
  BY CStringAssumption DEF RepeatInv
<1>3. PICK T : said \in Seq(T)
  BY DEF RepeatInv
<1> DEFINE U == T \cup {x}
<1>4. said \in Seq(U) /\ <<x>> \in Seq(U) /\ Len(<<x>>) = 1
  BY <1>3
<1> HIDE DEF U
<1>5. said \o <<x>> \in Seq(U) /\ Len(said \o <<x>>) = i + 1
  BY <1>2, <1>4, ConcatProperties
<1>6. said' = said \o <<x>>
  BY <1>1, <1>2
<1>7. (\E V : said' \in Seq(V)) /\ Len(said') = i'
  BY <1>1, <1>5, <1>6
<1>8. i' \in Nat /\ i' <= end
  BY <1>1, <1>2
<1>9. QED
  BY <1>1, <1>2, <1>7, <1>8 DEF RepeatInv

LEMMA RunLoopKeeps == ShellInv /\ run_loop => ShellInv'
<1>1. SUFFICES ASSUME ShellType, TokenInv, LoopInv, run_loop
               PROVE  ShellInv'
  BY DEF ShellInv
<1>2. /\ pc \in {"mdmp", "ptwalk", "repeat"} /\ pc' \in {pc, "prompt"} /\ Stay /\ stray' = stray
  BY <1>1 DEF run_loop, dump_row, dump_end, walk_page, walk_end, repeat_print, repeat_end, Prompt
<1>3. ShellType' /\ TokenInv'
  <2>1. stray \in BOOLEAN
    BY <1>1 DEF TokenInv, StrayInv
  <2>2. pc' \in {"prompt", "mdmp", "ptwalk", "repeat", "done", "fault"} /\ pc # "off"
    BY <1>2
  <2>3. QED
    BY <1>1, <1>2, <2>1, <2>2, StrayKeeps
<1>4. CASE dump_row
  BY <1>1, <1>3, <1>4, RowKeeps DEF ShellInv, LoopInv, dump_row
<1>5. CASE walk_page
  BY <1>1, <1>3, <1>5, WalkKeeps DEF ShellInv, LoopInv, walk_page
<1>6. CASE repeat_print
  BY <1>1, <1>3, <1>6, RepeatKeeps DEF ShellInv, LoopInv, repeat_print
<1>7. CASE dump_end \/ walk_end \/ repeat_end
  BY <1>3, <1>7 DEF ShellInv, LoopInv, dump_end, walk_end, repeat_end, Prompt
<1>8. QED
  BY <1>1, <1>4, <1>5, <1>6, <1>7 DEF run_loop

(* The shell is started, prompts and reads. *)
LEMMA BeginKeeps == ShellInv /\ shell_begin => ShellInv'
<1>1. SUFFICES ASSUME ShellType, TokenInv, LoopInv, shell_begin
               PROVE  ShellInv'
  BY DEF ShellInv
<1>2. /\ pc = "off" /\ pc' = "prompt"
      /\ UNCHANGED <<input, next_token, args, i, end, line, said, stray>>
  BY <1>1 DEF shell_begin
<1>3. PICK last \in {NUL, "?"} : cmd_buf' = [a \in 0..(BUF - 1) |-> last]
  BY <1>1 DEF shell_begin
<1>4. last \in Byte
  BY DEF Byte, Char
<1>5. cmd_buf' \in [Addr -> Byte]
  BY <1>3, <1>4 DEF Addr
<1>6. ShellType'
  BY <1>1, <1>2, <1>5 DEF ShellType
<1>7. stray' = FALSE
  BY <1>1, <1>2 DEF TokenInv, StrayInv
<1>8. QED
  BY <1>2, <1>6, <1>7 DEF ShellInv, TokenInv, CutInv, RunInv, StrayInv, StraysExplained, LoopInv

LEMMA PromptKeeps == ShellInv /\ prompt => ShellInv'
<1>1. SUFFICES ASSUME ShellType, TokenInv, LoopInv, prompt
               PROVE  ShellInv'
  BY DEF ShellInv
<1>2. /\ pc = "prompt" /\ pc' = "getline" /\ args' = <<>> /\ line' = <<>> /\ stray' = FALSE
      /\ cmd_buf' = [a \in 0..(BUF - 1) |-> IF a = BUF - 1 THEN cmd_buf[a] ELSE "?"]
      /\ UNCHANGED <<shellOf, input, next_token>>
  BY <1>1 DEF prompt
<1>3. cmd_buf' \in [Addr -> Byte]
  <2>1. "?" \in Byte /\ cmd_buf \in [Addr -> Byte]
    BY <1>1, <1>2 DEF ShellType, Byte, Char
  <2>2. QED
    BY <1>2, <2>1 DEF Addr
<1>4. ShellType'
  <2>1. args' \in Seq(Addr) /\ line' \in Seq(Char) /\ Len(line') = 0
    BY <1>2
  <2>2. Len(line') < BUF
    BY <2>1, BufType
  <2>3. QED
    BY <1>1, <1>2, <1>3, <2>1, <2>2 DEF ShellType
<1>5. QED
  BY <1>2, <1>4 DEF ShellInv, TokenInv, CutInv, RunInv, StrayInv, StraysExplained, LoopInv

LEMMA TypeKeeps ==
  ASSUME ShellInv, NEW l \in Line, Type(l)
  PROVE  ShellInv'
<1>1. /\ pc = "getline" /\ input' = Append(l, "\n")
      /\ UNCHANGED <<shellOf, pc, cmd_buf, next_token, args, i, end, line, said, stray>>
  BY DEF Type
<1>2. input' \in Seq(Char)
  <2>1. l \in Seq(Char) /\ "\n" \in Char
    BY ShellAssumption DEF Char
  <2>2. QED
    BY <1>1, <2>1
<1>3. ShellType'
  BY <1>1, <1>2 DEF ShellInv, ShellType
<1>4. ~ stray'
  BY <1>1 DEF ShellInv, TokenInv, StrayInv
<1>5. QED
  BY <1>1, <1>3, <1>4
     DEF ShellInv, TokenInv, CutInv, RunInv, StrayInv, StraysExplained, LoopInv

LEMMA ShellKeeps == ShellInv /\ shell => ShellInv'
<1>1. SUFFICES ASSUME ShellInv, shell
               PROVE  ShellInv'
  OBVIOUS
<1>2. CASE getlinek
  <2>1. ShellType' /\ TokenInv'
    BY <1>1, <1>2, GetlineKeeps DEF ShellInv
  <2>2. QED
    BY <1>2, <2>1 DEF getlinek, ShellInv, LoopInv
<1>3. CASE tokenize
  <2>1. ShellType' /\ TokenInv'
    BY <1>1, <1>3, TokenizeType, TokenizeKeeps DEF ShellInv
  <2>2. pc' \in {"strtok", "run"}
    BY <1>3 DEF tokenize
  <2>3. QED
    BY <2>1, <2>2 DEF ShellInv, LoopInv
<1>4. QED
  BY <1>1, <1>2, <1>3, PromptKeeps, CommandKeeps, RunLoopKeeps DEF shell

LEMMA ShellIdle == ShellInv /\ UNCHANGED shellVars => ShellInv'
<1>1. SUFFICES ASSUME ShellType, TokenInv, LoopInv, UNCHANGED shellVars
               PROVE  ShellInv'
  BY DEF ShellInv
<1>2. /\ shellOf' = shellOf /\ pc' = pc /\ input' = input /\ cmd_buf' = cmd_buf
      /\ next_token' = next_token /\ args' = args /\ i' = i /\ end' = end /\ line' = line
      /\ said' = said /\ stray' = stray
  BY <1>1 DEF shellVars
<1>3. ShellType'
  BY <1>1, <1>2 DEF ShellType
<1>4. argc' = argc /\ Full' = Full /\ dump_address' = dump_address /\ Fields' = Fields
      /\ Starts' = Starts
  BY <1>2 DEF argc, Full, dump_address, Word, Fields, Starts, Blanks
<1>5. Consecutive' = Consecutive /\ AtRest' = AtRest /\ Covered' = Covered
  BY <1>2, <1>4 DEF Consecutive, AtRest, Covered, Cut
<1>6. \A name : Named(name)' <=> Named(name)
  BY <1>2, <1>4 DEF Named, Known, Word
<1>7. TokenInv'
  BY <1>1, <1>2, <1>4, <1>5, <1>6 DEF TokenInv, CutInv, RunInv, StrayInv, StraysExplained
<1>8. LoopInv'
  BY <1>1, <1>2, <1>4 DEF LoopInv, DumpInv, WalkInv, RepeatInv
<1>9. QED
  BY <1>3, <1>7, <1>8 DEF ShellInv

LEMMA ShellInitInv == ShellInit => ShellInv
<1>1. SUFFICES ASSUME ShellInit
               PROVE  ShellInv
  OBVIOUS
<1>2. /\ pc = "off" /\ input = <<>> /\ next_token = NULL /\ args = <<>> /\ line = <<>>
      /\ stray = FALSE
  BY <1>1 DEF ShellInit
<1>3. args \in Seq(Addr) /\ input \in Seq(Char) /\ line \in Seq(Char) /\ Len(line) < BUF
  BY <1>2, BufType
<1>4. ShellType
  BY <1>2, <1>3 DEF ShellType
<1>5. QED
  BY <1>2, <1>4 DEF ShellInv, TokenInv, CutInv, RunInv, StrayInv, StraysExplained, LoopInv

-----------------------------------------------------------------------------
(* The line, its tokens and the loops of the commands are at every step as *)
(* the invariant says.                                                     *)
THEOREM ShellInvariant == ConsoleSpec => []ShellInv
<1>1. ConsoleInit => ShellInv
  BY ShellInitInv DEF ConsoleInit
<1>2. ShellInv /\ [ConsoleNext]_consoleVars => ShellInv'
  <2>1. SUFFICES ASSUME ShellInv, [ConsoleNext]_consoleVars
                 PROVE  ShellInv'
    OBVIOUS
  <2>2. CASE in_shell
    BY <2>1, <2>2, ShellKeeps DEF in_shell
  <2>3. CASE run_shell
    BY <2>1, <2>3, BeginKeeps DEF run_shell
  <2>4. ASSUME NEW l \in Line, keyboard(l)
        PROVE  ShellInv'
    BY <2>1, <2>4, TypeKeeps DEF keyboard
  <2>5. CASE load_msg \/ init_port \/ format \/ print \/ put \/ hlt \/ chip
    BY <2>1, <2>5, ShellIdle DEF load_msg, init_port, format, print, put, hlt, chip
  <2>6. ASSUME NEW call \in Call, LOG_P(call[1], call[2])
        PROVE  ShellInv'
    BY <2>1, <2>6, ShellIdle DEF LOG_P
  <2>7. CASE UNCHANGED consoleVars
    BY <2>1, <2>7, ShellIdle DEF consoleVars
  <2>8. QED
    BY <2>1, <2>2, <2>3, <2>4, <2>5, <2>6, <2>7 DEF ConsoleNext, kmain
<1>3. QED
  BY <1>1, <1>2, PTL DEF ConsoleSpec

(* Outside its buffers the shell reads or writes only behind a line that   *)
(* has no end, for an empty line, and in echo and repeat without words.    *)
THEOREM StraysAreExplained == ConsoleSpec => []StraysExplained
<1>1. ShellInv => StraysExplained
  BY DEF ShellInv, TokenInv, StrayInv
<1>2. QED
  BY <1>1, ShellInvariant, PTL

(* The tokens that run_cmd works on are the first fields of the line.      *)
THEOREM TokensCorrect == ConsoleSpec => []TokensAreFields
<1>1. ShellInv => TokensAreFields
  <2>1. SUFFICES ASSUME ShellInv, pc = "run", ~ Full
                 PROVE  /\ \A k \in 1..argc :
                             LET s == args[k] + 1
                             IN  s \in Fields /\ Word(k) = SubSeq(line, s, Ends(s) - 1)
                        /\ \A k \in 2..argc : args[k - 1] < args[k]
                        /\ \A s \in Fields : \/ \E k \in 1..argc : s = args[k] + 1
                                             \/ argc = ARGS /\ s > args[ARGS] + 1
    BY DEF TokensAreFields
  <2>2. /\ ShellType /\ Consecutive /\ (argc = ARGS \/ Covered) /\ argc \in Nat
        /\ line \in Seq(Char) /\ Len(line) \in Nat /\ ARGS \in Nat \ {0}
        /\ \A k \in 1..argc : args[k] \in Nat
    BY <2>1, BufType, ShellAssumption DEF ShellInv, TokenInv, RunInv, ShellType, Addr, argc
  <2>3. ASSUME NEW k \in 1..argc
        PROVE  /\ args[k] + 1 \in Fields
               /\ Word(k) = SubSeq(line, args[k] + 1, Ends(args[k] + 1) - 1)
    <3>1. Cut(k)
      BY <2>2 DEF Consecutive
    <3>2. Word(k) = SubSeq(line, args[k] + 1, EndOf(line, args[k] + 1) - 1)
      BY <2>1, <2>2, <3>1, CutIsWord
    <3>3. QED
      BY <3>1, <3>2, EndsAre DEF Cut
  <2>4. ASSUME NEW k \in 2..argc
        PROVE  args[k - 1] < args[k]
    <3>1. k - 1 \in 1..argc
      BY <2>2
    <3> DEFINE q == args[k - 1] + 1
    <3>2. q \in 1..(Len(line) + 1)
      BY <2>2, <2>3, <3>1 DEF Fields
    <3>3. args[k] = EndOf(line, q)
      BY <2>2 DEF Consecutive
    <3>4. EndOf(line, q) \in q..(Len(line) + 1)
      <4> HIDE DEF q
      <4> QED
        BY <2>2, <3>2, EndsStops
    <3>5. QED
      BY <2>2, <3>1, <3>2, <3>3, <3>4
  <2>5. ASSUME NEW s \in Fields
        PROVE  \/ \E k \in 1..argc : s = args[k] + 1
               \/ argc = ARGS /\ s > args[ARGS] + 1
    <3>1. CASE argc > 0 /\ s <= args[argc] + 1
      BY <2>2, <3>1, NoFieldBetween
    <3>2. CASE ~ (argc > 0 /\ s <= args[argc] + 1)
      <4>1. argc = ARGS
        BY <2>2, <3>2 DEF Covered
      <4>2. argc > 0 /\ argc \in 1..argc /\ args[argc] \in Nat
        BY <2>2, <4>1
      <4>3. s \in Nat
        <5>1. Blanks \subseteq 1..Len(line)
          BY Zenon DEF Blanks
        <5>2. QED
          BY <2>2, <5>1 DEF Fields, Starts
      <4>4. QED
        BY <3>2, <4>1, <4>2, <4>3
    <3>3. QED
      BY <3>1, <3>2
  <2>6. QED
    BY <2>3, <2>4, <2>5
<1>2. QED
  BY <1>1, ShellInvariant, PTL

(* mdmp dumps every byte asked for once and in order, ptwalk looks at each *)
(* page once, repeat prints as often as it is told.                        *)
THEOREM LoopsCorrect == ConsoleSpec => []LoopsCover
<1>1. ShellInv => LoopsCover
  <2>1. SUFFICES ASSUME ShellInv
                 PROVE  LoopsCover
    OBVIOUS
  <2>2. ASSUME pc = "mdmp", i >= end, end <= WORD - ROW
        PROVE  said = [k \in 1..end |-> Unsigned(dump_address + k - 1)]
    <3>1. DumpInv /\ ShellType
      BY <2>1, <2>2 DEF ShellInv, LoopInv
    <3>2. dump_address \in Int /\ end \in Nat /\ i \in Nat
      BY <2>2, <3>1, DumpAddressType, CStringAssumption DEF DumpInv
    <3>3. AtMost(i, end) = end
      BY <2>2, <3>2 DEF AtMost
    <3>4. said = Span(dump_address, 0, end)
      BY <2>2, <3>1, <3>3 DEF DumpInv
    <3> DEFINE d == dump_address
    <3> HIDE DEF d
    <3>5. \A k \in 1..end : d + 0 + k - 1 = d + k - 1
      BY <3>2 DEF d
    <3>6. QED
      BY <3>4, <3>5 DEF Span, d
  <2>3. ASSUME pc = "ptwalk", i > end, end < WORD - PAGE
        PROVE  /\ \A k \in 1..Len(said) : said[k] <= end
               /\ \A k \in 2..Len(said) : said[k] = said[k - 1] + PAGE
               /\ said # <<>> => said[Len(said)] + PAGE > end
    BY <2>1, <2>3 DEF ShellInv, LoopInv, WalkInv
  <2>4. ASSUME pc = "repeat", i >= end
        PROVE  Len(said) = IF end < 0 THEN 0 ELSE end
    BY <2>1, <2>4 DEF ShellInv, LoopInv, RepeatInv
  <2>5. QED
    BY <2>2, <2>3, <2>4 DEF LoopsCover
<1>2. QED
  BY <1>1, ShellInvariant, PTL


-----------------------------------------------------------------------------
(* Numbers are read back.  Words are numbers modulo WORD. *)
LEMMA WholeMultiples ==
  ASSUME NEW m \in Int, NEW k \in Int, m < k
  PROVE  WORD * m + WORD <= WORD * k
<1>1. WORD \in Nat /\ k - m - 1 \in Nat
  BY CStringAssumption
<1> DEFINE t == k - m - 1
<1>2. t \in Nat /\ k = m + 1 + t
  BY <1>1
<1> HIDE DEF t
<1>3. WORD * t \in Nat
  BY <1>1, <1>2
<1>4. WORD * (m + 1 + t) = WORD * m + WORD + WORD * t
  BY <1>1, <1>2
<1>5. QED
  BY <1>1, <1>2, <1>3, <1>4

LEMMA WordDivision ==
  ASSUME NEW x \in Int
  PROVE  /\ x \div WORD \in Int /\ x % WORD \in 0..(WORD - 1)
         /\ x = WORD * (x \div WORD) + (x % WORD)
BY CStringAssumption

LEMMA SameWord ==
  ASSUME NEW x \in Int, NEW y \in Int, NEW m \in Int, y = x + WORD * m
  PROVE  y % WORD = x % WORD /\ ToLong(y) = ToLong(x)
<1> DEFINE q == x \div WORD
           r == x % WORD
           p == y \div WORD
           s == y % WORD
<1>1. /\ q \in Int /\ r \in 0..(WORD - 1) /\ x = WORD * q + r
      /\ p \in Int /\ s \in 0..(WORD - 1) /\ y = WORD * p + s
  BY WordDivision
<1>2. WORD \in Nat /\ WORD > 1
  BY CStringAssumption
<1> HIDE DEF q, r, p, s
<1>3. WORD * (q + m) = WORD * q + WORD * m
  BY <1>1, <1>2
<1> DEFINE u == q + m
<1>4. u \in Int /\ WORD * u + r = WORD * p + s
  <2>1. WORD * q \in Int /\ WORD * m \in Int /\ WORD * p \in Int
    BY <1>1, <1>2
  <2>2. QED
    BY <1>1, <1>2, <1>3, <2>1
<1> HIDE DEF u
<1>5. ~ (u < p) /\ ~ (p < u)
  <2>1. WORD * u \in Int /\ WORD * p \in Int
    BY <1>1, <1>2, <1>4
  <2>2. u < p => WORD * u + WORD <= WORD * p
    BY <1>1, <1>4, WholeMultiples
  <2>3. p < u => WORD * p + WORD <= WORD * u
    BY <1>1, <1>4, WholeMultiples
  <2>4. QED
    BY <1>1, <1>2, <1>4, <2>1, <2>2, <2>3
<1>6. u = p
  BY <1>1, <1>4, <1>5
<1>7. r = s
  <2>1. WORD * u \in Int
    BY <1>2, <1>4
  <2>2. QED
    BY <1>1, <1>4, <1>6, <2>1
<1>8. QED
  BY <1>7 DEF r, s, ToLong

LEMMA ToLongSame ==
  ASSUME NEW x \in Int
  PROVE  \E m \in Int : ToLong(x) = x + WORD * m
<1> DEFINE q == x \div WORD
           r == x % WORD
<1>1. q \in Int /\ r \in 0..(WORD - 1) /\ x = WORD * q + r
  BY WordDivision
<1>2. WORD \in Nat
  BY CStringAssumption
<1>3. ToLong(x) = IF 2 * r >= WORD THEN r - WORD ELSE r
  BY DEF ToLong
<1> HIDE DEF q, r
<1>4. WORD * (0 - q) = 0 - WORD * q /\ WORD * (0 - q - 1) = 0 - WORD * q - WORD /\ WORD * q \in Int
  BY <1>1, <1>2
<1>5. r = x + WORD * (0 - q) /\ r - WORD = x + WORD * (0 - q - 1)
  BY <1>1, <1>2, <1>4
<1>6. 0 - q \in Int /\ 0 - q - 1 \in Int
  BY <1>1
<1>7. QED
  BY <1>3, <1>5, <1>6

LEMMA ToLongOfWord ==
  ASSUME NEW x \in Int
  PROVE  ToLong(x % WORD) = ToLong(x)
<1> DEFINE q == x \div WORD
           r == x % WORD
<1>1. q \in Int /\ r \in 0..(WORD - 1) /\ x = WORD * q + r
  BY WordDivision
<1> HIDE DEF q, r
<1>2. ToLong(x) = ToLong(r)
  <2>1. r \in Int /\ WORD \in Nat /\ WORD * q \in Int
    BY <1>1, CStringAssumption
  <2>2. x = r + WORD * q
    BY <1>1, <2>1
  <2>3. QED
    BY <1>1, <2>1, <2>2, SameWord
<1>3. QED
  BY <1>2 DEF r

LEMMA ToLongStep ==
  ASSUME NEW x \in Int, NEW k \in Nat, NEW d \in Int
  PROVE  ToLong(ToLong(x) * k + d) = ToLong(x * k + d)
<1>1. PICK m \in Int : ToLong(x) = x + WORD * m
  BY ToLongSame
<1> DEFINE z == ToLong(x)
<1>2. z \in Int /\ WORD \in Nat
  BY ToLongType, CStringAssumption
<1>3. z = x + WORD * m
  BY <1>1
<1> HIDE DEF z
<1>4. (x + WORD * m) * k = x * k + WORD * (m * k)
  BY <1>2
<1>5. m * k \in Int /\ x * k + d \in Int /\ z * k + d \in Int /\ WORD * (m * k) \in Int /\ x * k \in Int
  BY <1>2
<1>6. z * k + d = (x * k + d) + WORD * (m * k)
  BY <1>3, <1>4, <1>5
<1>7. ToLong(z * k + d) = ToLong(x * k + d)
  BY <1>5, <1>6, SameWord
<1>8. QED
  BY <1>7 DEF z

LEMMA ToLongNegated ==
  ASSUME NEW x \in Int
  PROVE  ToLong(-ToLong(x)) = ToLong(-x)
<1>1. PICK m \in Int : ToLong(x) = x + WORD * m
  BY ToLongSame
<1> DEFINE z == ToLong(x)
<1>2. z \in Int /\ WORD \in Nat
  BY ToLongType, CStringAssumption
<1>3. z = x + WORD * m
  BY <1>1
<1> HIDE DEF z
<1>4. WORD * (-m) = - (WORD * m) /\ WORD * m \in Int /\ -m \in Int /\ -x \in Int /\ -z \in Int
  BY <1>2
<1>5. -z = -x + WORD * (-m)
  BY <1>2, <1>3, <1>4
<1>6. ToLong(-z) = ToLong(-x)
  BY <1>4, <1>5, SameWord
<1>7. QED
  BY <1>6 DEF z

LEMMA ToLongZero == ToLong(0) = 0
<1>1. 0 % WORD = 0
  BY CStringAssumption
<1>2. QED
  BY <1>1, CStringAssumption DEF ToLong

(* The characters of digits: no two the same, and none a blank, a sign or  *)
(* an x.                                                                   *)
LEMMA DigitsDiffer ==
  /\ \A k \in 1..16 : \A j \in 1..36 : Digit[j] = Digit[k] => j = k
  /\ \A k \in 1..6 : \A j \in 1..36 : Digit[j] # Upper[k]
  /\ \A k \in 1..6 : \A j \in 1..26 : Upper[j] = Upper[k] => j = k
<1>1. \A k \in 1..16 : \A j \in 1..36 : Digit[j] = Digit[k] => j = k
  BY SMTT(60) DEF Digit
<1>2. \A k \in 1..6 : \A j \in 1..36 : Digit[j] # Upper[k]
  BY SMTT(60) DEF Digit, Upper
<1>3. \A k \in 1..6 : \A j \in 1..26 : Upper[j] = Upper[k] => j = k
  BY SMTT(60) DEF Upper
<1>4. QED
  BY <1>1, <1>2, <1>3

LEMMA DigitsPlain ==
  /\ \A k \in 1..16 : Digit[k] \notin Space \cup {"-", "+", "x", "X"}
  /\ \A k \in 1..6 : Upper[k] \notin Space \cup {"-", "+", "x", "X"}
<1> DEFINE D == {"0", "1", "2", "3", "4", "5", "6", "7", "8", "9", "a", "b", "c", "d", "e", "f",
                 "A", "B", "C", "D", "E", "F"}
<1>1. \A k \in 1..16 : Digit[k] \in D
  BY SMTT(60) DEF Digit
<1>2. \A k \in 1..6 : Upper[k] \in D
  BY SMTT(60) DEF Upper
<1>3. \A x \in D : x \notin {"\t", "\n", "\f", "\r", "-", "+", "x", "X"}
  OBVIOUS
<1>4. \A x \in D : x # " "
  BY Zenon
<1>5. \A x \in D : x \notin Space \cup {"-", "+", "x", "X"}
  <2> HIDE DEF D
  <2>1. QED
    BY <1>3, <1>4, Zenon DEF Space
<1> HIDE DEF D
<1>6. QED
  BY <1>1, <1>2, <1>5

LEMMA DigitsOfBase ==
  ASSUME NEW base \in Base
  PROVE  /\ Digits(base) \cap (Space \cup {"-", "+", "x", "X"}) = {}
         /\ "0" \in Digits(base) /\ DigitValue("0") = 0
         /\ base \in 1..36
<1>1. base \in 1..16 /\ \A k \in 1..(base - 10) : k \in 1..6
  BY DEF Base
<1>2. \A k \in 1..base : k \in 1..16
  BY <1>1
<1>3. Digits(base) \cap (Space \cup {"-", "+", "x", "X"}) = {}
  BY <1>1, <1>2, DigitsPlain DEF Digits
<1>4. Digit[1] = "0" /\ 1 \in 1..base /\ 1 \in 1..36 /\ 1 \in 1..16
  BY <1>1 DEF Digit
<1>5. "0" \in Digits(base)
  BY <1>4 DEF Digits
<1>6. \A j \in 1..36 : Digit[j] = "0" <=> j = 1
  BY <1>4, DigitsDiffer
<1>7. (CHOOSE j \in 1..36 : Digit[j] = "0") = 1
  BY <1>4, <1>6
<1>8. DigitValue("0") = 0
  <2>1. DigitValue("0") = 1 - 1
    BY <1>4, <1>7 DEF DigitValue
  <2>2. QED
    BY <2>1
<1>9. QED
  BY <1>1, <1>3, <1>5, <1>8

LEMMA LastDigitIs ==
  ASSUME NEW base \in Base, NEW k \in Nat, NEW small
  PROVE  /\ LastDigit(k, base, small) \in Digits(base)
         /\ DigitValue(LastDigit(k, base, small)) = k % base
<1> DEFINE d == (k % base) + 1
           ch == LastDigit(k, base, small)
<1>1. d \in 1..base /\ base \in 1..16 /\ k % base = d - 1
  BY BaseFacts DEF Base
<1>2. ch = IF d <= 10 \/ small THEN Digit[d] ELSE Upper[d - 10]
  BY DEF LastDigit
<1> HIDE DEF d, ch
<1>3. CASE d <= 10 \/ small
  <2>1. ch = Digit[d] /\ d \in 1..16 /\ d \in 1..36
    BY <1>1, <1>2, <1>3
  <2>2. (CHOOSE j \in 1..36 : Digit[j] = ch) = d
    BY <2>1, DigitsDiffer
  <2>3. DigitValue(ch) = d - 1
    BY <2>1, <2>2 DEF DigitValue
  <2>4. ch \in Digits(base)
    BY <1>1, <2>1 DEF Digits
  <2>5. QED
    BY <1>1, <2>3, <2>4 DEF ch
<1>4. CASE ~ (d <= 10 \/ small)
  <2>1. ch = Upper[d - 10] /\ d - 10 \in 1..6 /\ d - 10 \in 1..26 /\ d - 10 \in 1..(base - 10)
    BY <1>1, <1>2, <1>4
  <2>2. ~ \E j \in 1..36 : Digit[j] = ch
    BY <2>1, DigitsDiffer
  <2>3. (CHOOSE j \in 1..26 : Upper[j] = ch) = d - 10
    BY <2>1, DigitsDiffer
  <2>4. DigitValue(ch) = (d - 10) + 9
    BY <2>2, <2>3 DEF DigitValue
  <2>5. ch \in Digits(base)
    BY <2>1 DEF Digits
  <2>6. DigitValue(ch) = d - 1
    BY <1>1, <2>4
  <2>7. QED
    BY <1>1, <2>5, <2>6 DEF ch
<1>5. QED
  BY <1>3, <1>4

(* What a number becomes, and what is read from it. *)
LEMMA DigitsAreDigits ==
  ASSUME NEW base \in Base, NEW num \in Nat, NEW small
  PROVE  DigitsOf(num, base, small) \in Seq(Digits(base)) /\ Len(DigitsOf(num, base, small)) > 0
<1> DEFINE D(k) == DigitsOf(k, base, small)
           S == Digits(base)
           T == {k \in Nat : ~ (D(k) \in Seq(S) /\ Len(D(k)) > 0)}
<1>1. SUFFICES ASSUME T # {}
               PROVE  FALSE
  OBVIOUS
<1>2. PICK x \in T : \A y \in T : x <= y
  BY <1>1, LeastNumber
<1>3. x \in Nat /\ base \in Nat /\ x \div base \in Nat /\ (x >= base => x \div base < x)
  BY <1>2, BaseFacts
<1> DEFINE y == x \div base
<1> HIDE DEF y
<1>4. x >= base => D(y) \in Seq(S) /\ Len(D(y)) > 0
  BY <1>2, <1>3 DEF y
<1> DEFINE ch == LastDigit(x, base, small)
<1>5. ch \in S
  BY <1>3, LastDigitIs
<1>6. D(x) = IF x < base THEN <<ch>> ELSE D(y) \o <<ch>>
  BY <1>3, DigitsUnfold DEF y
<1> HIDE DEF D, S, ch
<1>7. <<ch>> \in Seq(S) /\ Len(<<ch>>) = 1
  BY <1>5
<1>8. D(y) \in Seq(S) => D(y) \o <<ch>> \in Seq(S) /\ Len(D(y) \o <<ch>>) = Len(D(y)) + 1 /\ Len(D(y)) \in Nat
  BY <1>5
<1>9. D(x) \in Seq(S) /\ Len(D(x)) > 0
  BY <1>3, <1>4, <1>6, <1>7, <1>8
<1>10. QED
  BY <1>2, <1>9

(* t stands in s behind position p. *)
StandsAt(s, p, t) == \A j \in 1..Len(t) : s[p + j] = t[j]

(* v accumulates the digits of s from lo to hi. *)
Accumulates(v, s, lo, hi, base) ==
  \A j \in lo..hi : v[j] = ToLong(v[j - 1] * base + DigitValue(s[j]))

LEMMA DigitsValue ==
  ASSUME NEW base \in Base, NEW small, NEW s, NEW v, NEW lo \in Nat, NEW hi \in Int,
         Accumulates(v, s, lo, hi, base), NEW p \in Nat, lo <= p + 1, v[p] = 0,
         NEW num \in Nat, p + Len(DigitsOf(num, base, small)) <= hi,
         StandsAt(s, p, DigitsOf(num, base, small))
  PROVE  v[p + Len(DigitsOf(num, base, small))] = ToLong(num)
<1> DEFINE D(k) == DigitsOf(k, base, small)
           OK(k) == p + Len(D(k)) <= hi /\ StandsAt(s, p, D(k)) => v[p + Len(D(k))] = ToLong(k)
           T == {k \in Nat : ~ OK(k)}
<1>1. SUFFICES ASSUME T # {}
               PROVE  FALSE
  OBVIOUS
<1>2. PICK x \in T : \A y \in T : x <= y
  BY <1>1, LeastNumber
<1>3. /\ x \in Nat /\ base \in Nat /\ x \div base \in Nat /\ (x >= base => x \div base < x)
      /\ x = base * (x \div base) + (x % base) /\ x % base \in Nat
  BY <1>2, BaseFacts
<1> DEFINE y == x \div base
           d == x % base
           ch == LastDigit(x, base, small)
<1>4. x >= base => OK(y)
  <2> HIDE DEF OK
  <2>1. QED
    BY <1>2, <1>3
<1>5. DigitValue(ch) = d
  BY <1>3, LastDigitIs
<1>6. D(x) = IF x < base THEN <<ch>> ELSE D(y) \o <<ch>>
  BY <1>3, DigitsUnfold
<1>7. p + Len(D(x)) <= hi /\ StandsAt(s, p, D(x)) /\ v[p + Len(D(x))] # ToLong(x)
  BY <1>2
<1>8. /\ y \in Nat /\ d \in Nat /\ x = base * y + d
      /\ D(y) \in Seq(Digits(base)) /\ Len(D(y)) \in Nat
  <2>1. D(y) \in Seq(Digits(base))
    BY <1>3, DigitsAreDigits
  <2>2. QED
    BY <1>3, <2>1
<1> HIDE DEF D, y, d, ch
<1>9. CASE x < base
  <2>1. Len(D(x)) = 1 /\ D(x)[1] = ch
    BY <1>6, <1>9
  <2>2. p + 1 \in lo..hi /\ s[p + 1] = ch
    BY <1>7, <2>1 DEF StandsAt
  <2>3. v[p + 1] = ToLong(v[(p + 1) - 1] * base + DigitValue(s[p + 1]))
    BY <2>2 DEF Accumulates
  <2>4. (p + 1) - 1 = p /\ 0 * base + d = d
    BY <1>3, <1>8
  <2>5. v[p + 1] = ToLong(d)
    BY <1>5, <2>2, <2>3, <2>4
  <2>6. d = x
    BY <1>3, <1>9 DEF d
  <2>7. QED
    BY <1>7, <2>1, <2>5, <2>6
<1>10. CASE ~ (x < base)
  <2> DEFINE m == Len(D(y))
  <2>1. D(x) = D(y) \o <<ch>> /\ x >= base
    BY <1>3, <1>6, <1>10
  <2>2. /\ Len(D(x)) = m + 1 /\ D(x)[m + 1] = ch
        /\ \A j \in 1..m : D(x)[j] = D(y)[j]
    BY <1>8, <2>1
  <2>3. StandsAt(s, p, D(y)) /\ s[p + (m + 1)] = ch
    <3>1. \A j \in 1..(m + 1) : s[p + j] = D(x)[j]
      BY <1>7, <2>2 DEF StandsAt
    <3>2. m + 1 \in 1..(m + 1) /\ \A j \in 1..m : j \in 1..(m + 1)
      BY <1>8
    <3>3. s[p + (m + 1)] = ch
      BY <2>2, <3>1, <3>2
    <3>4. \A j \in 1..m : s[p + j] = D(y)[j]
      BY <2>2, <3>1, <3>2
    <3>5. QED
      BY <3>3, <3>4 DEF StandsAt
  <2>4. p + m <= hi /\ p + m + 1 \in lo..hi /\ p + (m + 1) = p + m + 1 /\ (p + m + 1) - 1 = p + m
    BY <1>7, <1>8, <2>2
  <2>5. v[p + m] = ToLong(y)
    BY <1>4, <2>1, <2>3, <2>4
  <2>6. v[p + m + 1] = ToLong(v[(p + m + 1) - 1] * base + DigitValue(s[p + m + 1]))
    BY <2>4 DEF Accumulates
  <2>7. v[p + m + 1] = ToLong(ToLong(y) * base + d)
    BY <1>5, <2>3, <2>4, <2>5, <2>6
  <2>8. ToLong(ToLong(y) * base + d) = ToLong(y * base + d)
    BY <1>3, <1>8, ToLongStep
  <2>9. y * base + d = x
    BY <1>3, <1>8
  <2>10. QED
    BY <1>7, <2>2, <2>4, <2>7, <2>8, <2>9
<1>11. QED
  BY <1>9, <1>10

LEMMA ZerosValue ==
  ASSUME NEW base \in Base, NEW s, NEW v, NEW lo \in Nat, lo > 0, NEW hi \in Int,
         Accumulates(v, s, lo, hi, base), v[lo - 1] = 0,
         NEW p \in Nat, lo <= p + 1, p <= hi, \A j \in lo..p : s[j] = "0"
  PROVE  v[p] = 0
<1> DEFINE S == {k \in Nat : k + 1 >= lo /\ k <= p => v[k] = 0}
<1>1. base \in Nat
  BY BaseFacts
<1>2. 0 \in S
  <2>1. 0 + 1 >= lo => lo - 1 = 0
    OBVIOUS
  <2>2. QED
    BY <2>1
<1>3. ASSUME NEW k \in Nat, k \in S
      PROVE  k + 1 \in S
  <2> DEFINE q == k + 1
  <2>1. q \in Nat /\ q - 1 = k
    OBVIOUS
  <2>2. SUFFICES ASSUME q + 1 >= lo, q <= p
                 PROVE  v[q] = 0
    BY <2>1
  <2> HIDE DEF q
  <2>3. CASE q = lo - 1
    BY <2>3
  <2>4. CASE q # lo - 1
    <3>1. q \in lo..p /\ q \in lo..hi /\ k + 1 >= lo /\ k <= p
      BY <2>1, <2>2, <2>4
    <3>2. v[k] = 0 /\ s[q] = "0"
      BY <1>3, <3>1
    <3>3. v[q] = ToLong(v[q - 1] * base + DigitValue(s[q]))
      BY <3>1 DEF Accumulates
    <3>4. DigitValue("0") = 0 /\ 0 * base + 0 = 0
      BY <1>1, DigitsOfBase
    <3>5. QED
      BY <2>1, <3>2, <3>3, <3>4, ToLongZero
  <2>5. QED
    BY <2>3, <2>4
<1> HIDE DEF S
<1>4. Nat \subseteq S
  BY <1>2, <1>3, NaturalInduction
<1>5. p \in S
  BY <1>4
<1>6. QED
  BY <1>5 DEF S

LEMMA SkipIs ==
  ASSUME NEW s \in Seq(Byte), NEW a \in 1..(Len(s) + 1), NEW S,
         NEW x \in a..(Len(s) + 1), x = Len(s) + 1 \/ s[x] \notin S,
         \A k \in a..(x - 1) : s[k] \in S
  PROVE  Skip(s, a, S) = x
<1> DEFINE e == Skip(s, a, S)
<1>1. /\ e \in a..(Len(s) + 1) /\ (e = Len(s) + 1 \/ s[e] \notin S)
      /\ \A k \in a..(e - 1) : s[k] \in S
  BY SkipStops
<1>2. Len(s) \in Nat
  OBVIOUS
<1> HIDE DEF e
<1>3. ~ (e < x) /\ ~ (x < e)
  BY <1>1, <1>2
<1>4. e = x
  BY <1>1, <1>2, <1>3
<1>5. QED
  BY <1>4 DEF e

LEMMA SpacePlain == Space \cap {"-", "+", "x", "X"} = {}
BY Zenon DEF Space

(* Up to position e, s has blanks, a sign, a prefix and digits: from a, b  *)
(* and first on.                                                           *)
Parses(s, base, a, b, first, e) ==
  /\ a \in 1..Len(s) /\ (\A j \in 1..(a - 1) : s[j] \in Space) /\ s[a] \notin Space
  /\ b \in Nat /\ b = IF s[a] \in {"-", "+"} THEN a + 1 ELSE a
  /\ e \in 1..Len(s) /\ (e = Len(s) \/ s[e + 1] \in Space)
  /\ first \in 1..e /\ (\A j \in first..e : s[j] \in Digits(base))
  /\ \/ first = b + 2 /\ base = 16 /\ s[b] = "0" /\ s[b + 1] \in {"x", "X"}
     \/ first = b

LEMMA Parsed ==
  ASSUME NEW s \in Seq(Byte), NEW base \in Base,
         NEW a, NEW b, NEW first, NEW e, Parses(s, base, a, b, first, e)
  PROVE  /\ strtol(s, base) = IF s[a] = "-" THEN ToLong(-ValueFrom(s, first, base))
                              ELSE ValueFrom(s, first, base)
         /\ DigitsEnd(s, first, base) = e
<1> USE DEF Parses
<1>1. /\ Len(s) \in Nat /\ base \in 1..36 /\ base \notin {0} /\ base \in Nat
      /\ Digits(base) \cap Space = {} /\ Digits(base) \cap {"x", "X"} = {}
  <2>1. base \in 1..36 /\ Digits(base) \cap (Space \cup {"-", "+", "x", "X"}) = {}
    BY DigitsOfBase
  <2>2. Digits(base) \cap Space = {} /\ Digits(base) \cap {"x", "X"} = {}
    BY <2>1
  <2>3. Len(s) \in Nat /\ base \in 1..36 /\ base \notin {0} /\ base \in Nat
    BY <2>1
  <2>4. QED
    BY <2>2, <2>3
<1>2. Skip(s, 1, Space) = a
  <2>1. 1 \in 1..(Len(s) + 1) /\ a \in 1..(Len(s) + 1)
    BY <1>1
  <2>2. QED
    BY <2>1, SkipIs
<1>3. Skip(s, first, Digits(base)) = e + 1
  <2>1. first \in 1..(Len(s) + 1) /\ e + 1 \in first..(Len(s) + 1) /\ (e + 1) - 1 = e
    BY <1>1
  <2>2. e + 1 = Len(s) + 1 \/ s[e + 1] \notin Digits(base)
    BY <1>1
  <2> DEFINE x == e + 1
  <2> HIDE DEF x
  <2>3. x \in first..(Len(s) + 1) /\ (x = Len(s) + 1 \/ s[x] \notin Digits(base))
        /\ \A j \in first..(x - 1) : s[j] \in Digits(base)
    BY <2>1, <2>2 DEF x
  <2>4. QED
    BY <2>1, <2>3, SkipIs DEF x
<1>4. DigitsEnd(s, first, base) = e
  BY <1>1, <1>3 DEF DigitsEnd
<1> DEFINE hex == At(s, b, {"0"}) /\ At(s, b + 1, {"x", "X"})
<1>5. At(s, a, {"-", "+"}) <=> s[a] \in {"-", "+"}
  BY DEF At
<1>6. At(s, a, {"-"}) <=> s[a] = "-"
  BY DEF At
<1>7. (IF hex /\ base \in {0, 16} THEN b + 2
       ELSE IF base = 0 /\ At(s, b, {"0"}) THEN b + 1 ELSE b) = first
  <2>1. CASE first = b + 2 /\ base = 16 /\ s[b] = "0" /\ s[b + 1] \in {"x", "X"}
    <3>1. b <= Len(s) /\ b + 1 <= Len(s)
      BY <1>1, <2>1
    <3>2. hex
      BY <2>1, <3>1 DEF At
    <3>3. QED
      BY <2>1, <3>2
  <2>2. CASE first = b
    <3>1. ~ hex
      <4>1. b + 1 \in first..e => s[b + 1] \notin {"x", "X"}
        BY <1>1
      <4>2. b + 1 = e + 1 /\ b + 1 <= Len(s) => s[b + 1] \in Space
        <5>1. SUFFICES ASSUME b + 1 = e + 1, b + 1 <= Len(s)
                       PROVE  s[b + 1] \in Space
          OBVIOUS
        <5>2. e # Len(s)
          BY <1>1, <5>1
        <5>3. QED
          BY <5>1, <5>2
      <4>3. b + 1 \in first..e \/ b + 1 = e + 1
        BY <1>1, <2>2
      <4>4. QED
        BY <4>1, <4>2, <4>3, SpacePlain DEF At
    <3>2. QED
      BY <1>1, <2>2, <3>1
  <2>3. QED
    BY <2>1, <2>2
<1> HIDE DEF hex
<1>8. strtol(s, base) = IF At(s, a, {"-"}) THEN ToLong(-ValueFrom(s, first, base))
                        ELSE ValueFrom(s, first, base)
  <2>1. b = IF At(s, a, {"-", "+"}) THEN a + 1 ELSE a
    BY <1>5
  <2>2. base # 0
    BY <1>1
  <2>3. QED
    BY <1>2, <1>7, <2>1, <2>2, Zenon DEF strtol, hex
<1>9. QED
  BY <1>4, <1>6, <1>8

(* A number behind zeros. *)
LEMMA NumberValue ==
  ASSUME NEW s \in Seq(Byte), NEW base \in Base, NEW num \in Nat, NEW small,
         NEW e \in 1..Len(s), NEW first \in 1..e, DigitsEnd(s, first, base) = e,
         NEW p \in Nat, first <= p + 1, p + Len(DigitsOf(num, base, small)) = e,
         \A j \in first..p : s[j] = "0", StandsAt(s, p, DigitsOf(num, base, small))
  PROVE  ValueFrom(s, first, base) = ToLong(num)
<1> DEFINE v == ValueAt(s, first, base)
           D == DigitsOf(num, base, small)
<1>1. Len(s) \in Nat /\ base \in 1..36 /\ first \in 1..(Len(s) + 1) /\ first \in Nat /\ e \in Nat
  BY DigitsOfBase
<1>2. /\ ValueFrom(s, first, base) = v[e] /\ v[first - 1] = 0
      /\ \A j \in first..e : v[j] = ToLong(v[j - 1] * base + DigitValue(s[j]))
  BY <1>1, ValueUnfold
<1> HIDE DEF v
<1>3. Accumulates(v, s, first, e, base)
  BY <1>2 DEF Accumulates
<1>4. D \in Seq(Digits(base)) /\ Len(D) \in Nat
  BY DigitsAreDigits
<1>5. p + Len(D) = e
  OBVIOUS
<1>6. first > 0 /\ e \in Int /\ p <= e
  <2> HIDE DEF D
  <2> QED
    BY <1>1, <1>4, <1>5
<1>7. v[p] = 0
  <2> HIDE DEF D
  <2> QED
    BY <1>1, <1>2, <1>3, <1>6, ZerosValue
<1>8. v[p + Len(D)] = ToLong(num)
  BY <1>1, <1>3, <1>7, DigitsValue
<1>9. QED
  BY <1>2, <1>5, <1>8

(* A text put together from parts. *)
LEMMA Concatenated ==
  ASSUME NEW A \in Seq(Byte), NEW B \in Seq(Byte)
  PROVE  /\ A \o B \in Seq(Byte) /\ Len(A \o B) = Len(A) + Len(B)
         /\ Len(A) \in Nat /\ Len(B) \in Nat
         /\ StandsAt(A \o B, Len(A), B)
         /\ \A q \in Nat, t \in Seq(Byte) :
              StandsAt(A, q, t) /\ q + Len(t) <= Len(A) => StandsAt(A \o B, q, t)
<1>1. /\ A \o B \in Seq(Byte) /\ Len(A \o B) = Len(A) + Len(B) /\ Len(A) \in Nat /\ Len(B) \in Nat
      /\ \A j \in 1..(Len(A) + Len(B)) : (A \o B)[j] = IF j <= Len(A) THEN A[j] ELSE B[j - Len(A)]
  OBVIOUS
<1> DEFINE C == A \o B
<1> HIDE DEF C
<1>2. \A j \in 1..(Len(A) + Len(B)) : C[j] = IF j <= Len(A) THEN A[j] ELSE B[j - Len(A)]
  BY <1>1 DEF C
<1>3. StandsAt(C, Len(A), B)
  <2>1. SUFFICES ASSUME NEW j \in 1..Len(B)
                 PROVE  C[Len(A) + j] = B[j]
    BY DEF StandsAt
  <2>2. /\ Len(A) + j \in 1..(Len(A) + Len(B)) /\ ~ (Len(A) + j <= Len(A))
        /\ (Len(A) + j) - Len(A) = j
    BY <1>1
  <2>3. QED
    BY <1>2, <2>2
<1>4. ASSUME NEW q \in Nat, NEW t \in Seq(Byte), StandsAt(A, q, t), q + Len(t) <= Len(A)
      PROVE  StandsAt(C, q, t)
  <2>1. SUFFICES ASSUME NEW j \in 1..Len(t)
                 PROVE  C[q + j] = t[j]
    BY DEF StandsAt
  <2>2. q + j \in 1..(Len(A) + Len(B)) /\ q + j <= Len(A)
    BY <1>1, <1>4
  <2>3. A[q + j] = t[j]
    BY <1>4 DEF StandsAt
  <2>4. QED
    BY <1>2, <2>2, <2>3
<1>5. QED
  BY <1>1, <1>3, <1>4 DEF C

TextOf(bl, sign, prefix, zeros, digits, rest) ==
  ((((bl \o sign) \o prefix) \o zeros) \o digits) \o rest

(* Where the parts stand. *)
Placed(s, bl, sign, prefix, zeros, digits, rest) ==
  LET n1 == Len(bl)
      n2 == n1 + Len(sign)
      n3 == n2 + Len(prefix)
      n4 == n3 + Len(zeros)
      n5 == n4 + Len(digits)
  IN  /\ s \in Seq(Byte) /\ Len(s) = n5 + Len(rest)
      /\ StandsAt(s, 0, bl) /\ StandsAt(s, n1, sign) /\ StandsAt(s, n2, prefix)
      /\ StandsAt(s, n3, zeros) /\ StandsAt(s, n4, digits) /\ StandsAt(s, n5, rest)

LEMMA StandsStill ==
  ASSUME NEW A \in Seq(Byte), NEW B \in Seq(Byte), NEW q \in Nat, NEW t \in Seq(Byte),
         StandsAt(A, q, t), q + Len(t) <= Len(A)
  PROVE  StandsAt(A \o B, q, t)
BY Concatenated

LEMMA StandsNext ==
  ASSUME NEW A \in Seq(Byte), NEW B \in Seq(Byte), NEW k, Len(A) = k, NEW C, C = A \o B
  PROVE  Len(C) = k + Len(B) /\ StandsAt(C, k, B)
BY Concatenated

LEMMA TextOfIs ==
  ASSUME NEW bl \in Seq(Byte), NEW sign \in Seq(Byte), NEW prefix \in Seq(Byte),
         NEW zeros \in Seq(Byte), NEW digits \in Seq(Byte), NEW rest \in Seq(Byte)
  PROVE  Placed(TextOf(bl, sign, prefix, zeros, digits, rest), bl, sign, prefix, zeros, digits, rest)
<1> DEFINE n1 == Len(bl)
           n2 == n1 + Len(sign)
           n3 == n2 + Len(prefix)
           n4 == n3 + Len(zeros)
           n5 == n4 + Len(digits)
           P2 == bl \o sign
           P3 == P2 \o prefix
           P4 == P3 \o zeros
           P5 == P4 \o digits
           P6 == P5 \o rest
<1>1. /\ 0 \in Nat /\ n1 \in Nat /\ n2 \in Nat /\ n3 \in Nat /\ n4 \in Nat /\ n5 \in Nat
      /\ 0 + Len(bl) <= n1 /\ 0 + Len(bl) <= n2 /\ 0 + Len(bl) <= n3 /\ 0 + Len(bl) <= n4
      /\ 0 + Len(bl) <= n5 /\ n1 + Len(sign) <= n2 /\ n1 + Len(sign) <= n3 /\ n1 + Len(sign) <= n4
      /\ n1 + Len(sign) <= n5 /\ n2 + Len(prefix) <= n3 /\ n2 + Len(prefix) <= n4
      /\ n2 + Len(prefix) <= n5 /\ n3 + Len(zeros) <= n4 /\ n3 + Len(zeros) <= n5
      /\ n4 + Len(digits) <= n5
  <2>1. /\ n1 \in Nat /\ Len(sign) \in Nat /\ Len(prefix) \in Nat /\ Len(zeros) \in Nat
        /\ Len(digits) \in Nat
    OBVIOUS
  <2>2. QED
    BY <2>1
<1>2. /\ P2 \in Seq(Byte) /\ P3 \in Seq(Byte) /\ P4 \in Seq(Byte) /\ P5 \in Seq(Byte) /\ P6 \in Seq(Byte)
  <2>1. P2 \in Seq(Byte)
    BY Concatenated
  <2> HIDE DEF P2
  <2>2. P3 \in Seq(Byte)
    BY <2>1, Concatenated
  <2> HIDE DEF P3
  <2>3. P4 \in Seq(Byte)
    BY <2>2, Concatenated
  <2> HIDE DEF P4
  <2>4. P5 \in Seq(Byte)
    BY <2>3, Concatenated
  <2> HIDE DEF P5
  <2>5. P6 \in Seq(Byte)
    BY <2>4, Concatenated
  <2>6. QED
    BY <2>1, <2>2, <2>3, <2>4, <2>5
<1>3. StandsAt(bl, 0, bl)
  BY DEF StandsAt
<1>4. P6 = TextOf(bl, sign, prefix, zeros, digits, rest)
  BY DEF TextOf
<1>5. P2 = bl \o sign /\ P3 = P2 \o prefix /\ P4 = P3 \o zeros /\ P5 = P4 \o digits /\ P6 = P5 \o rest
  OBVIOUS
<1>6. /\ Len(bl) = n1 /\ n1 + Len(sign) = n2 /\ n2 + Len(prefix) = n3 /\ n3 + Len(zeros) = n4
      /\ n4 + Len(digits) = n5
  OBVIOUS
<1> HIDE DEF P2, P3, P4, P5, P6, n1, n2, n3, n4, n5
<1>7. Len(P2) = n2 /\ StandsAt(P2, n1, sign)
  BY <1>2, <1>5, <1>6, StandsNext
<1>8. Len(P3) = n3 /\ StandsAt(P3, n2, prefix)
  <2>1. P2 \in Seq(Byte) /\ Len(P2) = n2 /\ P3 = P2 \o prefix
    BY <1>2, <1>5, <1>7
  <2>2. Len(P3) = n2 + Len(prefix) /\ StandsAt(P3, n2, prefix)
    BY <2>1, StandsNext, Zenon
  <2>3. QED
    BY <1>6, <2>2
<1>9. Len(P4) = n4 /\ StandsAt(P4, n3, zeros)
  <2>1. P3 \in Seq(Byte) /\ Len(P3) = n3 /\ P4 = P3 \o zeros
    BY <1>2, <1>5, <1>8
  <2>2. Len(P4) = n3 + Len(zeros) /\ StandsAt(P4, n3, zeros)
    BY <2>1, StandsNext, Zenon
  <2>3. QED
    BY <1>6, <2>2
<1>10. Len(P5) = n5 /\ StandsAt(P5, n4, digits)
  <2>1. P4 \in Seq(Byte) /\ Len(P4) = n4 /\ P5 = P4 \o digits
    BY <1>2, <1>5, <1>9
  <2>2. Len(P5) = n4 + Len(digits) /\ StandsAt(P5, n4, digits)
    BY <2>1, StandsNext, Zenon
  <2>3. QED
    BY <1>6, <2>2
<1>11. Len(P6) = n5 + Len(rest) /\ StandsAt(P6, n5, rest)
  <2>1. P5 \in Seq(Byte) /\ Len(P5) = n5 /\ P6 = P5 \o rest
    BY <1>2, <1>5, <1>10
  <2>2. Len(P6) = n5 + Len(rest) /\ StandsAt(P6, n5, rest)
    BY <2>1, StandsNext, Zenon
  <2>3. QED
    BY <1>6, <2>2
<1>12. StandsAt(P6, 0, bl)
  <2>1. StandsAt(P2, 0, bl)
    BY <1>1, <1>3, <1>5, <1>6, StandsStill
  <2>2. StandsAt(P3, 0, bl)
    BY <1>1, <1>2, <1>5, <1>7, <2>1, StandsStill
  <2>3. StandsAt(P4, 0, bl)
    BY <1>1, <1>2, <1>5, <1>8, <2>2, StandsStill
  <2>4. StandsAt(P5, 0, bl)
    BY <1>1, <1>2, <1>5, <1>9, <2>3, StandsStill
  <2>5. QED
    BY <1>1, <1>2, <1>5, <1>10, <2>4, StandsStill
<1>13. StandsAt(P6, n1, sign)
  <2>1. StandsAt(P3, n1, sign)
    BY <1>1, <1>2, <1>5, <1>7, StandsStill
  <2>2. StandsAt(P4, n1, sign)
    BY <1>1, <1>2, <1>5, <1>8, <2>1, StandsStill
  <2>3. StandsAt(P5, n1, sign)
    BY <1>1, <1>2, <1>5, <1>9, <2>2, StandsStill
  <2>4. QED
    BY <1>1, <1>2, <1>5, <1>10, <2>3, StandsStill
<1>14. StandsAt(P6, n2, prefix)
  <2>1. StandsAt(P4, n2, prefix)
    BY <1>1, <1>2, <1>5, <1>8, StandsStill
  <2>2. StandsAt(P5, n2, prefix)
    BY <1>1, <1>2, <1>5, <1>9, <2>1, StandsStill
  <2>3. QED
    BY <1>1, <1>2, <1>5, <1>10, <2>2, StandsStill
<1>15. StandsAt(P6, n3, zeros)
  <2>1. StandsAt(P5, n3, zeros)
    BY <1>1, <1>2, <1>5, <1>9, StandsStill
  <2>2. QED
    BY <1>1, <1>2, <1>5, <1>10, <2>1, StandsStill
<1>16. StandsAt(P6, n4, digits)
  BY <1>1, <1>2, <1>5, <1>10, StandsStill
<1>17. QED
  BY <1>2, <1>4, <1>11, <1>12, <1>13, <1>14, <1>15, <1>16 DEF Placed, n1, n2, n3, n4, n5

(* s has blanks, a sign, a prefix, zeros, the digits D and blanks: up to   *)
(* n1, n2, n3, n4, n5 and its end.                                         *)
Readable(s, base, D, n1, n2, n3, n4, n5) ==
  /\ n1 \in Nat /\ n2 \in Nat /\ n3 \in Nat /\ n4 \in Nat /\ n5 \in Nat
  /\ n3 <= n4 /\ n5 <= Len(s) /\ n4 + Len(D) = n5
  /\ \A j \in 1..n1 : s[j] \in Space
  /\ n2 = n1 \/ (n2 = n1 + 1 /\ s[n1 + 1] \in Space \cup {"-", "+"})
  /\ \/ n3 = n2
     \/ n3 = n2 + 1 /\ s[n2 + 1] = "0"
     \/ n3 = n2 + 2 /\ base = 16 /\ s[n2 + 1] = "0" /\ s[n2 + 2] \in {"x", "X"}
  /\ \A j \in (n3 + 1)..n4 : s[j] = "0"
  /\ StandsAt(s, n4, D)
  /\ n5 = Len(s) \/ s[n5 + 1] \in Space

LEMMA ReadAt ==
  ASSUME NEW s \in Seq(Byte), NEW base \in Base, NEW num \in Nat, NEW small,
         NEW n1, NEW n2, NEW n3, NEW n4, NEW n5,
         Readable(s, base, DigitsOf(num, base, small), n1, n2, n3, n4, n5)
  PROVE  strtol(s, base) = IF n2 = n1 + 1 /\ s[n1 + 1] = "-" THEN ToLong(-ToLong(num))
                           ELSE ToLong(num)
<1> DEFINE D == DigitsOf(num, base, small)
           S == Digits(base)
           first == IF n3 = n2 + 2 THEN n3 + 1 ELSE n2 + 1
<1> USE DEF Readable
<1>1. Len(s) \in Nat /\ n5 \in 1..Len(s) /\ n4 < n5 /\ n2 <= n3
  <2>1. Len(D) \in Nat /\ Len(D) > 0
    BY DigitsAreDigits
  <2> HIDE DEF D
  <2>2. n4 + Len(D) = n5
    BY DEF D
  <2>3. Len(s) \in Nat
    OBVIOUS
  <2>4. QED
    BY <2>1, <2>2, <2>3
<1>2. \A j \in (n4 + 1)..n5 : s[j] \in S
  <2>1. SUFFICES ASSUME NEW j \in (n4 + 1)..n5
                 PROVE  s[j] \in S
    OBVIOUS
  <2>2. D \in Seq(S) /\ Len(D) \in Nat /\ n4 + Len(D) = n5
    BY DigitsAreDigits
  <2>3. \A x \in 1..Len(D) : s[n4 + x] = D[x]
    BY DEF StandsAt
  <2> HIDE DEF D, S
  <2>4. j - n4 \in 1..Len(D) /\ n4 + (j - n4) = j
    BY <2>2
  <2>5. D[j - n4] \in S
    BY <2>2, <2>4
  <2>6. QED
    BY <2>3, <2>4, <2>5
<1>3. "0" \in S /\ S \cap Space = {} /\ S \cap {"-", "+"} = {}
  <2>1. "0" \in S /\ S \cap (Space \cup {"-", "+", "x", "X"}) = {}
    BY DigitsOfBase
  <2> HIDE DEF S
  <2>2. QED
    BY <2>1
<1>4. /\ first \in 1..n5 /\ first <= n4 + 1
      /\ \A j \in first..n4 : s[j] = "0"
  <2>1. CASE n3 = n2
    BY <1>1, <2>1
  <2>2. CASE n3 = n2 + 1 /\ s[n2 + 1] = "0"
    <3>1. first = n3 /\ n3 > 0
      BY <2>2
    <3>2. \A j \in n3..n4 : j = n2 + 1 \/ j \in (n3 + 1)..n4
      BY <2>2
    <3>3. QED
      BY <1>1, <2>2, <3>1, <3>2
  <2>3. CASE n3 = n2 + 2
    BY <1>1, <2>3
  <2>4. QED
    BY <2>1, <2>2, <2>3
<1>5. \A j \in first..n5 : s[j] \in S
  <2> HIDE DEF first, S
  <2>1. \A j \in first..n5 : j \in first..n4 \/ j \in (n4 + 1)..n5
    BY <1>4
  <2>2. QED
    BY <1>2, <1>3, <1>4, <2>1
<1>6. n2 + 1 \in 1..n5 /\ s[n2 + 1] \in S
  <2>1. CASE n3 = n2
    <3>1. first = n2 + 1
      BY <2>1
    <3>2. QED
      BY <1>4, <1>5, <3>1
  <2>2. CASE n3 # n2
    <3>1. s[n2 + 1] = "0"
      BY <2>2
    <3>2. n2 + 1 \in 1..n5
      BY <1>1
    <3>3. QED
      BY <1>3, <3>1, <3>2
  <2>3. QED
    BY <2>1, <2>2
<1>7. \/ first = (n2 + 1) + 2 /\ base = 16 /\ s[n2 + 1] = "0" /\ s[(n2 + 1) + 1] \in {"x", "X"}
      \/ first = n2 + 1
  <2>1. (n2 + 1) + 1 = n2 + 2 /\ (n2 + 1) + 2 = (n2 + 2) + 1
    OBVIOUS
  <2>2. CASE n3 = n2 + 2
    <3>1. base = 16 /\ s[n2 + 1] = "0" /\ s[n2 + 2] \in {"x", "X"}
      BY <2>2
    <3>2. QED
      BY <2>1, <2>2, <3>1
  <2>3. CASE n3 # n2 + 2
    BY <2>3
  <2>4. QED
    BY <2>2, <2>3
<1> DEFINE v == ValueFrom(s, first, base)
<1>8. DigitsEnd(s, first, base) = n5 => v = ToLong(num)
  BY <1>1, <1>4, NumberValue
<1> HIDE DEF first, S, v
<1>9. CASE n2 = n1 + 1 /\ s[n1 + 1] \in {"-", "+"}
  <2> DEFINE a == n1 + 1
             b == n2 + 1
  <2>1. /\ a \in 1..Len(s) /\ \A j \in 1..(a - 1) : s[j] \in Space
    BY <1>1, <1>6, <1>9
  <2>2. s[a] \notin Space /\ s[a] \in {"-", "+"}
    BY <1>9, SpacePlain
  <2>3. b \in Nat /\ b = IF s[a] \in {"-", "+"} THEN a + 1 ELSE a
    BY <1>9
  <2>4. \/ first = b + 2 /\ base = 16 /\ s[b] = "0" /\ s[b + 1] \in {"x", "X"}
        \/ first = b
    BY <1>7
  <2>5. a = n1 + 1 /\ n2 = n1 + 1
    BY <1>9
  <2> HIDE DEF a, b
  <2>6. Parses(s, base, a, b, first, n5)
    BY <1>1, <1>4, <1>5, <2>1, <2>2, <2>3, <2>4 DEF Parses, S
  <2>7. /\ strtol(s, base) = IF s[a] = "-" THEN ToLong(-v) ELSE v
        /\ DigitsEnd(s, first, base) = n5
    BY <2>6, Parsed DEF v
  <2>8. QED
    BY <1>8, <2>5, <2>7
<1>10. CASE ~ (n2 = n1 + 1 /\ s[n1 + 1] \in {"-", "+"})
  <2> DEFINE a == n2 + 1
  <2>1. /\ a \in 1..Len(s) /\ \A j \in 1..(a - 1) : s[j] \in Space
    <3>1. \A j \in 1..n2 : j \in 1..n1 \/ (n2 = n1 + 1 /\ j = n1 + 1)
      OBVIOUS
    <3>2. n2 = n1 + 1 => s[n1 + 1] \in Space
      BY <1>10
    <3>3. a - 1 = n2 /\ a \in 1..Len(s)
      BY <1>1, <1>6
    <3>4. QED
      BY <3>1, <3>2, <3>3
  <2>2. s[a] \notin Space /\ s[a] \notin {"-", "+"}
    BY <1>3, <1>6
  <2>3. a \in Nat /\ a = IF s[a] \in {"-", "+"} THEN a + 1 ELSE a
    BY <2>2
  <2>4. \/ first = a + 2 /\ base = 16 /\ s[a] = "0" /\ s[a + 1] \in {"x", "X"}
        \/ first = a
    BY <1>7
  <2> HIDE DEF a
  <2>5. Parses(s, base, a, a, first, n5)
    BY <1>1, <1>4, <1>5, <2>1, <2>2, <2>3, <2>4 DEF Parses, S
  <2>6. /\ strtol(s, base) = IF s[a] = "-" THEN ToLong(-v) ELSE v
        /\ DigitsEnd(s, first, base) = n5
    BY <2>5, Parsed DEF v
  <2>7. QED
    BY <1>8, <1>10, <2>2, <2>6
<1>11. QED
  BY <1>9, <1>10

(* The parts of the text of a number, without its digits. *)
Parts(bl, sign, prefix, zeros, rest, base) ==
  /\ bl \in Seq(Byte) /\ (\A j \in 1..Len(bl) : bl[j] \in Space)
  /\ sign \in Seq(Byte)
  /\ Len(sign) = 0 \/ (Len(sign) = 1 /\ sign[1] \in Space \cup {"-", "+"})
  /\ prefix \in Seq(Byte)
  /\ \/ Len(prefix) = 0
     \/ Len(prefix) = 1 /\ prefix[1] = "0"
     \/ Len(prefix) = 2 /\ base = 16 /\ prefix[1] = "0" /\ prefix[2] \in {"x", "X"}
  /\ zeros \in Seq(Byte) /\ (\A j \in 1..Len(zeros) : zeros[j] = "0")
  /\ rest \in Seq(Byte) /\ (\A j \in 1..Len(rest) : rest[j] \in Space)

(* The same for a text put together from such parts. *)
LEMMA ReadBack ==
  ASSUME NEW s, NEW base \in Base, NEW num \in Nat, NEW small,
         NEW bl, NEW sign, NEW prefix, NEW zeros, NEW rest,
         Parts(bl, sign, prefix, zeros, rest, base),
         Placed(s, bl, sign, prefix, zeros, DigitsOf(num, base, small), rest)
  PROVE  /\ strtol(s, base) = IF Len(sign) = 1 /\ sign[1] = "-" THEN ToLong(-ToLong(num))
                              ELSE ToLong(num)
         /\ Len(s) = Len(bl) + Len(sign) + Len(prefix) + Len(zeros)
                     + Len(DigitsOf(num, base, small)) + Len(rest)
<1> DEFINE D == DigitsOf(num, base, small)
           n1 == Len(bl)
           n2 == n1 + Len(sign)
           n3 == n2 + Len(prefix)
           n4 == n3 + Len(zeros)
           n5 == n4 + Len(D)
<1> USE DEF Parts
<1>1. /\ s \in Seq(Byte) /\ Len(s) = n5 + Len(rest)
      /\ StandsAt(s, 0, bl) /\ StandsAt(s, n1, sign) /\ StandsAt(s, n2, prefix)
      /\ StandsAt(s, n3, zeros) /\ StandsAt(s, n4, D) /\ StandsAt(s, n5, rest)
  BY DEF Placed
<1>2. Len(D) \in Nat
  BY DigitsType
<1>3. D = DigitsOf(num, base, small)
  OBVIOUS
<1> HIDE DEF D
<1>4. /\ n1 \in Nat /\ Len(sign) \in Nat /\ Len(prefix) \in Nat /\ Len(zeros) \in Nat
      /\ Len(rest) \in Nat
  OBVIOUS
<1>5. /\ n2 = n1 + Len(sign) /\ n3 = n2 + Len(prefix) /\ n4 = n3 + Len(zeros)
      /\ n4 + Len(D) = n5 /\ Len(bl) = n1
  OBVIOUS
<1> HIDE DEF n1, n2, n3, n4, n5
<1>6. n2 \in Nat /\ n3 \in Nat /\ n4 \in Nat /\ n5 \in Nat /\ n3 <= n4 /\ n5 <= Len(s)
  <2>1. n2 \in Nat
    BY <1>4, <1>5
  <2>2. n3 \in Nat
    BY <1>4, <1>5, <2>1
  <2>3. n4 \in Nat /\ n3 <= n4
    BY <1>4, <1>5, <2>2
  <2>4. n5 \in Nat
    <3>1. n4 + Len(D) \in Nat
      BY <1>2, <2>3
    <3>2. QED
      BY <1>5, <3>1, Zenon
  <2>5. Len(s) = n5 + Len(rest)
    BY <1>1
  <2>6. QED
    BY <1>4, <2>1, <2>2, <2>3, <2>4, <2>5
<1>7. \A j \in 1..n1 : s[j] \in Space
  <2>1. SUFFICES ASSUME NEW j \in 1..n1
                 PROVE  s[j] \in Space
    OBVIOUS
  <2>2. s[0 + j] = bl[j] /\ 0 + j = j
    BY <1>1, <1>5 DEF StandsAt
  <2>3. QED
    BY <1>5, <2>2
<1>8. \/ n2 = n1 /\ ~ (Len(sign) = 1 /\ sign[1] = "-")
      \/ n2 = n1 + 1 /\ s[n1 + 1] \in Space \cup {"-", "+"} /\ Len(sign) = 1 /\ s[n1 + 1] = sign[1]
  <2>1. Len(sign) = 1 => s[n1 + 1] = sign[1]
    BY <1>1 DEF StandsAt
  <2>2. CASE Len(sign) = 0
    BY <1>4, <1>5, <2>2
  <2>3. CASE Len(sign) = 1 /\ sign[1] \in Space \cup {"-", "+"}
    BY <1>5, <2>1, <2>3
  <2>4. QED
    BY <2>2, <2>3
<1>9. \/ n3 = n2
      \/ n3 = n2 + 1 /\ s[n2 + 1] = "0"
      \/ n3 = n2 + 2 /\ base = 16 /\ s[n2 + 1] = "0" /\ s[n2 + 2] \in {"x", "X"}
  <2>1. \A j \in 1..Len(prefix) : s[n2 + j] = prefix[j]
    BY <1>1 DEF StandsAt
  <2>2. CASE Len(prefix) = 0
    BY <1>6, <1>5, <2>2
  <2>3. CASE Len(prefix) = 1 /\ prefix[1] = "0"
    <3>1. s[n2 + 1] = prefix[1]
      BY <2>1, <2>3
    <3>2. QED
      BY <1>5, <2>3, <3>1
  <2>4. CASE Len(prefix) = 2 /\ base = 16 /\ prefix[1] = "0" /\ prefix[2] \in {"x", "X"}
    <3>1. s[n2 + 1] = prefix[1] /\ s[n2 + 2] = prefix[2]
      BY <2>1, <2>4
    <3>2. QED
      BY <1>5, <2>4, <3>1
  <2>5. QED
    BY <2>2, <2>3, <2>4
<1>10. \A j \in (n3 + 1)..n4 : s[j] = "0"
  <2>1. SUFFICES ASSUME NEW j \in (n3 + 1)..n4
                 PROVE  s[j] = "0"
    OBVIOUS
  <2> DEFINE x == j - n3
  <2>2. x \in 1..Len(zeros) /\ n3 + x = j
    BY <1>4, <1>6, <1>5
  <2> HIDE DEF x
  <2>3. s[n3 + x] = zeros[x] /\ zeros[x] = "0"
    BY <1>1, <2>2 DEF StandsAt
  <2>4. QED
    BY <2>2, <2>3
<1>11. n5 = Len(s) \/ s[n5 + 1] \in Space
  <2>1. CASE Len(rest) = 0
    BY <1>1, <1>6, <2>1
  <2>2. CASE Len(rest) # 0
    <3>1. 1 \in 1..Len(rest)
      BY <1>4, <2>2
    <3>2. s[n5 + 1] = rest[1] /\ rest[1] \in Space
      BY <1>1, <3>1 DEF StandsAt
    <3>3. QED
      BY <3>2
  <2>3. QED
    BY <2>1, <2>2
<1>12. strtol(s, base) = IF n2 = n1 + 1 /\ s[n1 + 1] = "-" THEN ToLong(-ToLong(num))
                         ELSE ToLong(num)
  <2>1. n2 = n1 \/ (n2 = n1 + 1 /\ s[n1 + 1] \in Space \cup {"-", "+"})
    BY <1>8
  <2>2. n1 \in Nat
    BY <1>4
  <2>3. Readable(s, base, D, n1, n2, n3, n4, n5)
    BY <1>1, <1>6, <1>5, <1>7, <1>9, <1>10, <1>11, <2>1, <2>2 DEF Readable
  <2>4. QED
    BY <1>1, <1>3, <2>3, ReadAt
<1>13. (n2 = n1 + 1 /\ s[n1 + 1] = "-") <=> (Len(sign) = 1 /\ sign[1] = "-")
  BY <1>4, <1>8
<1>14. Len(s) = Len(bl) + Len(sign) + Len(prefix) + Len(zeros) + Len(D) + Len(rest)
  BY <1>1, <1>2, <1>4, <1>6, <1>5
<1>15. QED
  BY <1>3, <1>12, <1>13, <1>14

LEMMA RepeatIs ==
  ASSUME NEW ch, NEW k \in Nat
  PROVE  Len(Repeat(ch, k)) = k /\ \A j \in 1..k : Repeat(ch, k)[j] = ch
BY DEF Repeat

LEMMA EmptyParts ==
  ASSUME NEW A \in Seq(Byte)
  PROVE  <<>> \o A = A /\ A \o <<>> = A
OBVIOUS

LEMMA ShortIs ==
  ASSUME NEW ch, NEW d
  PROVE  /\ Len(<<ch>>) = 1 /\ <<ch>>[1] = ch /\ Len(<<>>) = 0
         /\ Len(<<ch, d>>) = 2 /\ <<ch, d>>[1] = ch /\ <<ch, d>>[2] = d
OBVIOUS

LEMMA WideIs ==
  ASSUME NEW w \in Int, NEW len \in Nat
  PROVE  Wide(w, len) \in Nat /\ Wide(w, len) + len >= w
BY DEF Wide

(* What fmt_int makes of a number is read back as that number. *)
LEMMA NumberReads ==
  ASSUME NEW num \in Int, NEW base \in Base, NEW w \in Int, NEW fl
  PROVE  /\ strtol(fmt_int(num, base, w, fl), base) = ToLong(num)
         /\ Len(fmt_int(num, base, w, fl)) >= w
<1> DEFINE negative == "SIGNED" \in fl /\ num < 0
           sign == IF negative THEN <<"-">>
                   ELSE IF "PLUS" \in fl THEN <<"+">>
                   ELSE IF "SPACE" \in fl THEN <<" ">> ELSE <<>>
           prefix == IF "ALTERNATE" \notin fl THEN <<>>
                     ELSE IF base = 16 THEN <<"0", IF "SMALL" \in fl THEN "x" ELSE "X">>
                     ELSE IF base = 8 THEN <<"0">> ELSE <<>>
           m == (IF negative THEN -num ELSE num) % WORD
           digits == DigitsOf(m, base, "SMALL" \in fl)
           pad == Wide(w, Len(sign \o prefix \o digits))
           blanks == Repeat(" ", pad)
           zeros == Repeat("0", pad)
           text == fmt_int(num, base, w, fl)
<1>1. /\ sign \in Seq(Byte)
      /\ Len(sign) = 0 \/ (Len(sign) = 1 /\ sign[1] \in Space \cup {"-", "+"})
      /\ negative <=> Len(sign) = 1 /\ sign[1] = "-"
  <2> HIDE DEF negative
  <2>1. <<"-">> \in Seq(Byte) /\ <<"+">> \in Seq(Byte) /\ <<" ">> \in Seq(Byte)
    BY Literals, ShortType, Zenon
  <2>2. <<>> \in Seq(Byte)
    OBVIOUS
  <2>3. " " \in Space /\ " " # "-" /\ "+" # "-"
    BY Zenon DEF Space
  <2>4. CASE negative
    <3>1. sign = <<"-">>
      BY <2>4
    <3>2. QED
      BY <2>1, <2>4, <3>1, ShortIs, Zenon
  <2>5. CASE ~ negative /\ "PLUS" \in fl
    <3>1. sign = <<"+">>
      BY <2>5, Zenon
    <3>2. QED
      BY <2>1, <2>3, <2>5, <3>1, ShortIs, Zenon
  <2>6. CASE ~ negative /\ "PLUS" \notin fl /\ "SPACE" \in fl
    <3>1. sign = <<" ">>
      BY <2>6, Zenon
    <3>2. QED
      BY <2>1, <2>3, <2>6, <3>1, ShortIs, Zenon
  <2>7. CASE ~ negative /\ "PLUS" \notin fl /\ "SPACE" \notin fl
    <3>1. sign = <<>>
      BY <2>7, Zenon
    <3>2. QED
      BY <2>2, <2>7, <3>1
  <2>8. QED
    BY <2>4, <2>5, <2>6, <2>7, Zenon
<1>2. /\ prefix \in Seq(Byte)
      /\ \/ Len(prefix) = 0
         \/ Len(prefix) = 1 /\ prefix[1] = "0"
         \/ Len(prefix) = 2 /\ base = 16 /\ prefix[1] = "0" /\ prefix[2] \in {"x", "X"}
  <2>1. <<"0", "x">> \in Seq(Byte) /\ <<"0", "X">> \in Seq(Byte) /\ <<"0">> \in Seq(Byte)
    BY Literals, ShortType, Zenon
  <2>2. \/ prefix = <<>> \/ prefix = <<"0">>
        \/ base = 16 /\ (prefix = <<"0", "x">> \/ prefix = <<"0", "X">>)
    BY Zenon
  <2> HIDE DEF prefix
  <2>3. CASE prefix = <<>>
    BY <2>3
  <2>4. CASE prefix = <<"0">>
    BY <2>1, <2>4, ShortIs, Zenon
  <2>5. CASE base = 16 /\ prefix = <<"0", "x">>
    BY <2>1, <2>5, ShortIs, Zenon
  <2>6. CASE base = 16 /\ prefix = <<"0", "X">>
    BY <2>1, <2>6, ShortIs, Zenon
  <2>7. QED
    BY <2>2, <2>3, <2>4, <2>5, <2>6
<1>3. m \in Nat /\ ToLong(m) = ToLong(IF negative THEN -num ELSE num)
  BY ModWord, ToLongOfWord
<1>4. negative \in BOOLEAN /\ digits = DigitsOf(m, base, "SMALL" \in fl)
  OBVIOUS
<1>5. text = IF "LEFT" \in fl THEN ((sign \o prefix) \o digits) \o blanks
             ELSE IF "ZEROPAD" \in fl THEN ((sign \o prefix) \o zeros) \o digits
             ELSE ((blanks \o sign) \o prefix) \o digits
  BY Zenon DEF fmt_int
<1>6. digits \in Seq(Byte)
  <2> HIDE DEF m
  <2> QED
    BY <1>3, DigitsType
<1>7. pad = Wide(w, Len((sign \o prefix) \o digits))
  OBVIOUS
<1> HIDE DEF sign, prefix, m, digits
<1>8. Len((sign \o prefix) \o digits) = Len(sign) + Len(prefix) + Len(digits)
      /\ Len(sign) \in Nat /\ Len(prefix) \in Nat /\ Len(digits) \in Nat
  BY <1>1, <1>2, <1>6
<1>9. pad \in Nat /\ pad + (Len(sign) + Len(prefix) + Len(digits)) >= w
  <2> DEFINE len == Len((sign \o prefix) \o digits)
  <2>1. len \in Nat /\ len = Len(sign) + Len(prefix) + Len(digits)
    BY <1>8
  <2> HIDE DEF len
  <2>2. Wide(w, len) \in Nat /\ Wide(w, len) + len >= w
    BY <2>1, WideIs
  <2>3. QED
    BY <1>7, <2>1, <2>2 DEF len
<1> HIDE DEF pad
<1>10. /\ blanks \in Seq(Byte) /\ zeros \in Seq(Byte) /\ Len(blanks) = pad /\ Len(zeros) = pad
       /\ \A j \in 1..Len(blanks) : blanks[j] \in Space
       /\ \A j \in 1..Len(zeros) : zeros[j] = "0"
  <2>1. \A ch \in Byte : Repeat(ch, pad) \in Seq(Byte)
    BY <1>9 DEF Repeat
  <2>2. " " \in Space
    BY Zenon DEF Space
  <2>3. /\ Len(blanks) = pad /\ \A j \in 1..pad : blanks[j] = " "
        /\ Len(zeros) = pad /\ \A j \in 1..pad : zeros[j] = "0"
    BY <1>9, RepeatIs, Zenon
  <2>4. blanks \in Seq(Byte) /\ zeros \in Seq(Byte)
    BY <2>1, Literals, Zenon
  <2> HIDE DEF blanks, zeros
  <2>5. QED
    BY <2>2, <2>3, <2>4, Zenon
<1> HIDE DEF blanks, zeros, text, negative
<1>11. <<>> \in Seq(Byte) /\ Len(<<>>) = 0
       /\ (\A j \in 1..Len(<<>>) : <<>>[j] \in Space) /\ (\A j \in 1..Len(<<>>) : <<>>[j] = "0")
  OBVIOUS
<1> DEFINE value == IF Len(sign) = 1 /\ sign[1] = "-" THEN ToLong(-ToLong(m)) ELSE ToLong(m)
<1>12. value = ToLong(num)
  <2>1. CASE negative
    <3>1. ToLong(m) = ToLong(-num) /\ value = ToLong(-ToLong(m))
      BY <1>1, <1>3, <2>1
    <3>2. ToLong(-ToLong(-num)) = ToLong(-(-num)) /\ -(-num) = num
      BY ToLongNegated
    <3>3. QED
      BY <3>1, <3>2, Zenon
  <2>2. CASE ~ negative
    BY <1>1, <1>3, <2>2
  <2>3. QED
    BY <2>1, <2>2
<1> HIDE DEF value
<1>13. CASE "LEFT" \in fl
  <2> DEFINE none == <<>>
  <2>1. text = TextOf(none, sign, prefix, none, digits, blanks)
    BY <1>1, <1>2, <1>5, <1>6, <1>13, EmptyParts, ConcatType DEF TextOf
  <2>2. none \in Seq(Byte)
    BY <1>11
  <2>3. Placed(text, none, sign, prefix, none, digits, blanks)
    BY <1>1, <1>2, <1>6, <1>10, <2>1, <2>2, TextOfIs
  <2>4. Parts(none, sign, prefix, none, blanks, base)
    BY <1>1, <1>2, <1>10, <1>11 DEF Parts
  <2>5. /\ strtol(text, base) = value
        /\ Len(text) = Len(none) + Len(sign) + Len(prefix) + Len(none) + Len(digits) + Len(blanks)
    BY <1>3, <1>4, <2>3, <2>4, ReadBack DEF value
  <2>6. Len(none) = 0
    OBVIOUS
  <2> HIDE DEF none
  <2>7. QED
    BY <1>8, <1>9, <1>10, <1>12, <2>5, <2>6 DEF text
<1>14. CASE "LEFT" \notin fl /\ "ZEROPAD" \in fl
  <2> DEFINE none == <<>>
  <2>1. text = TextOf(none, sign, prefix, zeros, digits, none)
    <3> DEFINE whole == ((sign \o prefix) \o zeros) \o digits
    <3>1. none \o sign = sign /\ whole \in Seq(Byte)
      BY <1>1, <1>2, <1>6, <1>10, EmptyParts, ConcatType
    <3> HIDE DEF whole
    <3>2. whole \o none = whole
      BY <3>1, EmptyParts
    <3>3. QED
      BY <1>5, <1>14, <3>1, <3>2 DEF TextOf, whole
  <2>2. none \in Seq(Byte)
    BY <1>11
  <2>3. Placed(text, none, sign, prefix, zeros, digits, none)
    BY <1>1, <1>2, <1>6, <1>10, <2>1, <2>2, TextOfIs
  <2>4. Parts(none, sign, prefix, zeros, none, base)
    BY <1>1, <1>2, <1>10, <1>11 DEF Parts
  <2>5. /\ strtol(text, base) = value
        /\ Len(text) = Len(none) + Len(sign) + Len(prefix) + Len(zeros) + Len(digits) + Len(none)
    BY <1>3, <1>4, <2>3, <2>4, ReadBack DEF value
  <2>6. Len(none) = 0
    OBVIOUS
  <2> HIDE DEF none
  <2>7. QED
    BY <1>8, <1>9, <1>10, <1>12, <2>5, <2>6 DEF text
<1>15. CASE "LEFT" \notin fl /\ "ZEROPAD" \notin fl
  <2> DEFINE none == <<>>
  <2>1. text = TextOf(blanks, sign, prefix, none, digits, none)
    BY <1>1, <1>2, <1>5, <1>6, <1>10, <1>15, EmptyParts, ConcatType DEF TextOf
  <2>2. none \in Seq(Byte)
    BY <1>11
  <2>3. Placed(text, blanks, sign, prefix, none, digits, none)
    BY <1>1, <1>2, <1>6, <1>10, <2>1, <2>2, TextOfIs
  <2>4. Parts(blanks, sign, prefix, none, none, base)
    BY <1>1, <1>2, <1>10, <1>11 DEF Parts
  <2>5. /\ strtol(text, base) = value
        /\ Len(text) = Len(blanks) + Len(sign) + Len(prefix) + Len(none) + Len(digits) + Len(none)
    BY <1>3, <1>4, <2>3, <2>4, ReadBack DEF value
  <2>6. Len(none) = 0
    OBVIOUS
  <2> HIDE DEF none
  <2>7. QED
    BY <1>8, <1>9, <1>10, <1>12, <2>5, <2>6 DEF text
<1>16. QED
  BY <1>13, <1>14, <1>15

LEMMA NumberPut ==
  ASSUME NEW num \in Int, NEW base \in Base, NEW fl, width \in Int, PutNumber(num, base, fl)
  PROVE  NumbersReadBack'
<1> DEFINE text == fmt_int(num, base, width, fl)
<1>1. strtol(text, base) = ToLong(num) /\ Len(text) >= width
  BY NumberReads
<1>2. item' = [num |-> num, base |-> base, width |-> width, text |-> text]
  BY DEF PutNumber
<1> HIDE DEF text
<1>3. item'.num = num /\ item'.base = base /\ item'.width = width /\ item'.text = text
  BY <1>2
<1>4. QED
  BY <1>1, <1>3 DEF NumbersReadBack

LEMMA ItemKept == NumbersReadBack /\ item' = item => NumbersReadBack'
BY DEF NumbersReadBack

LEMMA ConversionReads ==
  ASSUME FormatInv, NumbersReadBack, S_CONV
  PROVE  NumbersReadBack'
<1>1. width \in Int
  BY DEF FormatInv
<1>2. CASE ConvNumber
  <2>0. PICK num \in Number :
          \E fl : PutNumber(ArgumentOf(num), BaseOf(c), fl)
    BY <1>2 DEF ConvNumber
  <2>1. PICK fl : PutNumber(ArgumentOf(num), BaseOf(c), fl)
    BY <2>0
  <2>2. ArgumentOf(num) \in Int
    <3>1. num \in Int
      BY VsnprintfAssumption
    <3>2. ToLong(num) \in Int /\ num % WORD \in Int
      BY <3>1, ToLongType, ModWord
    <3>3. QED
      BY <3>1, <3>2 DEF ArgumentOf
  <2>3. BaseOf(c) \in Base
    BY DEF BaseOf, Base
  <2>4. QED
    BY <1>1, <2>1, <2>2, <2>3, NumberPut
<1>3. CASE ConvPointer
  <2>0. PICK num \in Number : \E fl : PutNumber(ToLong(num), 16, fl)
    BY <1>3 DEF ConvPointer
  <2>1. PICK fl : PutNumber(ToLong(num), 16, fl)
    BY <2>0
  <2>2. ToLong(num) \in Int /\ 16 \in Base
    BY VsnprintfAssumption, ToLongType DEF Base
  <2>3. QED
    BY <1>1, <2>1, <2>2, NumberPut
<1>4. CASE ConvString \/ ConvChar \/ ConvOther
  <2>1. item' = item
    BY <1>4, Zenon DEF ConvString, ConvChar, ConvOther
  <2>2. QED
    BY <2>1, ItemKept
<1>5. QED
  BY <1>2, <1>3, <1>4 DEF S_CONV

LEMMA NumbersNext ==
  ConsoleInv /\ NumbersReadBack /\ [ConsoleNext]_consoleVars => NumbersReadBack'
<1>1. SUFFICES ASSUME FormatInv, NumbersReadBack, [ConsoleNext]_consoleVars
               PROVE  NumbersReadBack'
  BY DEF ConsoleInv
<1>2. CASE format
  <2>1. S_DEFAULT \/ S_FLAGS \/ S_WIDTH \/ S_PRECIS \/ S_LENGTH \/ Return => item' = item
    BY DEF S_DEFAULT, S_FLAGS, S_WIDTH, S_PRECIS, S_LENGTH, Return
  <2>2. QED
    BY <1>1, <1>2, <2>1, ConversionReads, ItemKept DEF format, FormatStep
<1>3. CASE print
  BY <1>3 DEF print, printk_end, NumbersReadBack
<1>4. ASSUME NEW call \in Call, LOG_P(call[1], call[2])
      PROVE  NumbersReadBack'
  <2>1. item' = item
    BY <1>4 DEF LOG_P, printk
  <2>2. QED
    BY <1>1, <2>1, ItemKept
<1>5. CASE load_msg \/ init_port \/ put \/ in_shell \/ hlt \/ chip \/ run_shell
  <2>1. UNCHANGED formatVars
    BY <1>5 DEF load_msg, init_port, put, in_shell, hlt, chip, run_shell
  <2>2. QED
    BY <1>1, <2>1, ItemKept DEF formatVars
<1>6. ASSUME NEW l \in Line, keyboard(l)
      PROVE  NumbersReadBack'
  BY <1>1, <1>6, ItemKept DEF keyboard, formatVars
<1>7. CASE UNCHANGED consoleVars
  BY <1>1, <1>7, ItemKept DEF consoleVars, formatVars
<1>8. QED
  BY <1>1, <1>2, <1>3, <1>4, <1>5, <1>6, <1>7 DEF ConsoleNext, kmain

(* The text vsnprintf prints for a number is read back by strtol as that   *)
(* number, as far as a long holds it, in every base, with every flag and   *)
(* width, and is as wide as the format asks.                               *)
THEOREM NumbersCorrect == ConsoleSpec => []NumbersReadBack
<1>1. ConsoleInit => NumbersReadBack
  BY DEF ConsoleInit, FormatInit, NumbersReadBack
<1>2. QED
  BY <1>1, NumbersNext, ConsoleInvariant, PTL DEF ConsoleSpec
=============================================================================
