----------------------------- MODULE Fat12Proofs ----------------------------
(***************************************************************************)
(* Reading files whose clusters are in the place fat12_read takes them to  *)
(* be in: the FAT is followed, the bytes delivered are the file's, and an  *)
(* open file is a stream of bytes, for every geometry of the disk.         *)
(***************************************************************************)
EXTENDS Fat12File, ListTheorems

-----------------------------------------------------------------------------
(* The number of clusters that e bytes from the beginning of one take. *)
Ceiling(e, b) == (e \div b) + IF e % b # 0 THEN 1 ELSE 0

LEMMA CeilingIs ==
  ASSUME NEW b \in Nat \ {0}, NEW e \in Nat
  PROVE  /\ Ceiling(e, b) \in Nat
         /\ e > 0 => Ceiling(e, b) > 0
         /\ e > 0 => e = b * (Ceiling(e, b) - 1) + IF e % b # 0 THEN e % b ELSE b
         /\ \A k \in Nat : e <= b * k => Ceiling(e, b) <= k
<1> DEFINE m == e \div b
           r == e % b
<1>1. e = b * m + r /\ m \in Nat /\ r \in 0..(b - 1) /\ b * m \in Nat
  BY QuotientRemainder, Multiples
<1>2. Ceiling(e, b) = m + IF r # 0 THEN 1 ELSE 0
  BY DEF Ceiling
<1> HIDE DEF m, r
<1>3. Ceiling(e, b) \in Nat
  BY <1>1, <1>2
<1>4. m = 0 => b * m = 0
  OBVIOUS
<1>5. e > 0 => Ceiling(e, b) > 0
  BY <1>1, <1>2, <1>4
<1>6. ASSUME e > 0 PROVE e = b * (Ceiling(e, b) - 1) + IF r # 0 THEN r ELSE b
  <2>1. CASE r # 0
    BY <1>1, <1>2, <2>1
  <2>2. CASE r = 0
    <3>1. PICK j \in Nat : m = j + 1 /\ Ceiling(e, b) - 1 = j
      <4>1. m - 1 \in Nat /\ m = (m - 1) + 1 /\ Ceiling(e, b) - 1 = m - 1
        BY <1>1, <1>2, <1>4, <1>6, <2>2
      <4> QED
        BY <4>1
    <3>2. b * (j + 1) = b * j + b
      BY Multiples
    <3> QED
      BY <1>1, <2>2, <3>1, <3>2
  <2> QED
    BY <1>1, <2>1, <2>2
<1>7. ASSUME NEW k \in Nat, e <= b * k PROVE Ceiling(e, b) <= k
  <2>1. ~ k < m
    BY <1>1, <1>7, Multiples
  <2>2. r # 0 => k # m
    BY <1>1, <1>7
  <2> QED
    BY <1>1, <1>2, <2>1, <2>2
<1> QED
  BY <1>3, <1>5, <1>6, <1>7 DEF r

-----------------------------------------------------------------------------
(* A read of s bytes at the offset o of a file in clusters of b bytes: the *)
(* clusters it takes, what round n copies of its cluster, and the bytes    *)
(* delivered before it.                                                    *)
Rounds(o, s, b) == Ceiling((o % b) + s, b)
CopyStart(o, n, b) == IF n = 0 THEN o % b ELSE 0
CopyEnd(o, s, n, b) ==
  IF n = Rounds(o, s, b) - 1 /\ (o + s) % b # 0 THEN (o + s) % b ELSE b
Delivered(o, s, n, b) ==
  IF n = Rounds(o, s, b) THEN s ELSE IF n = 0 THEN 0 ELSE b * n - (o % b)

(* A read that begins and ends in the file takes clusters of the file. *)
LEMMA RoundsInFile ==
  ASSUME NEW b \in Nat \ {0}, NEW o \in Nat, NEW s \in Nat \ {0}, NEW k \in Nat,
         o + s <= b * k
  PROVE  /\ o \div b \in Nat /\ Rounds(o, s, b) \in Nat \ {0}
         /\ (o \div b) + Rounds(o, s, b) <= k
<1> DEFINE q == o \div b
           r == o % b
           e == r + s
<1>1. o = b * q + r /\ q \in Nat /\ r \in 0..(b - 1) /\ b * q \in Nat
  BY QuotientRemainder, Multiples
<1>2. Rounds(o, s, b) = Ceiling(e, b)
  BY DEF Rounds
<1> HIDE DEF q, r
<1>3. e \in Nat /\ e > 0
  BY <1>1
<1>4. k - q \in Nat
  BY <1>1, Multiples
<1>5. b * k = b * q + b * (k - q)
  BY <1>1, <1>4
<1>6. e <= b * (k - q)
  BY <1>1, <1>5
<1> HIDE DEF e
<1>7. Ceiling(e, b) \in Nat /\ Ceiling(e, b) > 0 /\ Ceiling(e, b) <= k - q
  BY <1>3, <1>4, <1>6, CeilingIs
<1> QED
  BY <1>1, <1>2, <1>4, <1>7 DEF q

(* A round copies a part of its cluster, from the place in the file where  *)
(* the round before it ended.                                              *)
LEMMA RoundCopies ==
  ASSUME NEW b \in Nat \ {0}, NEW o \in Nat, NEW s \in Nat \ {0}, NEW n \in Nat,
         n < Rounds(o, s, b)
  PROVE  /\ CopyStart(o, n, b) \in 0..(b - 1) /\ CopyEnd(o, s, n, b) \in 1..b
         /\ CopyStart(o, n, b) < CopyEnd(o, s, n, b)
         /\ Delivered(o, s, n, b) \in Nat
         /\ o + Delivered(o, s, n, b) = b * ((o \div b) + n) + CopyStart(o, n, b)
         /\ Delivered(o, s, n + 1, b) = Delivered(o, s, n, b)
                                        + (CopyEnd(o, s, n, b) - CopyStart(o, n, b))
         /\ Delivered(o, s, n + 1, b) <= s
<1> DEFINE q == o \div b
           r == o % b
           e == r + s
           N == Rounds(o, s, b)
           t == IF e % b # 0 THEN e % b ELSE b
<1>1. o = b * q + r /\ q \in Nat /\ r \in 0..(b - 1) /\ b * q \in Nat
  BY QuotientRemainder, Multiples
<1>2. N = Ceiling(e, b)
  BY DEF Rounds
<1>3. e \in Nat /\ e > 0
  <2> HIDE DEF r
  <2> QED
    BY <1>1
<1>4. N \in Nat /\ e = b * (N - 1) + t
  <2> HIDE DEF e, N
  <2> QED
    BY <1>2, <1>3, CeilingIs
<1>5. t \in 1..b
  <2> HIDE DEF e
  <2> QED
    BY <1>3, QuotientRemainder
<1>6. (o + s) % b = e % b
  <2>1. e = b * (e \div b) + (e % b) /\ e \div b \in Nat /\ e % b \in 0..(b - 1)
    <3> HIDE DEF e
    <3> QED
      BY <1>3, QuotientRemainder
  <2>2. PICK m \in Nat, v \in 0..(b - 1) : e = b * m + v /\ v = e % b
    BY <2>1
  <2>3. o + s = b * q + e
    <3> HIDE DEF q, r
    <3> QED
      BY <1>1
  <2> HIDE DEF e, q
  <2>4. o + s = b * (q + m) + v /\ q + m \in Nat
    BY <1>1, <2>2, <2>3
  <2>5. (b * (q + m) + v) % b = v
    BY <2>4, QuotientIs
  <2> QED
    BY <2>2, <2>4, <2>5
<1>7. CopyEnd(o, s, n, b) = IF n = N - 1 THEN t ELSE b
  BY <1>6 DEF CopyEnd
<1>8. CopyStart(o, n, b) = IF n = 0 THEN r ELSE 0
  BY DEF CopyStart
<1>9. /\ Delivered(o, s, n, b) = IF n = 0 THEN 0 ELSE b * n - r
      /\ Delivered(o, s, n + 1, b) = IF n = N - 1 THEN s ELSE b * (n + 1) - r
  BY <1>4 DEF Delivered
<1>10. e = r + s
  OBVIOUS
<1> HIDE DEF q, r, e, N, t
<1>11. n < N
  BY DEF N
<1>12. b * n \in Nat /\ b * (n + 1) = b * n + b /\ (n > 0 => b <= b * n)
       /\ b * (q + n) = b * q + b * n
  <2>1. n > 0 => b * 1 <= b * n
    BY Multiples
  <2> QED
    BY <1>1, <2>1
<1>13. n = N - 1 => b * (N - 1) = b * n
  OBVIOUS
<1>14. n # N - 1 => b * (n + 1) <= b * (N - 1)
  BY <1>4, <1>11, Multiples
<1>15. b * (N - 1) \in Nat
  BY <1>4, <1>11
<1>16. CASE n = N - 1
  <2>1. n = 0 => e = t
    BY <1>4, <1>5, <1>16
  <2>2. e = b * n + t
    BY <1>4, <1>16
  <2>3. CopyEnd(o, s, n, b) = t /\ Delivered(o, s, n + 1, b) = s /\ s = e - r
    BY <1>1, <1>7, <1>9, <1>10, <1>16
  <2>4. CASE n = 0
    <3>1. CopyStart(o, n, b) = r /\ Delivered(o, s, n, b) = 0 /\ r < t
      BY <1>1, <1>8, <1>9, <1>10, <2>1, <2>4
    <3>2. b * (q + n) + r = o
      BY <1>1, <2>4
    <3> QED
      BY <1>1, <1>5, <2>1, <2>3, <2>4, <3>1, <3>2 DEF q
  <2>5. CASE n # 0
    <3>1. CopyStart(o, n, b) = 0 /\ Delivered(o, s, n, b) = b * n - r
      BY <1>8, <1>9, <2>5
    <3>2. b * (q + n) = b * q + b * n /\ b * n - r \in Nat
      BY <1>1, <1>12, <2>5
    <3>3. o + Delivered(o, s, n, b) = b * ((o \div b) + n) + 0
      BY <1>1, <3>1, <3>2 DEF q
    <3> QED
      BY <1>1, <1>5, <2>2, <2>3, <3>1, <3>2, <3>3
  <2> QED
    BY <2>4, <2>5
<1>17. CASE n # N - 1
  <2>1. b * (n + 1) - r <= s
    BY <1>1, <1>4, <1>5, <1>10, <1>12, <1>14, <1>15, <1>17
  <2>2. n = 0 => b * n = 0
    OBVIOUS
  <2>3. CopyEnd(o, s, n, b) = b /\ Delivered(o, s, n + 1, b) = b * n + b - r
    BY <1>1, <1>7, <1>9, <1>12, <1>17
  <2>4. CASE n = 0
    BY <1>1, <1>8, <1>9, <1>12, <2>1, <2>2, <2>3, <2>4 DEF q
  <2>5. CASE n # 0
    BY <1>1, <1>8, <1>9, <1>12, <2>1, <2>3, <2>5 DEF q
  <2> QED
    BY <2>4, <2>5
<1> QED
  BY <1>16, <1>17

-----------------------------------------------------------------------------
LEMMA IntervalEnds ==
  ASSUME NEW m \in Nat, NEW k \in Nat, 1..m = 1..k
  PROVE  m = k
<1>1. m > 0 => m \in 1..m
  OBVIOUS
<1>2. k > 0 => k \in 1..k
  OBVIOUS
<1>3. (m > 0 => m \in 1..k) /\ (k > 0 => k \in 1..m)
  BY <1>1, <1>2
<1> QED
  BY <1>3

(* A function on 1..n is a sequence of that length. *)
LEMMA FunctionIsSeq ==
  ASSUME NEW S, NEW n \in Nat, NEW f \in [1..n -> S]
  PROVE  f \in Seq(S) /\ Len(f) = n
<1>1. f \in Seq(S)
  BY SeqDef, Zenon
<1>2. DOMAIN f = 1..Len(f) /\ DOMAIN f = 1..n /\ Len(f) \in Nat
  BY <1>1, LenProperties
<1> QED
  BY <1>1, <1>2, IntervalEnds

(* A sequence that agrees with a piece of another one is that piece. *)
LEMMA PieceIs ==
  ASSUME NEW S, NEW c \in Seq(S), NEW d \in Seq(S), NEW o \in Nat,
         o + Len(d) <= Len(c), \A i \in 1..Len(d) : d[i] = c[o + i]
  PROVE  d = SubSeq(c, o + 1, o + Len(d))
<1> DEFINE m == o + 1
           n == o + Len(d)
           e == SubSeq(c, m, n)
<1>1. Len(d) \in Nat /\ Len(c) \in Nat
  BY LenProperties
<1>2. m \in 1..(Len(c) + 1) /\ n \in (m - 1)..Len(c) /\ n - m + 1 = Len(d)
  BY <1>1
<1>3. m \in Int /\ n \in Int
  BY <1>1
<1> HIDE DEF m, n
<1>4. /\ e \in Seq(S)
      /\ Len(e) = IF m <= n THEN n - m + 1 ELSE 0
      /\ \A i \in 1..(n - m + 1) : e[i] = c[m + i - 1]
  BY <1>2, SubSeqProperties
<1> HIDE DEF e
<1>5. Len(e) = Len(d)
  BY <1>1, <1>2, <1>3, <1>4
<1>6. ASSUME NEW i \in 1..Len(d) PROVE d[i] = e[i]
  <2>1. e[i] = c[m + i - 1] /\ m + i - 1 = o + i
    BY <1>2, <1>4, <1>6 DEF m
  <2> QED
    BY <2>1
<1>7. d = e
  BY <1>4, <1>5, <1>6, SeqEqual
<1> QED
  BY <1>7 DEF e, m, n

-----------------------------------------------------------------------------
(* The disk as the formatting tool leaves it. *)
DiskOK ==
  /\ chain \in Seq(2..last_cluster) /\ Injective(chain) /\ Len(chain) < last_cluster
  /\ file_size \in Nat
  /\ chain = <<>> => file_size = 0
  /\ chain # <<>> => /\ bytes_per_cluster * (Len(chain) - 1) < file_size
                     /\ file_size <= bytes_per_cluster * Len(chain)
  /\ fat_table = Packed(chain)

LEMMA ClusterSize == bytes_per_cluster \in Nat \ {0}
  BY Fat12Assumption DEF bytes_per_cluster

(* The clusters of the file are on the disk, each once. *)
LEMMA ChainFacts ==
  ASSUME DiskOK
  PROVE  /\ Len(chain) \in Nat /\ \A j \in 1..Len(chain) : chain[j] \in 2..last_cluster
         /\ \A i, j \in 1..Len(chain) : chain[i] = chain[j] => i = j
<1>1. chain \in Seq(2..last_cluster) /\ Injective(chain)
  BY DEF DiskOK
<1>2. Len(chain) \in Nat /\ \A j \in 1..Len(chain) : chain[j] \in 2..last_cluster
  BY <1>1, ElementOfSeq, LenProperties
<1> QED
  BY <1>1, <1>2 DEF Injective

LEMMA ChainShort ==
  ASSUME DiskOK
  PROVE  Len(chain) < 4079
<1>1. PICK n \in Nat : n = Len(chain)
  BY ChainFacts
<1>2. n < last_cluster /\ last_cluster \in 2..4079
  BY <1>1, Fat12Assumption DEF DiskOK
<1>3. n < 4079
  BY <1>2
<1> QED
  BY <1>1, <1>3

(* A member of a sequence is found in it. *)
LEMMA PlaceIs ==
  ASSUME NEW s, NEW j \in 1..Len(s)
  PROVE  PlaceOf(s, s[j]) \in 1..Len(s) /\ s[PlaceOf(s, s[j])] = s[j]
<1>1. \E k \in 1..Len(s) : s[k] = s[j]
  OBVIOUS
<1> QED
  BY <1>1, Zenon DEF PlaceOf

(* The entry of a cluster of the file leads to its next one. *)
LEMMA EntryOf ==
  ASSUME DiskOK, NEW j \in 1..Len(chain)
  PROVE  FatEntry(chain, chain[j]) = IF j = Len(chain) THEN 4095 ELSE chain[j + 1]
<1>1. chain[j] \in 2..last_cluster /\ last_cluster \in Nat
  BY ChainFacts, Fat12Assumption
<1>2. PlaceOf(chain, chain[j]) = j
  BY PlaceIs, ChainFacts
<1>3. ~ (chain[j] < 2) /\ \E i \in 1..Len(chain) : chain[i] = chain[j]
  BY <1>1
<1> QED
  BY <1>2, <1>3 DEF FatEntry

(* An entry of the FAT has 12 bits. *)
TwelveBits == 0..4095

LEMMA EntryRange ==
  ASSUME DiskOK, NEW c \in Nat
  PROVE  FatEntry(chain, c) \in TwelveBits
<1>1. CASE c < 2
  BY <1>1 DEF FatEntry, TwelveBits
<1>2. CASE c >= 2 /\ \E i \in 1..Len(chain) : chain[i] = c
  <2>1. PICK j \in 1..Len(chain) : chain[j] = c
    BY <1>2
  <2>2. j # Len(chain) => chain[j + 1] \in 2..last_cluster
    BY ChainFacts
  <2>3. FatEntry(chain, c) = IF j = Len(chain) THEN 4095 ELSE chain[j + 1]
    BY <2>1, EntryOf
  <2>4. last_cluster \in Nat /\ last_cluster <= 4079
    BY Fat12Assumption
  <2>5. CASE j = Len(chain)
    BY <2>3, <2>5 DEF TwelveBits
  <2>6. CASE j # Len(chain)
    <3> DEFINE v == chain[j + 1]
    <3>1. FatEntry(chain, c) = v /\ v \in 2..last_cluster
      BY <2>2, <2>3, <2>6
    <3> HIDE DEF v
    <3>2. v \in TwelveBits
      BY <2>4, <3>1 DEF TwelveBits
    <3> QED
      BY <3>1, <3>2
  <2> QED
    BY <2>5, <2>6
<1>3. CASE c >= 2 /\ ~ \E i \in 1..Len(chain) : chain[i] = c
  BY <1>3 DEF FatEntry, TwelveBits
<1> QED
  BY <1>1, <1>2, <1>3

(* Two entries in three bytes, taken apart again. *)
LowTwelve(b0, b1) == (b0 + 256 * b1) % 4096
HighTwelve(b0, b1) == (b0 + 256 * b1) \div 16

LEMMA TwoEntries ==
  ASSUME NEW x \in TwelveBits, NEW y \in TwelveBits
  PROVE  /\ LowTwelve(PackedByte(x, y, 0), PackedByte(x, y, 1)) = x
         /\ HighTwelve(PackedByte(x, y, 1), PackedByte(x, y, 2)) = y
<1> DEFINE a == x \div 256
           b == x % 256
           c == y \div 16
           d == y % 16
<1>1. PackedByte(x, y, 0) = b /\ PackedByte(x, y, 1) = a + 16 * d /\ PackedByte(x, y, 2) = c
  BY DEF PackedByte
<1>2. a \in 0..15 /\ b \in 0..255 /\ c \in 0..255 /\ d \in 0..15 /\ x = 256 * a + b /\ y = 16 * c + d
  BY DEF TwelveBits
<1> HIDE DEF a, b, c, d
<1>3. b + 256 * (a + 16 * d) = 4096 * d + x /\ (a + 16 * d) + 256 * c = 16 * y + a
  BY <1>2
<1>4. (4096 * d + x) % 4096 = x
  BY <1>2, QuotientIs DEF TwelveBits
<1>5. (16 * y + a) \div 16 = y
  BY <1>2, QuotientIs DEF TwelveBits
<1> QED
  BY <1>1, <1>3, <1>4, <1>5 DEF LowTwelve, HighTwelve

(* _fat12_get_fentry unpacks what was packed. *)
LEMMA EntryDecoded ==
  ASSUME DiskOK, NEW c \in 0..last_cluster
  PROVE  _fat12_get_fentry(c) = {FatEntry(chain, c)}
<1> DEFINE top == 3 * (last_cluster \div 2) + 2
<1>1. PICK h \in Nat : (c = 2 * h \/ c = 2 * h + 1) /\ 3 * h + 2 <= top
  <2>1. c \div 2 \in Nat /\ (c = 2 * (c \div 2) \/ c = 2 * (c \div 2) + 1)
        /\ c \div 2 <= last_cluster \div 2
    BY Fat12Assumption
  <2>2. last_cluster \div 2 \in Nat
    BY Fat12Assumption
  <2> QED
    BY <2>1, <2>2
<1> DEFINE x == FatEntry(chain, 2 * h)
           y == FatEntry(chain, 2 * h + 1)
<1>2. x \in TwelveBits /\ y \in TwelveBits
  <2>1. 2 * h \in Nat /\ 2 * h + 1 \in Nat
    OBVIOUS
  <2> QED
    BY <2>1, EntryRange, Zenon
<1>3. /\ DOMAIN fat_table = 0..top
      /\ \A k \in 0..top : fat_table[k] = PackedByte(FatEntry(chain, 2 * (k \div 3)),
                                                     FatEntry(chain, 2 * (k \div 3) + 1), k % 3)
  BY DEF DiskOK, Packed
<1>4. 3 * h \in 0..top /\ 3 * h + 1 \in 0..top /\ 3 * h + 2 \in 0..top
  BY <1>1, Fat12Assumption
<1> HIDE DEF top
<1>5. fat_table[3 * h] = PackedByte(x, y, 0)
  <2>1. (3 * h) \div 3 = h /\ (3 * h) % 3 = 0
    OBVIOUS
  <2> QED
    BY <1>3, <1>4, <2>1
<1>6. fat_table[3 * h + 1] = PackedByte(x, y, 1)
  <2>1. (3 * h + 1) \div 3 = h /\ (3 * h + 1) % 3 = 1
    OBVIOUS
  <2> QED
    BY <1>3, <1>4, <2>1
<1>7. fat_table[3 * h + 2] = PackedByte(x, y, 2)
  <2>1. (3 * h + 2) \div 3 = h /\ (3 * h + 2) % 3 = 2
    OBVIOUS
  <2> QED
    BY <1>3, <1>4, <2>1
<1> DEFINE o == (c * 3) \div 2
<1>8. _fat12_get_fentry(c) =
        IF o + 1 \notin 0..top THEN Foreign
        ELSE IF c % 2 = 1 THEN {HighTwelve(fat_table[o], fat_table[o + 1])}
        ELSE {LowTwelve(fat_table[o], fat_table[o + 1])}
  BY <1>3 DEF _fat12_get_fentry, LowTwelve, HighTwelve
<1>9. CASE c = 2 * h
  <2>1. o = 3 * h /\ c % 2 # 1
    BY <1>9
  <2> HIDE DEF o, x, y
  <2>2. _fat12_get_fentry(c) = {LowTwelve(fat_table[3 * h], fat_table[3 * h + 1])}
    BY <1>4, <1>8, <2>1
  <2>3. _fat12_get_fentry(c) = {LowTwelve(PackedByte(x, y, 0), PackedByte(x, y, 1))}
    BY <1>5, <1>6, <2>2
  <2>4. LowTwelve(PackedByte(x, y, 0), PackedByte(x, y, 1)) = x
    BY <1>2, TwoEntries, Zenon
  <2>5. _fat12_get_fentry(c) = {x}
    BY <2>3, <2>4
  <2> QED
    BY <1>9, <2>5 DEF x
<1>10. CASE c = 2 * h + 1
  <2>1. o = 3 * h + 1 /\ c % 2 = 1 /\ (3 * h + 1) + 1 = 3 * h + 2
    BY <1>10
  <2> HIDE DEF o, x, y
  <2>2. _fat12_get_fentry(c) = {HighTwelve(fat_table[3 * h + 1], fat_table[3 * h + 2])}
    BY <1>4, <1>8, <2>1
  <2>3. _fat12_get_fentry(c) = {HighTwelve(PackedByte(x, y, 1), PackedByte(x, y, 2))}
    BY <1>6, <1>7, <2>2
  <2>4. HighTwelve(PackedByte(x, y, 1), PackedByte(x, y, 2)) = y
    BY <1>2, TwoEntries, Zenon
  <2>5. _fat12_get_fentry(c) = {y}
    BY <2>3, <2>4
  <2> QED
    BY <1>10, <2>5 DEF y
<1> QED
  BY <1>1, <1>9, <1>10

-----------------------------------------------------------------------------
(* The state of a call.  A read that may begin has offset and size in a    *)
(* word, hence no sum wraps around; it takes clusters of the file only,    *)
(* hence it never meets the end-of-chain mark and never copies a negative  *)
(* length.                                                                 *)
FileTypeOK ==
  /\ node \in {"file", "dir", "null"}
  /\ pc \in {"idle", "call", "loop"}
  /\ f_offset \in Nat /\ offs \in Nat /\ asked \in Nat /\ reply \in Int

InCall == pc \in {"call", "loop"} => offs = f_offset /\ offs + asked < WORD /\ BeginsRight

AtCall == pc = "call" => size = asked /\ buf = <<>>

InLoop ==
  pc = "loop" =>
    /\ node = "file" /\ asked > 0 /\ offs < file_size
    /\ size = IF asked < file_size - offs THEN asked ELSE file_size - offs
    /\ clusters_to_read = Rounds(offs, size, bytes_per_cluster)
    /\ cluster_count \in 0..clusters_to_read

FileInv == DiskOK /\ FileTypeOK /\ InCall /\ AtCall /\ InLoop /\ FollowsChain

(* The bytes copied so far are the file's. *)
BytesInv ==
  pc = "loop" =>
    /\ buf \in Seq(Int)
    /\ Len(buf) = Delivered(offs, size, cluster_count, bytes_per_cluster)
    /\ \A i \in 1..Len(buf) : buf[i] = ByteOf(offs + i - 1)

(* A cluster is a sector, and the device reads every block it has. *)
WholeClusters == sectors_per_cluster = 1 /\ BlockErrors = 0

(* Every file is smaller than half the range of a word, so that its size   *)
(* is a positive ssize_t.                                                  *)
DiskFitsWord == bytes_per_cluster * (last_cluster - 1) < WORD \div 2

LEMMA DiskKept ==
  ASSUME DiskOK, UNCHANGED diskVars
  PROVE  DiskOK'
  BY DEF DiskOK, diskVars, Packed, FatEntry, PlaceOf, Injective

LEMMA FileInit ==
  ASSUME Fat12Init
  PROVE  FileInv
<1>1. PICK n \in 0..(last_cluster - 1) : chain \in [1..n -> 2..last_cluster] /\ Injective(chain)
  BY DEF Fat12Init
<1>2. n \in Nat /\ n < last_cluster
  BY Fat12Assumption
<1>3. chain \in Seq(2..last_cluster) /\ Len(chain) = n
  BY <1>1, <1>2, FunctionIsSeq
<1>4. chain # <<>> => n > 0
  BY <1>2, <1>3, EmptySeq
<1>5. file_size \in IF chain = <<>> THEN {0}
                    ELSE (n - 1) * bytes_per_cluster + 1 .. n * bytes_per_cluster
  BY <1>3 DEF Fat12Init
<1>6. DiskOK
  <2>1. fat_table = Packed(chain)
    BY DEF Fat12Init
  <2>2. CASE chain = <<>>
    BY <1>1, <1>2, <1>3, <1>5, <2>1, <2>2 DEF DiskOK
  <2>3. CASE chain # <<>>
    <3>1. n - 1 \in Nat
      BY <1>2, <1>4, <2>3
    <3>2. bytes_per_cluster * (n - 1) \in Nat /\ bytes_per_cluster * n \in Nat
      BY <1>2, <3>1, ClusterSize, Multiples
    <3>3. file_size \in (bytes_per_cluster * (n - 1) + 1)..(bytes_per_cluster * n)
      BY <1>2, <1>5, <2>3, ClusterSize
    <3>4. /\ file_size \in Nat
          /\ bytes_per_cluster * (n - 1) < file_size /\ file_size <= bytes_per_cluster * n
      BY <3>2, <3>3
    <3> QED
      BY <1>1, <1>2, <1>3, <2>1, <2>3, <3>4 DEF DiskOK
  <2> QED
    BY <2>2, <2>3
<1> QED
  BY <1>6 DEF Fat12Init, FileInv, FileTypeOK, InCall, AtCall, InLoop, FollowsChain

LEMMA FileCall ==
  ASSUME FileInv, NEW n \in Request, Right(n), vfs_read(n)
  PROVE  FileInv'
<1>1. DiskOK'
  BY DiskKept DEF FileInv, vfs_read
<1>2. n \in Nat
  BY Fat12Assumption
<1>3. FileTypeOK'
  BY <1>2 DEF FileInv, FileTypeOK, vfs_read, diskVars
<1>4. InCall' /\ AtCall' /\ InLoop' /\ FollowsChain'
  <2>1. BeginsRight'
    BY DEF Right, BeginsRight, vfs_read, diskVars
  <2> QED
    BY <2>1 DEF InCall, AtCall, InLoop, FollowsChain, Right, FitsWord, vfs_read
<1> QED
  BY <1>1, <1>3, <1>4 DEF FileInv

LEMMA SumIsNat ==
  ASSUME NEW a \in Nat, NEW c \in Int, c > 0
  PROVE  a + c \in Nat /\ a + c > 0
  OBVIOUS

(* A return leaves a signed result and an offset. *)
LEMMA ReturnTypes ==
  ASSUME NEW r \in Int, f_offset \in Nat, Return(r)
  PROVE  pc' = "idle" /\ f_offset' \in Nat /\ reply' \in Int
<1>1. WORD \in Nat /\ WORD > 0
  BY Fat12Assumption
<1>2. reply' \in Int
  BY <1>1 DEF Return
<1>3. ASSUME reply' > 0 PROVE (f_offset + reply') % WORD \in Nat
  <2> DEFINE v == f_offset + reply'
  <2>1. f_offset \in Nat /\ reply' \in Int /\ reply' > 0
    BY <1>2, <1>3
  <2>2. v \in Nat
    BY <2>1, SumIsNat, Zenon
  <2> HIDE DEF v
  <2>3. v % WORD \in Nat
    BY <1>1, <2>2
  <2> QED
    BY <2>3 DEF v
<1> QED
  BY <1>2, <1>3 DEF Return

LEMMA FileReturn ==
  ASSUME FileInv, NEW r \in Int, Return(r), UNCHANGED <<diskVars, asked, loopVars, buf>>
  PROVE  FileInv'
<1>1. DiskOK'
  BY DiskKept DEF FileInv
<1>2. pc' = "idle" /\ f_offset' \in Nat /\ reply' \in Int
  BY ReturnTypes DEF FileInv, FileTypeOK
<1>3. FileTypeOK'
  BY <1>2 DEF FileInv, FileTypeOK, diskVars, loopVars
<1>4. InCall' /\ AtCall' /\ InLoop' /\ FollowsChain'
  BY <1>2 DEF InCall, AtCall, InLoop, FollowsChain
<1> QED
  BY <1>1, <1>3, <1>4 DEF FileInv

(* The end of a read that begins in the file. *)
LEMMA ReadEnds ==
  ASSUME DiskOK, NEW o \in Nat, o < file_size, NEW s \in Nat \ {0}, s <= file_size - o
  PROVE  /\ o \div bytes_per_cluster \in Nat
         /\ Rounds(o, s, bytes_per_cluster) \in Nat \ {0}
         /\ (o \div bytes_per_cluster) + Rounds(o, s, bytes_per_cluster) <= Len(chain)
<1>1. file_size \in Nat /\ Len(chain) \in Nat /\ file_size <= bytes_per_cluster * Len(chain)
  BY ChainFacts DEF DiskOK
<1>2. bytes_per_cluster * Len(chain) \in Nat
  BY <1>1, ClusterSize, Multiples
<1>3. o + s <= bytes_per_cluster * Len(chain)
  BY <1>1, <1>2
<1> QED
  BY <1>1, <1>3, ClusterSize, RoundsInFile

LEMMA FileBegin ==
  ASSUME FileInv, fat12_read
  PROVE  FileInv' /\ clusters_to_read' \in Nat \ {0} /\ cluster_count' = 0
<1> DEFINE b == bytes_per_cluster
           q == offs \div b
           rest == IF (offs + size) % WORD > file_size THEN file_size - offs ELSE size
           end == ((offs % b) + rest) % WORD
<1>1. /\ pc = "call" /\ node = "file" /\ size > 0 /\ offs < file_size
      /\ pc' = "loop" /\ size' = rest
      /\ curr_cluster' = (chain[1] + q) % 65536
      /\ clusters_to_read' = ((end \div b) + IF end % b # 0 THEN 1 ELSE 0) % 65536
      /\ cluster_count' = 0
      /\ UNCHANGED <<diskVars, f_offset, asked, reply, offs, buf>>
  BY DEF fat12_read
<1>2. /\ DiskOK /\ FileTypeOK /\ offs = f_offset /\ offs + asked < WORD /\ BeginsRight
      /\ size = asked
  BY <1>1 DEF FileInv, InCall, AtCall
<1>3. WORD \in Nat /\ WORD > 0 /\ b \in Nat \ {0} /\ file_size \in Nat
      /\ offs \in Nat /\ asked \in Nat /\ asked > 0 /\ last_cluster \in 2..4079
  BY <1>1, <1>2, ClusterSize, Fat12Assumption DEF DiskOK, FileTypeOK
<1>4. offs % b \in Nat /\ offs % b <= offs /\ q \in Nat
  <2> HIDE DEF b
  <2>1. offs = b * (offs \div b) + (offs % b) /\ offs \div b \in Nat /\ offs % b \in 0..(b - 1)
    <3>1. b \in Nat \ {0} /\ offs \in Nat
      BY <1>3
    <3> QED
      BY <3>1, QuotientRemainder
  <2>2. b * (offs \div b) \in Nat
    BY <1>3, <2>1
  <2> QED
    BY <1>3, <2>1, <2>2
<1> HIDE DEF b
<1>5. (offs + size) % WORD = offs + asked
  BY <1>2, <1>3
<1>6. rest = (IF asked < file_size - offs THEN asked ELSE file_size - offs)
      /\ rest \in Nat \ {0} /\ rest <= asked /\ rest <= file_size - offs
  BY <1>1, <1>2, <1>3, <1>5
<1>7. end = (offs % b) + rest
  <2>1. (offs % b) + rest \in Nat /\ (offs % b) + rest < WORD
    <3> HIDE DEF rest
    <3> QED
      BY <1>2, <1>3, <1>4, <1>6
  <2> HIDE DEF rest
  <2> QED
    BY <1>3, <2>1
<1> HIDE DEF rest, end
<1>8. q \in Nat /\ Rounds(offs, rest, b) \in Nat \ {0} /\ q + Rounds(offs, rest, b) <= Len(chain)
  <2>1. /\ DiskOK /\ offs \in Nat /\ offs < file_size
        /\ rest \in Nat \ {0} /\ rest <= file_size - offs
    BY <1>1, <1>2, <1>3, <1>6
  <2>2. /\ offs \div bytes_per_cluster \in Nat
        /\ Rounds(offs, rest, bytes_per_cluster) \in Nat \ {0}
        /\ (offs \div bytes_per_cluster) + Rounds(offs, rest, bytes_per_cluster) <= Len(chain)
    BY <2>1, ReadEnds
  <2> QED
    BY <2>2 DEF q, b
<1> HIDE DEF q
<1>9. Len(chain) \in Nat /\ Len(chain) < last_cluster
  BY <1>2, ChainFacts DEF DiskOK
<1>10. clusters_to_read' = Rounds(offs, rest, b)
  <2>1. Rounds(offs, rest, b) = (end \div b) + IF end % b # 0 THEN 1 ELSE 0
    BY <1>7 DEF Rounds, Ceiling
  <2> DEFINE N == Rounds(offs, rest, b)
  <2>2. clusters_to_read' = N % 65536 /\ N \in Nat /\ N < 65536
    <3>1. clusters_to_read' = N % 65536
      BY <1>1, <2>1
    <3> HIDE DEF N
    <3>2. N \in Nat /\ q \in Nat /\ q + N <= Len(chain)
      BY <1>8 DEF N
    <3>3. Len(chain) \in Nat /\ Len(chain) < 4079
      BY <1>2, <1>9, ChainShort
    <3>4. N < 65536
      BY <3>2, <3>3
    <3> QED
      BY <3>1, <3>2, <3>4
  <2> HIDE DEF N
  <2>3. clusters_to_read' = N
    BY <2>2
  <2> QED
    BY <2>3 DEF N
<1>11. q + 1 \in 1..Len(chain) /\ curr_cluster' = chain[q + 1]
  <2>1. q + 1 \in 1..Len(chain) /\ chain[q + 1] \in 2..last_cluster
    BY <1>2, <1>8, <1>9, ChainFacts
  <2>2. chain[q + 1] = chain[1] + q
    BY <1>1, <1>2 DEF BeginsRight, q, b
  <2> DEFINE v == chain[q + 1]
  <2>3. curr_cluster' = v % 65536 /\ v \in 2..last_cluster
    BY <1>1, <2>1, <2>2
  <2> HIDE DEF v
  <2>4. v \in Nat /\ v < 65536
    <3>1. last_cluster \in 2..4079
      BY <1>3
    <3> QED
      BY <2>3, <3>1
  <2>5. curr_cluster' = v
    BY <2>3, <2>4
  <2> QED
    BY <2>1, <2>5 DEF v
<1>12. DiskOK'
  BY <1>1, <1>2, DiskKept
<1>13. FileTypeOK'
  BY <1>1, <1>2 DEF FileTypeOK, diskVars
<1>14. InCall' /\ AtCall'
  <2>1. BeginsRight'
    BY <1>1, <1>2 DEF BeginsRight, diskVars
  <2> QED
    BY <1>1, <1>2, <2>1 DEF InCall, AtCall
<1>15. InLoop'
  BY <1>1, <1>3, <1>6, <1>8, <1>10 DEF InLoop, diskVars, b
<1>16. FollowsChain'
  <2>1. (offs \div bytes_per_cluster + cluster_count + 1)' = q + 1
    BY <1>1, <1>8 DEF q, b
  <2> QED
    BY <1>1, <1>9, <1>11, <2>1 DEF FollowsChain, diskVars
<1> QED
  BY <1>1, <1>8, <1>10, <1>12, <1>13, <1>14, <1>15, <1>16 DEF FileInv

(* In the loop: the size is cut at the end of the file, and the rest of    *)
(* the read lies in the chain.                                             *)
LEMMA LoopFacts ==
  ASSUME FileInv, pc = "loop"
  PROVE  /\ size \in Nat \ {0} /\ size <= asked /\ size <= file_size - offs
         /\ offs + size < WORD /\ (offs + size) % WORD = offs + size
         /\ offs \div bytes_per_cluster \in Nat
         /\ clusters_to_read \in Nat \ {0} /\ cluster_count \in 0..clusters_to_read
         /\ (offs \div bytes_per_cluster) + clusters_to_read <= Len(chain)
<1>1. /\ DiskOK /\ offs \in Nat /\ asked \in Nat /\ file_size \in Nat
      /\ asked > 0 /\ offs < file_size /\ offs + asked < WORD
      /\ size = IF asked < file_size - offs THEN asked ELSE file_size - offs
      /\ clusters_to_read = Rounds(offs, size, bytes_per_cluster)
      /\ cluster_count \in 0..clusters_to_read
  BY DEF FileInv, FileTypeOK, InCall, InLoop, DiskOK
<1>2. WORD \in Nat
  BY Fat12Assumption
<1>3. size \in Nat \ {0} /\ size <= asked /\ size <= file_size - offs /\ offs + size < WORD
  BY <1>1, <1>2
<1>4. (offs + size) % WORD = offs + size
  <2> DEFINE v == offs + size
  <2>1. v \in Nat /\ v < WORD
    BY <1>1, <1>3
  <2> HIDE DEF v
  <2>2. v % WORD = v
    BY <1>2, <2>1
  <2> QED
    BY <2>2 DEF v
<1>5. /\ offs \div bytes_per_cluster \in Nat
      /\ Rounds(offs, size, bytes_per_cluster) \in Nat \ {0}
      /\ (offs \div bytes_per_cluster) + Rounds(offs, size, bytes_per_cluster) <= Len(chain)
  BY <1>1, <1>3, ReadEnds
<1> QED
  BY <1>1, <1>3, <1>4, <1>5

(* One round, in the terms of the lemmas above: it reads a cluster of the  *)
(* file and goes on to the cluster that the FAT names.                     *)
LEMMA RoundIs ==
  ASSUME FileInv, read_cluster
  PROVE  LET b == bytes_per_cluster
             cs == CopyStart(offs, cluster_count, b)
             ce == CopyEnd(offs, size, cluster_count, b)
             i == (offs \div b) + cluster_count + 1
         IN  /\ cluster_count < clusters_to_read /\ cluster_count \in Nat
             /\ clusters_to_read = Rounds(offs, size, b)
             /\ i \in 1..Len(chain) /\ curr_cluster = chain[i]
             /\ pc = "loop" /\ pc' = "loop"
             /\ read_buf' \in blkread(_fat12_cluster_to_lba(chain[i]))
             /\ buf' = buf \o [j \in 1..(ce - cs) |-> read_buf'[cs + j - 1]]
             /\ cluster_count' = cluster_count + 1
             /\ curr_cluster' = FatEntry(chain, chain[i])
             /\ UNCHANGED <<diskVars, f_offset, asked, reply, offs, size, clusters_to_read>>
<1> DEFINE b == bytes_per_cluster
           q == offs \div b
           cs == CopyStart(offs, cluster_count, b)
           ce == CopyEnd(offs, size, cluster_count, b)
           i == q + cluster_count + 1
<1>1. pc = "loop" /\ cluster_count < clusters_to_read
      /\ UNCHANGED <<diskVars, f_offset, asked, reply, offs, size, clusters_to_read>>
  BY DEF read_cluster
<1>2. /\ DiskOK /\ offs \in Nat /\ clusters_to_read = Rounds(offs, size, b) /\ FollowsChain
      /\ b \in Nat \ {0}
  BY <1>1, ClusterSize DEF FileInv, FileTypeOK, InLoop
<1>3. /\ size \in Nat \ {0} /\ (offs + size) % WORD = offs + size
      /\ q \in Nat /\ clusters_to_read \in Nat /\ cluster_count \in Nat
      /\ q + clusters_to_read <= Len(chain)
  BY <1>1, LoopFacts
<1> HIDE DEF b, q
<1>4. i \in 1..Len(chain) /\ chain[i] \in 2..last_cluster
  <2>1. Len(chain) \in Nat
    BY <1>2, ChainFacts
  <2>2. i \in 1..Len(chain)
    BY <1>1, <1>3, <2>1
  <2> HIDE DEF i
  <2> QED
    BY <1>2, <2>2, ChainFacts
<1>5. curr_cluster = chain[i]
  BY <1>1, <1>2 DEF FollowsChain, q, b
<1>6. cs < ce /\ cs \in Int /\ ce \in Int
  BY <1>1, <1>2, <1>3, RoundCopies
<1>7. /\ cs = (IF cluster_count = 0 THEN offs % bytes_per_cluster ELSE 0)
      /\ ce = (IF cluster_count = clusters_to_read - 1
                  /\ ((offs + size) % WORD) % bytes_per_cluster # 0
               THEN ((offs + size) % WORD) % bytes_per_cluster ELSE bytes_per_cluster)
  BY <1>2, <1>3 DEF CopyStart, CopyEnd, b
<1> HIDE DEF cs, ce, i
<1>8. /\ pc' = IF ce < cs THEN "crash" ELSE "loop"
      /\ read_buf' \in blkread(_fat12_cluster_to_lba(curr_cluster))
      /\ buf' = buf \o [j \in 1..(ce - cs) |-> read_buf'[cs + j - 1]]
      /\ \E fentry \in _fat12_get_fentry(curr_cluster) :
           IF curr_cluster >= EOC_MIN
           THEN cluster_count' = clusters_to_read /\ UNCHANGED curr_cluster
           ELSE cluster_count' = cluster_count + 1 /\ curr_cluster' = fentry
  BY <1>7 DEF read_cluster
<1>9. ~ (curr_cluster >= EOC_MIN) /\ curr_cluster \in 0..last_cluster
  <2>1. PICK c \in 2..last_cluster : c = curr_cluster
    BY <1>4, <1>5
  <2>2. last_cluster \in 2..4079
    BY Fat12Assumption
  <2>3. ~ (c >= EOC_MIN) /\ c \in 0..last_cluster
    BY <2>2 DEF EOC_MIN
  <2> QED
    BY <2>1, <2>3
<1>10. _fat12_get_fentry(curr_cluster) = {FatEntry(chain, curr_cluster)}
  BY <1>2, <1>9, EntryDecoded
<1>11. cluster_count' = cluster_count + 1 /\ curr_cluster' = FatEntry(chain, chain[i])
  BY <1>5, <1>8, <1>9, <1>10
<1>12. pc' = "loop"
  BY <1>6, <1>8
<1> QED
  BY <1>1, <1>2, <1>3, <1>4, <1>5, <1>8, <1>11, <1>12 DEF cs, ce, i, q, b

LEMMA FileRound ==
  ASSUME FileInv, read_cluster
  PROVE  FileInv'
<1> DEFINE q == offs \div bytes_per_cluster
           i == q + cluster_count + 1
<1>1. /\ cluster_count < clusters_to_read /\ cluster_count \in Nat
      /\ i \in 1..Len(chain)
      /\ pc = "loop" /\ pc' = "loop"
      /\ cluster_count' = cluster_count + 1
      /\ curr_cluster' = FatEntry(chain, chain[i])
      /\ UNCHANGED <<diskVars, f_offset, asked, reply, offs, size, clusters_to_read>>
  BY RoundIs, Zenon
<1>2. DiskOK /\ FileTypeOK /\ InCall /\ AtCall /\ InLoop
  BY DEF FileInv
<1>3. q \in Nat /\ clusters_to_read \in Nat /\ q + clusters_to_read <= Len(chain)
  BY <1>1, LoopFacts
<1>4. DiskOK'
  BY <1>1, <1>2, DiskKept
<1>5. FileTypeOK'
  BY <1>1, <1>2 DEF FileTypeOK, diskVars
<1>6. InCall' /\ AtCall'
  <2>1. BeginsRight'
    BY <1>1, <1>2 DEF InCall, BeginsRight, diskVars
  <2> QED
    BY <1>1, <1>2, <2>1 DEF InCall, AtCall
<1>7. InLoop'
  BY <1>1, <1>2, <1>3 DEF InLoop, diskVars
<1>8. FollowsChain'
  <2> SUFFICES ASSUME cluster_count + 1 < clusters_to_read
               PROVE  i + 1 <= Len(chain) /\ curr_cluster' = chain[i + 1]
    <3>1. (offs \div bytes_per_cluster + cluster_count + 1)' = i + 1
      <4> HIDE DEF q
      <4>1. q' = q
        BY <1>1 DEF q
      <4> QED
        BY <1>1, <1>3, <4>1 DEF q
    <3> HIDE DEF i
    <3> QED
      BY <1>1, <3>1 DEF FollowsChain, diskVars
  <2> HIDE DEF q
  <2>1. Len(chain) \in Nat
    BY <1>2, ChainFacts
  <2>2. i < Len(chain) /\ i \in Nat
    BY <1>1, <1>3, <2>1
  <2>3. FatEntry(chain, chain[i]) = IF i = Len(chain) THEN 4095 ELSE chain[i + 1]
    <3> HIDE DEF i
    <3> QED
      BY <1>1, <1>2, EntryOf
  <2> HIDE DEF i
  <2>4. i # Len(chain) /\ i + 1 <= Len(chain)
    BY <2>1, <2>2
  <2> QED
    BY <1>1, <2>3, <2>4
<1> QED
  BY <1>4, <1>5, <1>6, <1>7, <1>8 DEF FileInv

LEMMA FileSeek ==
  ASSUME FileInv, NEW o \in Position, seek(o)
  PROVE  FileInv'
<1>1. DiskOK'
  BY DiskKept DEF FileInv, seek
<1>2. FileTypeOK'
  BY Fat12Assumption DEF FileInv, FileTypeOK, seek, diskVars, loopVars
<1>3. InCall' /\ AtCall' /\ InLoop' /\ FollowsChain'
  BY DEF InCall, AtCall, InLoop, FollowsChain, seek
<1> QED
  BY <1>1, <1>2, <1>3 DEF FileInv

LEMMA FileStutter ==
  ASSUME FileInv, UNCHANGED fatVars
  PROVE  FileInv'
<1>1. DiskOK'
  BY DiskKept DEF FileInv, fatVars
<1>2. FileTypeOK' /\ AtCall' /\ InLoop'
  BY DEF FileInv, FileTypeOK, AtCall, InLoop, fatVars, diskVars, loopVars
<1>3. InCall' /\ FollowsChain'
  BY DEF FileInv, InCall, BeginsRight, FollowsChain, fatVars, diskVars, loopVars
<1> QED
  BY <1>1, <1>2, <1>3 DEF FileInv

(* The returns, and what they return. *)
LEMMA NothingReturns ==
  ASSUME fat12_read_nothing
  PROVE  /\ pc = "call" /\ UNCHANGED <<diskVars, asked, loopVars, buf>>
         /\ \/ Return(-1)
            \/ node = "file" /\ size > 0 /\ offs >= file_size /\ Return(0)
  BY DEF fat12_read_nothing

LEMMA FileNext ==
  ASSUME FileInv, [NextWhen(Right)]_fatVars
  PROVE  FileInv'
<1>1. ASSUME NEW n \in Request, Right(n) /\ vfs_read(n) PROVE FileInv'
  BY <1>1, FileCall
<1>2. CASE fat12_read_nothing
  BY <1>2, NothingReturns, FileReturn
<1>3. CASE fat12_read
  BY <1>3, FileBegin
<1>4. CASE read_cluster
  BY <1>4, FileRound
<1>5. CASE read_return
  <2>1. size \in Int
    BY <1>5, LoopFacts DEF read_return
  <2> QED
    BY <1>5, <2>1, FileReturn DEF read_return
<1>6. ASSUME NEW o \in Position, seek(o) PROVE FileInv'
  BY <1>6, FileSeek
<1>7. CASE UNCHANGED fatVars
  BY <1>7, FileStutter
<1> QED
  BY <1>1, <1>2, <1>3, <1>4, <1>5, <1>6, <1>7 DEF NextWhen

(* The invariant of reads that fat12_read is correct for.  No copy has a   *)
(* negative length.                                                        *)
THEOREM FileInvariant == Fat12Safe => []FileInv
<1>1. Fat12Init => FileInv
  BY FileInit
<1>2. FileInv /\ [NextWhen(Right)]_fatVars => FileInv'
  BY FileNext
<1> QED
  BY <1>1, <1>2, PTL DEF Fat12Safe

(* fat12_read decodes the packed FAT and follows it as far as the read     *)
(* reaches, on every disk: any number of sectors to a cluster, and with    *)
(* blocks that cannot be read.                                             *)
THEOREM ChainFollowed == Fat12Safe => []FollowsChain
<1>1. FileInv => FollowsChain
  BY DEF FileInv
<1> QED
  BY <1>1, FileInvariant, PTL

-----------------------------------------------------------------------------
(* The bytes.  A block that is read fills the read buffer. *)
LEMMA ClusterRead ==
  ASSUME WholeClusters, NEW c \in 2..last_cluster, NEW k \in 0..(bytes_per_cluster - 1),
         NEW rb \in blkread(_fat12_cluster_to_lba(c))
  PROVE  /\ rb[k] = (data_area_start + (c - 2) * sectors_per_cluster) * bytes_per_sector + k
         /\ rb[k] \in Int
<1> DEFINE lba == data_area_start + (c - 2) * sectors_per_cluster
<1>1. /\ sectors_per_cluster = 1 /\ BlockErrors = 0 /\ last_cluster \in Nat
      /\ data_area_start \in Nat /\ bytes_per_sector \in Nat
  BY Fat12Assumption DEF WholeClusters
<1>2. _fat12_cluster_to_lba(c) = lba
  BY <1>1 DEF _fat12_cluster_to_lba
<1>3. lba \in Nat /\ ~ (lba >= num_blocks)
  BY <1>1 DEF num_blocks
<1> HIDE DEF lba
<1>4. rb = [j \in 0..(bytes_per_cluster - 1) |->
             IF j < bytes_per_sector THEN lba * bytes_per_sector + j ELSE read_buf[j]]
  BY <1>1, <1>2, <1>3 DEF blkread
<1>5. bytes_per_cluster = bytes_per_sector
  BY <1>1 DEF bytes_per_cluster
<1>6. rb[k] = lba * bytes_per_sector + k
  BY <1>1, <1>4, <1>5
<1>7. lba * bytes_per_sector + k \in Int
  BY <1>1, <1>3, <1>5
<1> QED
  BY <1>6, <1>7 DEF lba

(* The bytes of a round are those of the file at its place. *)
LEMMA RoundBytes ==
  ASSUME WholeClusters, NEW m \in Nat, m + 1 \in 1..Len(chain), DiskOK,
         NEW rb \in blkread(_fat12_cluster_to_lba(chain[m + 1])),
         NEW k \in 0..(bytes_per_cluster - 1)
  PROVE  rb[k] = ByteOf(bytes_per_cluster * m + k) /\ rb[k] \in Int
<1>1. chain[m + 1] \in 2..last_cluster
  BY ChainFacts
<1>2. /\ (bytes_per_cluster * m + k) \div bytes_per_cluster = m
      /\ (bytes_per_cluster * m + k) % bytes_per_cluster = k
  BY ClusterSize, QuotientIs
<1>3. ByteOf(bytes_per_cluster * m + k)
        = (data_area_start + (chain[m + 1] - 2) * sectors_per_cluster) * bytes_per_sector + k
  BY <1>2 DEF ByteOf
<1>4. /\ rb[k] = (data_area_start + (chain[m + 1] - 2) * sectors_per_cluster) * bytes_per_sector + k
      /\ rb[k] \in Int
  BY <1>1, ClusterRead
<1> QED
  BY <1>3, <1>4

LEMMA BytesRound ==
  ASSUME WholeClusters, FileInv, BytesInv, read_cluster
  PROVE  BytesInv'
<1> DEFINE b == bytes_per_cluster
           n == cluster_count
           q == offs \div b
           cs == CopyStart(offs, n, b)
           ce == CopyEnd(offs, size, n, b)
           k == ce - cs
           d == Delivered(offs, size, n, b)
           new == [j \in 1..k |-> read_buf'[cs + j - 1]]
<1>1. /\ n < Rounds(offs, size, b) /\ n \in Nat
      /\ q + n + 1 \in 1..Len(chain)
      /\ pc = "loop" /\ pc' = "loop"
      /\ read_buf' \in blkread(_fat12_cluster_to_lba(chain[q + n + 1]))
      /\ buf' = buf \o new
      /\ cluster_count' = n + 1
      /\ UNCHANGED <<diskVars, f_offset, asked, reply, offs, size, clusters_to_read>>
  BY RoundIs
<1>2. DiskOK /\ offs \in Nat /\ b \in Nat \ {0}
  BY ClusterSize DEF FileInv, FileTypeOK
<1>3. size \in Nat \ {0} /\ q \in Nat
  BY <1>1, LoopFacts
<1>4. buf \in Seq(Int) /\ Len(buf) = d /\ \A i \in 1..Len(buf) : buf[i] = ByteOf(offs + i - 1)
  BY <1>1 DEF BytesInv
<1> HIDE DEF b
<1>5. /\ cs \in 0..(b - 1) /\ ce \in 1..b /\ cs < ce
      /\ d \in Nat /\ offs + d = b * (q + n) + cs
      /\ Delivered(offs, size, n + 1, b) = d + k
  <2>1. offs \in Nat /\ b \in Nat \ {0} /\ size \in Nat \ {0} /\ n \in Nat
        /\ n < Rounds(offs, size, b)
    BY <1>1, <1>2, <1>3
  <2>2. /\ CopyStart(offs, n, b) \in 0..(b - 1) /\ CopyEnd(offs, size, n, b) \in 1..b
        /\ CopyStart(offs, n, b) < CopyEnd(offs, size, n, b)
        /\ Delivered(offs, size, n, b) \in Nat
        /\ offs + Delivered(offs, size, n, b) = b * ((offs \div b) + n) + CopyStart(offs, n, b)
        /\ Delivered(offs, size, n + 1, b) = Delivered(offs, size, n, b)
                                        + (CopyEnd(offs, size, n, b) - CopyStart(offs, n, b))
    <3> HIDE DEF n
    <3> QED
      BY <2>1, RoundCopies, ZenonT(60)
  <2> QED
    BY <2>2
<1> HIDE DEF q, cs, ce, d
<1>6. k \in Nat /\ \A j \in 1..k : cs + j - 1 \in 0..(b - 1)
  BY <1>2, <1>5
<1> HIDE DEF k
<1>7. PICK m \in Nat : m = q + n
  BY <1>1, <1>3
<1>8. ASSUME NEW j \in 1..k
      PROVE  new[j] = ByteOf(offs + d + j - 1) /\ new[j] \in Int
  <2>1. new[j] = read_buf'[cs + j - 1]
    OBVIOUS
  <2>2. PICK x \in 0..(b - 1) : x = cs + j - 1
    BY <1>6
  <2>3. read_buf'[x] = ByteOf(b * m + x) /\ read_buf'[x] \in Int
    <3>1. m + 1 \in 1..Len(chain) /\ read_buf' \in blkread(_fat12_cluster_to_lba(chain[m + 1]))
      BY <1>1, <1>7
    <3> QED
      BY <1>2, <2>2, <3>1, RoundBytes DEF b
  <2>4. b * m + x = offs + d + j - 1
    <3>1. b * m \in Nat /\ offs + d = b * m + cs /\ cs \in Nat /\ j \in Nat
      BY <1>2, <1>5, <1>6, <1>7
    <3> QED
      BY <1>2, <1>5, <2>2, <3>1
  <2> QED
    BY <2>1, <2>2, <2>3, <2>4
<1>9. new \in [1..k -> Int]
  <2>1. \A j \in 1..k : read_buf'[cs + j - 1] \in Int
    BY <1>8
  <2> QED
    BY <2>1
<1> HIDE DEF new
<1>10. new \in Seq(Int) /\ Len(new) = k
  BY <1>6, <1>9, FunctionIsSeq
<1>11. /\ buf' \in Seq(Int) /\ Len(buf') = d + k
       /\ \A i \in 1..(d + k) : buf'[i] = IF i <= d THEN buf[i] ELSE new[i - d]
  BY <1>1, <1>4, <1>10, ConcatProperties
<1>12. ASSUME NEW i \in 1..(d + k)
       PROVE  buf'[i] = ByteOf(offs + i - 1)
  <2>1. CASE i <= d
    <3>1. i \in 1..Len(buf)
      BY <1>4, <1>5, <1>6, <2>1
    <3> QED
      BY <1>4, <1>11, <2>1, <3>1
  <2>2. CASE ~ (i <= d)
    <3>1. PICK j \in 1..k : j = i - d
      BY <1>5, <1>6, <2>2
    <3>2. offs + d + j - 1 = offs + i - 1
      BY <1>2, <1>5, <1>6, <3>1
    <3>3. buf'[i] = new[j]
      BY <1>11, <2>2, <3>1
    <3> QED
      BY <1>8, <3>2, <3>3
  <2> QED
    BY <2>1, <2>2
<1>13. Len(buf') = Delivered(offs', size', cluster_count', bytes_per_cluster)
  BY <1>1, <1>5, <1>11 DEF b
<1>14. ASSUME NEW i \in 1..Len(buf') PROVE (buf[i] = ByteOf(offs + i - 1))'
  BY <1>1, <1>11, <1>12 DEF ByteOf, diskVars
<1> QED
  BY <1>11, <1>13, <1>14 DEF BytesInv

(* The file as a sequence of bytes. *)
LEMMA ContentIs ==
  ASSUME DiskOK
  PROVE  Content \in Seq(Int) /\ Len(Content) = file_size
<1>1. file_size \in Nat /\ Len(chain) \in Nat
      /\ (file_size > 0 => file_size <= bytes_per_cluster * Len(chain))
  BY ChainFacts DEF DiskOK
<1>2. ASSUME NEW i \in 0..(file_size - 1) PROVE ByteOf(i) \in Int
  <2>1. i \in Nat /\ i < bytes_per_cluster * Len(chain) /\ bytes_per_cluster \in Nat \ {0}
        /\ bytes_per_cluster * Len(chain) \in Nat
    BY <1>1, ClusterSize, Multiples
  <2> DEFINE q == i \div bytes_per_cluster
             r == i % bytes_per_cluster
  <2>2. i = bytes_per_cluster * q + r /\ q \in Nat /\ r \in 0..(bytes_per_cluster - 1)
    BY <2>1, QuotientRemainder
  <2> HIDE DEF q, r
  <2>3. q < Len(chain)
    <3>1. Len(chain) <= q => bytes_per_cluster * Len(chain) <= bytes_per_cluster * q
      BY <1>1, <2>1, <2>2, Multiples
    <3>2. bytes_per_cluster * q \in Nat
      BY <2>1, <2>2, Multiples
    <3> QED
      BY <1>1, <2>1, <2>2, <3>1, <3>2
  <2>4. chain[q + 1] \in 2..last_cluster
    <3>1. q + 1 \in 1..Len(chain)
      BY <1>1, <2>2, <2>3
    <3> QED
      BY <3>1, ChainFacts
  <2>5. ByteOf(i) = (data_area_start + (chain[q + 1] - 2) * sectors_per_cluster) * bytes_per_sector + r
    BY DEF ByteOf, q, r
  <2>6. PICK c \in Int : c = chain[q + 1]
    BY <2>4
  <2>7. /\ data_area_start \in Int /\ sectors_per_cluster \in Int /\ bytes_per_sector \in Int
        /\ r \in Int
    BY <2>1, <2>2, Fat12Assumption
  <2>8. (data_area_start + (c - 2) * sectors_per_cluster) * bytes_per_sector + r \in Int
    BY <2>7
  <2> QED
    BY <2>5, <2>6, <2>8
<1>3. Content \in [1..file_size -> Int]
  <2>1. ASSUME NEW i \in 1..file_size PROVE ByteOf(i - 1) \in Int
    BY <1>1, <1>2
  <2> QED
    BY <2>1 DEF Content
<1> QED
  BY <1>1, <1>3, FunctionIsSeq

(* The buffer at the end of the loop. *)
LEMMA LoopDelivers ==
  ASSUME FileInv, BytesInv, pc = "loop", cluster_count = clusters_to_read
  PROVE  buf = SubSeq(Content, offs + 1, offs + size)
<1>1. /\ DiskOK /\ offs \in Nat /\ clusters_to_read = Rounds(offs, size, bytes_per_cluster)
      /\ file_size \in Nat
  BY DEF FileInv, FileTypeOK, InLoop, DiskOK
<1>2. size \in Nat /\ size <= file_size - offs
  BY LoopFacts
<1>3. /\ buf \in Seq(Int) /\ Len(buf) = size
      /\ \A i \in 1..Len(buf) : buf[i] = ByteOf(offs + i - 1)
  BY <1>1 DEF BytesInv, Delivered
<1>4. Content \in Seq(Int) /\ Len(Content) = file_size
  BY <1>1, ContentIs
<1>5. ASSUME NEW i \in 1..Len(buf) PROVE buf[i] = Content[offs + i]
  <2>1. buf[i] = ByteOf(offs + i - 1)
    BY <1>3
  <2>2. PICK j \in 1..file_size : j = offs + i
    BY <1>1, <1>2, <1>3
  <2>3. Content[j] = ByteOf(j - 1)
    BY DEF Content
  <2>4. j - 1 = offs + i - 1
    BY <1>1, <1>2, <1>3, <2>2
  <2> QED
    BY <2>1, <2>2, <2>3, <2>4
<1>6. offs + Len(buf) <= Len(Content)
  BY <1>1, <1>2, <1>3, <1>4
<1>7. buf = SubSeq(Content, offs + 1, offs + Len(buf))
  BY <1>1, <1>3, <1>4, <1>5, <1>6, PieceIs
<1> QED
  BY <1>3, <1>7

LEMMA BytesBegin ==
  ASSUME FileInv, fat12_read
  PROVE  BytesInv'
<1>1. FileInv' /\ clusters_to_read' \in Nat \ {0} /\ cluster_count' = 0
  BY FileBegin
<1>2. /\ buf' = <<>> /\ pc' = "loop"
  BY DEF FileInv, AtCall, fat12_read
<1>3. Rounds(offs, size, bytes_per_cluster)' # 0
  <2>1. (clusters_to_read = Rounds(offs, size, bytes_per_cluster))'
    BY <1>1, <1>2 DEF FileInv, InLoop
  <2> QED
    BY <1>1, <2>1
<1>4. Delivered(offs, size, cluster_count, bytes_per_cluster)' = 0
  BY <1>1, <1>3 DEF Delivered
<1>5. buf' \in Seq(Int) /\ Len(buf') = 0
  BY <1>2, EmptySeq
<1> QED
  BY <1>4, <1>5 DEF BytesInv

(* What the end of the loop returns, as a signed number. *)
LEMMA ReturnedSize ==
  ASSUME FileInv, read_return
  PROVE  /\ pc = "loop" /\ pc' = "idle" /\ cluster_count = clusters_to_read
         /\ UNCHANGED <<diskVars, asked, loopVars, buf>>
         /\ reply' = (IF size >= WORD \div 2 THEN size - WORD ELSE size)
         /\ reply' \in Int /\ (reply' > 0 => reply' = size)
         /\ reply' > 0 => f_offset' = f_offset + size
<1>1. /\ pc = "loop" /\ pc' = "idle" /\ cluster_count = clusters_to_read
      /\ UNCHANGED <<diskVars, asked, loopVars, buf>>
      /\ reply' = (IF size >= WORD \div 2 THEN size - WORD ELSE size)
      /\ f_offset' = IF reply' > 0 THEN (f_offset + reply') % WORD ELSE f_offset
  BY DEF read_return, Return
<1>2. size \in Nat \ {0} /\ offs + size < WORD /\ (offs + size) % WORD = offs + size
  BY <1>1, LoopFacts
<1>3. offs \in Nat /\ offs = f_offset /\ WORD \in Nat
  BY <1>1, Fat12Assumption DEF FileInv, FileTypeOK, InCall
<1>4. size < WORD
  BY <1>2, <1>3
<1>5. reply' \in Int /\ (reply' > 0 => reply' = size)
  BY <1>1, <1>2, <1>3, <1>4
<1>6. reply' > 0 => f_offset' = f_offset + size
  BY <1>1, <1>2, <1>3, <1>5
<1> QED
  BY <1>1, <1>5, <1>6

ReadInv == FileInv /\ BytesInv /\ ReadsFileBytes

LEMMA ReadInit ==
  ASSUME Fat12Init
  PROVE  ReadInv
<1>1. FileInv
  BY FileInit
<1>2. BytesInv /\ ReadsFileBytes
  BY DEF Fat12Init, BytesInv, ReadsFileBytes
<1> QED
  BY <1>1, <1>2 DEF ReadInv

LEMMA ReadNext ==
  ASSUME WholeClusters, ReadInv, [NextWhen(Right)]_fatVars
  PROVE  ReadInv'
<1>1. FileInv /\ BytesInv /\ ReadsFileBytes
  BY DEF ReadInv
<1>2. FileInv'
  BY <1>1, FileNext
<1> SUFFICES BytesInv' /\ ReadsFileBytes'
  BY <1>2 DEF ReadInv
<1>3. ASSUME NEW n \in Request, vfs_read(n) PROVE BytesInv' /\ ReadsFileBytes'
  BY <1>3 DEF vfs_read, BytesInv, ReadsFileBytes
<1>4. CASE fat12_read_nothing
  <2>1. pc' = "idle" /\ ~ (reply' > 0)
    <3>1. WORD \in Nat
      BY Fat12Assumption
    <3>2. Return(-1) \/ Return(0)
      BY <1>4, NothingReturns
    <3> QED
      BY <3>1, <3>2 DEF Return
  <2> QED
    BY <2>1 DEF BytesInv, ReadsFileBytes
<1>5. CASE fat12_read
  <2>1. BytesInv'
    BY <1>1, <1>5, BytesBegin
  <2>2. pc' = "loop"
    BY <1>5 DEF fat12_read
  <2> QED
    BY <2>1, <2>2 DEF ReadsFileBytes
<1>6. CASE read_cluster
  <2>1. BytesInv'
    BY <1>1, <1>6, BytesRound
  <2>2. pc' = "loop"
    BY <1>1, <1>6, RoundIs
  <2> QED
    BY <2>1, <2>2 DEF ReadsFileBytes
<1>7. CASE read_return
  <2>1. /\ pc = "loop" /\ pc' = "idle" /\ cluster_count = clusters_to_read
        /\ UNCHANGED <<diskVars, asked, loopVars, buf>>
        /\ (reply' > 0 => reply' = size)
    BY <1>1, <1>7, ReturnedSize
  <2>2. buf = SubSeq(Content, offs + 1, offs + size)
    BY <1>1, <2>1, LoopDelivers
  <2>3. size = IF asked < file_size - offs THEN asked ELSE file_size - offs
    BY <1>1, <2>1 DEF FileInv, InLoop
  <2>4. Content' = Content /\ buf' = buf /\ offs' = offs /\ asked' = asked /\ file_size' = file_size
    BY <2>1 DEF Content, ByteOf, diskVars, loopVars
  <2>5. ReadsFileBytes'
    BY <2>1, <2>2, <2>3, <2>4 DEF ReadsFileBytes
  <2>6. BytesInv'
    BY <2>1 DEF BytesInv
  <2> QED
    BY <2>5, <2>6
<1>8. ASSUME NEW o \in Position, seek(o) PROVE BytesInv' /\ ReadsFileBytes'
  <2>1. pc = "idle" /\ UNCHANGED <<diskVars, pc, asked, reply, loopVars, buf>>
    BY <1>8 DEF seek
  <2>2. BytesInv'
    BY <2>1 DEF BytesInv
  <2>3. Content' = Content
    BY <2>1 DEF Content, ByteOf, diskVars
  <2> QED
    BY <1>1, <2>1, <2>2, <2>3 DEF ReadsFileBytes, diskVars, loopVars
<1>9. CASE UNCHANGED fatVars
  <2>1. UNCHANGED <<diskVars, pc, asked, reply, loopVars, buf>>
    BY <1>9 DEF fatVars
  <2>2. Content' = Content
    BY <2>1 DEF Content, ByteOf, diskVars
  <2>3. BytesInv'
    BY <1>1, <2>1 DEF BytesInv, ByteOf, diskVars, loopVars
  <2> QED
    BY <1>1, <2>1, <2>2, <2>3 DEF ReadsFileBytes, diskVars, loopVars
<1> QED
  BY <1>3, <1>4, <1>5, <1>6, <1>7, <1>8, <1>9 DEF NextWhen

(* Where a cluster is one sector and blocks can be read, a read that       *)
(* returns a number of bytes has delivered exactly those bytes of the      *)
(* file, across any cluster boundaries (ReadsFileBytes).                   *)
THEOREM FileReadsCorrect == WholeClusters /\ Fat12Safe => []ReadsFileBytes
<1> SUFFICES ASSUME WholeClusters PROVE Fat12Safe => []ReadsFileBytes
  OBVIOUS
<1>1. Fat12Init => ReadInv
  BY ReadInit
<1>2. ReadInv /\ [NextWhen(Right)]_fatVars => ReadInv'
  BY ReadNext
<1>3. ReadInv => ReadsFileBytes
  BY DEF ReadInv
<1> QED
  BY <1>1, <1>2, <1>3, PTL DEF Fat12Safe

-----------------------------------------------------------------------------
(* An open file as the stream of bytes of vfs.h. *)
LEMMA FileFitsWord ==
  ASSUME DiskOK, DiskFitsWord
  PROVE  file_size < WORD \div 2 /\ 0 < WORD \div 2
<1>1. /\ Len(chain) \in Nat /\ last_cluster - 1 \in Nat /\ file_size \in Nat
      /\ bytes_per_cluster \in Nat \ {0} /\ WORD \div 2 \in Int
  BY ChainFacts, ClusterSize, Fat12Assumption DEF DiskOK
<1>2. Len(chain) <= last_cluster - 1
  BY <1>1, Fat12Assumption DEF DiskOK
<1>3. bytes_per_cluster * Len(chain) \in Nat /\ bytes_per_cluster * (last_cluster - 1) \in Nat
      /\ bytes_per_cluster * Len(chain) <= bytes_per_cluster * (last_cluster - 1)
  BY <1>1, <1>2, Multiples
<1>4. bytes_per_cluster * (last_cluster - 1) < WORD \div 2
  BY DEF DiskFitsWord
<1>5. chain # <<>> => file_size <= bytes_per_cluster * Len(chain)
  BY DEF DiskOK
<1>6. chain = <<>> => file_size = 0
  BY DEF DiskOK
<1> HIDE DEF DiskFitsWord
<1> QED
  BY <1>1, <1>3, <1>4, <1>5, <1>6

(* The stream's content does not change, and has the size of the file. *)
Stream == IF node = "file" THEN Content ELSE <<>>

LEMMA StreamKept ==
  ASSUME UNCHANGED diskVars
  PROVE  Stream' = Stream
  BY DEF Stream, Content, ByteOf, diskVars

LEMMA StreamInit ==
  ASSUME Fat12Init
  PROVE  BS!BSInit
  BY DEF Fat12Init, BS!BSInit

LEMMA StreamCall ==
  ASSUME FileInv, NEW n \in Request, vfs_read(n)
  PROVE  BS!Call(n)
<1>1. Stream' = Stream
  BY StreamKept DEF vfs_read
<1> QED
  BY <1>1 DEF vfs_read, BS!Call, BS!Idle, Stream

(* A call that fails, and one at the end of the file. *)
LEMMA StreamNothing ==
  ASSUME FileInv, DiskFitsWord, fat12_read_nothing
  PROVE  BS!Fail \/ BS!Deliver
<1>1. /\ pc = "call" /\ UNCHANGED <<diskVars, asked, loopVars, buf>>
      /\ \/ Return(-1)
         \/ node = "file" /\ size > 0 /\ offs >= file_size /\ Return(0)
  BY NothingReturns
<1>2. /\ DiskOK /\ asked \in Nat /\ f_offset \in Nat /\ offs = f_offset
      /\ size = asked /\ buf = <<>> /\ file_size \in Nat
  BY <1>1 DEF FileInv, FileTypeOK, InCall, AtCall, DiskOK
<1>3. 0 < WORD \div 2 /\ WORD \div 2 \in Int
  BY <1>2, FileFitsWord, Fat12Assumption
<1>4. Stream' = Stream
  BY <1>1, StreamKept
<1>5. CASE Return(-1)
  <2>1. pc' = "idle" /\ reply' = -1 /\ f_offset' = f_offset
    BY <1>3, <1>5 DEF Return
  <2> QED
    BY <1>1, <1>2, <1>4, <2>1 DEF BS!Fail, BS!Idle, Stream
<1>6. CASE node = "file" /\ size > 0 /\ offs >= file_size /\ Return(0)
  <2>1. pc' = "idle" /\ reply' = 0 /\ f_offset' = f_offset
    BY <1>3, <1>6 DEF Return
  <2>2. Stream = Content /\ Len(Content) = file_size
    BY <1>2, <1>6, ContentIs DEF Stream
  <2>3. BS!Left = 0
    BY <1>2, <1>6, <2>2 DEF BS!Left, Stream
  <2>4. SubSeq(Stream, f_offset + 1, f_offset + 0) = <<>>
    BY <1>2, SubSeqEmpty
  <2> QED
    BY <1>1, <1>2, <1>4, <1>6, <2>1, <2>3, <2>4 DEF BS!Deliver, Stream
<1> QED
  BY <1>1, <1>5, <1>6

(* The end of a read. *)
LEMMA StreamDelivers ==
  ASSUME WholeClusters, DiskFitsWord, ReadInv, read_return
  PROVE  BS!Deliver
<1>1. FileInv /\ BytesInv
  BY DEF ReadInv
<1>2. /\ pc = "loop" /\ pc' = "idle" /\ cluster_count = clusters_to_read
      /\ UNCHANGED <<diskVars, asked, loopVars, buf>>
      /\ reply' = (IF size >= WORD \div 2 THEN size - WORD ELSE size)
      /\ (reply' > 0 => f_offset' = f_offset + size)
  BY <1>1, ReturnedSize
<1>3. /\ DiskOK /\ asked \in Nat /\ f_offset \in Nat /\ offs = f_offset /\ file_size \in Nat
      /\ node = "file" /\ asked > 0 /\ offs < file_size
      /\ size = IF asked < file_size - offs THEN asked ELSE file_size - offs
  BY <1>1, <1>2 DEF FileInv, FileTypeOK, InCall, InLoop, DiskOK
<1>4. size \in Nat \ {0} /\ size <= file_size - offs
  BY <1>1, <1>2, LoopFacts
<1>5. file_size < WORD \div 2 /\ WORD \div 2 \in Int
  BY <1>3, FileFitsWord, Fat12Assumption
<1>6. reply' = size /\ f_offset' = f_offset + size
  <2>1. size < WORD \div 2
    BY <1>3, <1>4, <1>5
  <2> QED
    BY <1>2, <1>4, <1>5, <2>1
<1>7. buf = SubSeq(Content, offs + 1, offs + size)
  BY <1>1, <1>2, LoopDelivers
<1>8. Stream' = Stream /\ Stream = Content /\ Len(Content) = file_size
  BY <1>2, <1>3, StreamKept, ContentIs DEF Stream
<1>9. BS!Left = file_size - f_offset
  BY <1>3, <1>8 DEF BS!Left, Stream
<1> QED
  BY <1>2, <1>3, <1>6, <1>7, <1>8, <1>9 DEF BS!Deliver, Stream

LEMMA StreamNext ==
  ASSUME WholeClusters, DiskFitsWord, ReadInv, [NextWhen(Right)]_fatVars
  PROVE  [BS!BSNext]_(BS!bsVars)
<1>1. FileInv
  BY DEF ReadInv
<1>2. ASSUME NEW n \in Request, vfs_read(n) PROVE BS!BSNext
  BY <1>1, <1>2, StreamCall DEF BS!BSNext
<1>3. CASE fat12_read_nothing
  BY <1>1, <1>3, StreamNothing DEF BS!BSNext
<1>4. CASE fat12_read
  <2>1. pc # "idle" /\ pc' # "idle" /\ UNCHANGED <<diskVars, f_offset, asked>>
    BY <1>4 DEF fat12_read
  <2> QED
    BY <2>1, StreamKept DEF BS!bsVars, Stream
<1>5. CASE read_cluster
  <2>1. pc # "idle" /\ pc' # "idle" /\ UNCHANGED <<diskVars, f_offset, asked>>
    BY <1>1, <1>5, RoundIs
  <2> QED
    BY <2>1, StreamKept DEF BS!bsVars, Stream
<1>6. CASE read_return
  BY <1>6, StreamDelivers DEF BS!BSNext
<1>7. ASSUME NEW o \in Position, seek(o) PROVE BS!BSNext
  <2>1. o \in Nat
    BY Fat12Assumption
  <2>2. Stream' = Stream
    BY <1>7, StreamKept DEF seek
  <2>3. BS!Seek
    BY <1>7, <2>1, <2>2 DEF seek, BS!Seek, BS!Idle, Stream
  <2> QED
    BY <2>3 DEF BS!BSNext
<1>8. CASE UNCHANGED fatVars
  <2>1. UNCHANGED <<diskVars, f_offset, pc, asked, reply, buf>>
    BY <1>8 DEF fatVars
  <2> QED
    BY <2>1, StreamKept DEF BS!bsVars, Stream
<1> QED
  BY <1>2, <1>3, <1>4, <1>5, <1>6, <1>7, <1>8 DEF NextWhen

(* An open file is the stream of bytes that vfs.h promises: the safety     *)
(* part of ImplementsByteStream, where a cluster is one sector, blocks can *)
(* be read and the sizes of files are positive numbers of type ssize_t.    *)
THEOREM FileIsStream == WholeClusters /\ DiskFitsWord /\ Fat12Safe => BS!BSSafety
<1> SUFFICES ASSUME WholeClusters, DiskFitsWord PROVE Fat12Safe => BS!BSSafety
  OBVIOUS
<1>1. Fat12Init => ReadInv /\ BS!BSInit
  BY ReadInit, StreamInit
<1>2. ReadInv /\ [NextWhen(Right)]_fatVars => ReadInv'
  BY ReadNext
<1>3. ReadInv /\ [NextWhen(Right)]_fatVars => [BS!BSNext]_(BS!bsVars)
  BY StreamNext
<1> QED
  BY <1>1, <1>2, <1>3, PTL DEF Fat12Safe, BS!BSSafety
=============================================================================
