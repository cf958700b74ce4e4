----------------------------- MODULE ElfProofs ------------------------------
(***************************************************************************)
(* Proofs about Elf, for any files, in parts or not, paths, sizes of pages *)
(* and numbers of calls.                                                   *)
(***************************************************************************)
EXTENDS Elf, ListTheorems

LEMMA Sizes ==
  /\ PAGE \in Nat /\ PAGE > 0 /\ PATHMAX \in Nat /\ PATHMAX > 0 /\ FRAMES \in Nat
  /\ WORD \in Nat /\ WORD > 1 /\ Kernel \subseteq Shared
BY ElfAssumption, CStringAssumption

(* The program headers of a file, and the segments to be loaded. *)
LEMMA Headers ==
  ASSUME NEW f \in DOMAIN File
  PROVE  /\ File[f].phdrs \in Seq(Segment) /\ Len(File[f].phdrs) \in Nat
         /\ File[f].size \in Word
         /\ \A k \in 1..Len(File[f].phdrs) : File[f].phdrs[k] \in Segment
<1>1. File[f] \in FileType
  BY ElfAssumption
<1>2. File[f].phdrs \in Seq(Segment) /\ File[f].size \in Word
  BY <1>1 DEF FileType
<1> DEFINE p == File[f].phdrs
<1> HIDE DEF p
<1>3. p \in Seq(Segment)
  BY <1>2 DEF p
<1>4. Len(p) \in Nat /\ \A k \in 1..Len(p) : p[k] \in Segment
  BY <1>3
<1>5. QED
  BY <1>2, <1>4 DEF p

LEMMA LoadsAre ==
  ASSUME NEW f \in DOMAIN File
  PROVE  /\ \A k \in 1..Len(File[f].phdrs) :
              File[f].phdrs[k].type = "LOAD" => File[f].phdrs[k] \in Loads(f)
         /\ \A s \in Loads(f) : /\ s \in Segment /\ s.type = "LOAD" /\ s.filesz <= s.memsz
                                /\ \E k \in 1..Len(File[f].phdrs) : s = File[f].phdrs[k]
         /\ \A s, t \in Loads(f) : s = t \/ Bytes(s) \cap Bytes(t) = {}
<1>1. \A k \in 1..Len(File[f].phdrs) : File[f].phdrs[k] \in Segment
  BY Headers
<1>2. \A s, t \in Loads(f) : s.filesz <= s.memsz /\ (s = t \/ Bytes(s) \cap Bytes(t) = {})
  BY ElfAssumption
<1>3. QED
  BY <1>1, <1>2 DEF Loads

LEMMA SegmentFields ==
  ASSUME NEW s \in Segment
  PROVE  /\ s.off \in Word /\ s.vaddr \in Word /\ s.filesz \in Word /\ s.memsz \in Word
         /\ Bytes(s) \subseteq Word
BY DEF Segment, Bytes

LEMMA DistType ==
  ASSUME NEW a \in Word, NEW v \in Word
  PROVE  Dist(a, v) \in Word
BY Sizes DEF Dist, Word

LEMMA NoSegmentIs == NoSegment \in Segment
<1>1. 0 \in Word
  BY Sizes DEF Word
<1>2. QED
  BY <1>1 DEF NoSegment, Segment

-----------------------------------------------------------------------------
(* Memory holds segment s of file f. *)
Content(f, s, a) ==
  LET d == Dist(a, s.vaddr)
  IN  IF d < s.filesz THEN <<f, s.off + d>> ELSE Zero

InMemory(mem, pages, f, s) ==
  InFile(f, s) => \A a \in Bytes(s) : a \div PAGE \in pages /\ mem[a] = Content(f, s, a)

(* Covers and ImagesIntact, of given calls and memory. *)
CoversIn(calls, l, a) ==
  \/ calls[l].misread
  \/ calls[l].file # NoFile /\ \E s \in Loads(calls[l].file) : a \in Bytes(s)

ImageAt(calls, mem, pages, k) ==
  \A s \in Loads(calls[k].file) :
    InFile(calls[k].file, s) =>
      \A a \in Bytes(s) :
        /\ a \div PAGE \in pages
        /\ \/ mem[a] = Content(calls[k].file, s, a)
           \/ \E l \in (k + 1)..Len(calls) : CoversIn(calls, l, a)

ImagesIn(calls, mem, pages) ==
  \A k \in 1..Len(calls) :
    calls[k].ok /\ ~ calls[k].misread => ImageAt(calls, mem, pages, k)

LEMMA ImagesAre == ImagesIn(spawned, ram, present) => ImagesIntact
BY DEF ImagesIntact, ImagesIn, ImageAt, Content, Covers, CoversIn

(* A step that maps no page out, forgets nothing of the earlier calls, and *)
(* writes only what the last call covers.                                  *)
LEMMA ImagesKept ==
  ASSUME NEW c, NEW mem, NEW pages, NEW c2, NEW mem2, NEW pages2,
         Len(c) \in Nat, Len(c2) \in Nat, Len(c) <= Len(c2),
         ImagesIn(c, mem, pages), pages \subseteq pages2, pages \subseteq Shared,
         \A k \in 1..Len(c2) : c2[k].ok /\ ~ c2[k].misread =>
            \/ ImageAt(c2, mem2, pages2, k)
            \/ /\ k \in 1..Len(c) /\ c[k].ok /\ ~ c[k].misread
               /\ c2[k].file = c[k].file /\ c[k].file \in DOMAIN File,
         \A l \in 1..Len(c) : \A a \in Word : CoversIn(c, l, a) => CoversIn(c2, l, a),
         \/ mem2 = mem
         \/ /\ Len(c2) > 0 /\ ~ c2[Len(c2)].ok
            /\ \A a \in Ram : mem2[a] = mem[a] \/ CoversIn(c2, Len(c2), a)
  PROVE  ImagesIn(c2, mem2, pages2)
<1>1. SUFFICES ASSUME NEW k \in 1..Len(c2), c2[k].ok, ~ c2[k].misread,
                      k \in 1..Len(c), c[k].ok, ~ c[k].misread,
                      c2[k].file = c[k].file, c[k].file \in DOMAIN File
               PROVE  ImageAt(c2, mem2, pages2, k)
  BY DEF ImagesIn
<1> DEFINE f == c[k].file
<1>2. SUFFICES ASSUME NEW s \in Loads(f), InFile(f, s), NEW a \in Bytes(s)
               PROVE  /\ a \div PAGE \in pages2
                      /\ \/ mem2[a] = Content(f, s, a)
                         \/ \E l \in (k + 1)..Len(c2) : CoversIn(c2, l, a)
  BY <1>1 DEF ImageAt
<1>3. /\ a \div PAGE \in pages
      /\ \/ mem[a] = Content(f, s, a)
         \/ \E l \in (k + 1)..Len(c) : CoversIn(c, l, a)
  BY <1>1, <1>2 DEF ImagesIn, ImageAt
<1>4. a \in Word
  BY <1>1, <1>2, LoadsAre, SegmentFields
<1>5. a \in Ram
  BY <1>3, <1>4 DEF Ram
<1> HIDE DEF f
<1>6. CASE \E l \in (k + 1)..Len(c) : CoversIn(c, l, a)
  <2>1. PICK l \in (k + 1)..Len(c) : CoversIn(c, l, a)
    BY <1>6
  <2>2. l \in 1..Len(c) /\ l \in (k + 1)..Len(c2)
    BY <1>1
  <2>3. CoversIn(c2, l, a)
    BY <1>4, <2>1, <2>2
  <2>4. QED
    BY <1>3, <2>2, <2>3
<1>7. CASE mem2[a] = mem[a]
  BY <1>3, <1>6, <1>7
<1>8. CASE mem2[a] # mem[a]
  <2>1. Len(c2) > 0 /\ ~ c2[Len(c2)].ok /\ CoversIn(c2, Len(c2), a)
    BY <1>5, <1>8
  <2>2. k # Len(c2)
    BY <1>1, <2>1
  <2>3. Len(c2) \in (k + 1)..Len(c2)
    BY <2>2
  <2>4. QED
    BY <1>3, <2>1, <2>3
<1>9. QED
  BY <1>7, <1>8
-----------------------------------------------------------------------------
Call == [buf : Buffer, file : (DOMAIN File) \cup {NoFile}, ok : BOOLEAN, misread : BOOLEAN]

(* The calls so far; the locals of the last one while it is under way. *)
CallsInv ==
  /\ pc \in {"idle", "open", "header", "phdr", "alloc", "fill", "fault", "overwritten"}
  /\ present \subseteq Shared
  /\ spawned \in Seq(Call)
  /\ \A k \in 1..Len(spawned) : spawned[k].ok => spawned[k].file \in DOMAIN File
  /\ pc # "idle" => spawned # <<>> /\ ~ Current.ok
  /\ pc \in {"idle", "open", "header"} => i = 0
  /\ pc = "open" => Current.file = NoFile /\ ~ Current.misread
  /\ pc \in {"header", "phdr", "alloc", "fill"} => Current.file = file
  /\ pc \in {"phdr", "alloc", "fill"} =>
       file \in DOMAIN File /\ file # NoFile /\ i \in 0..Len(File[file].phdrs)
  /\ pc \in {"alloc", "fill"} =>
       /\ i < Len(File[file].phdrs) /\ phdr.type = "LOAD"
       /\ Current.misread \/ phdr = File[file].phdrs[i + 1]

(* What elf_load has loaded up to header n of file f. *)
LoadedUpTo(f, n, mem, pages) ==
  \A j \in 1..n : File[f].phdrs[j].type = "LOAD" => InMemory(mem, pages, f, File[f].phdrs[j])

ProgressInv ==
  pc \in {"phdr", "alloc", "fill"} /\ ~ Current.misread => LoadedUpTo(file, i, ram, present)

ImagesInv == CallsInv /\ ProgressInv /\ ImagesIn(spawned, ram, present)

(* The last call's record is replaced. *)
LEMMA NowIs ==
  ASSUME spawned \in Seq(Call), spawned # <<>>, NEW c \in Call, Now(c)
  PROVE  /\ spawned' \in Seq(Call) /\ Len(spawned') = Len(spawned) /\ Len(spawned) \in Nat \ {0}
         /\ Current' = c /\ Current \in Call /\ spawned' # <<>>
         /\ \A k \in 1..Len(spawned) : k # Len(spawned) => spawned'[k] = spawned[k]
<1>1. spawned' = [spawned EXCEPT ![Len(spawned)] = c]
  BY DEF Now
<1>2. Len(spawned) \in Nat \ {0} /\ Len(spawned) \in 1..Len(spawned)
  BY EmptySeq
<1>3. spawned' \in Seq(Call) /\ Len(spawned') = Len(spawned)
  BY <1>1, <1>2, ExceptSeq
<1>4. Current' = c /\ Current \in Call
  BY <1>1, <1>2, <1>3 DEF Current
<1>5. spawned' # <<>>
  BY <1>2, <1>3, EmptySeq
<1>6. \A k \in 1..Len(spawned) : k # Len(spawned) => spawned'[k] = spawned[k]
  BY <1>1, <1>2, ExceptSeq
<1>7. QED
  BY <1>2, <1>3, <1>4, <1>5, <1>6

LEMMA MisreadIs ==
  ASSUME spawned \in Seq(Call), spawned # <<>>, Misread
  PROVE  /\ spawned' \in Seq(Call) /\ Len(spawned') = Len(spawned) /\ Len(spawned) \in Nat \ {0}
         /\ Current' \in Call /\ spawned' # <<>>
         /\ Current'.misread /\ Current'.ok = Current.ok /\ Current'.file = Current.file
         /\ Current'.buf = Current.buf
         /\ \A k \in 1..Len(spawned) : k # Len(spawned) => spawned'[k] = spawned[k]
<1> DEFINE c == [Current EXCEPT !.misread = TRUE]
<1>1. Len(spawned) \in Nat \ {0} /\ Len(spawned) \in 1..Len(spawned)
  BY EmptySeq
<1>2. Current \in Call
  BY <1>1 DEF Current
<1>3. c \in Call /\ c.misread /\ c.ok = Current.ok /\ c.file = Current.file /\ c.buf = Current.buf
  BY <1>2 DEF Call
<1>4. Now(c)
  BY DEF Misread
<1> HIDE DEF c
<1>5. QED
  BY <1>3, <1>4, NowIs

(* A step of the call under way that leaves its record as it is, but for   *)
(* a read that fails.                                                      *)
LEMMA CallGoesOn ==
  ASSUME CallsInv, ImagesIn(spawned, ram, present), pc # "idle",
         UNCHANGED spawned \/ Misread, present \subseteq present',
         \/ UNCHANGED ram
         \/ \A a \in Ram :
              ram'[a] = ram[a] \/ Current'.misread \/ CoversIn(spawned, Len(spawned), a)
  PROVE  /\ ImagesIn(spawned', ram', present')
         /\ spawned' \in Seq(Call) /\ spawned' # <<>>
         /\ ~ Current'.ok /\ Current'.file = Current.file /\ Current'.buf = Current.buf
         /\ Current.misread => Current'.misread
         /\ \A k \in 1..Len(spawned') : spawned'[k].ok => spawned'[k].file \in DOMAIN File
<1>1. /\ spawned \in Seq(Call) /\ spawned # <<>> /\ ~ Current.ok /\ present \subseteq Shared
      /\ \A k \in 1..Len(spawned) : spawned[k].ok => spawned[k].file \in DOMAIN File
  BY DEF CallsInv
<1>2. Len(spawned) \in Nat \ {0} /\ Len(spawned) \in 1..Len(spawned)
  BY <1>1, EmptySeq
<1>3. /\ spawned' \in Seq(Call) /\ Len(spawned') = Len(spawned) /\ spawned' # <<>>
      /\ Current'.ok = Current.ok /\ Current'.file = Current.file /\ Current'.buf = Current.buf
      /\ Current.misread => Current'.misread
      /\ \A k \in 1..Len(spawned) : k # Len(spawned) => spawned'[k] = spawned[k]
  <2>1. CASE UNCHANGED spawned
    BY <1>1, <2>1 DEF Current
  <2>2. CASE Misread
    BY <1>1, <2>2, MisreadIs
  <2>3. QED
    BY <2>1, <2>2
<1>4. Current = spawned[Len(spawned)] /\ Current' = spawned'[Len(spawned)]
  BY <1>3 DEF Current
<1>5. \A k \in 1..Len(spawned) : spawned'[k].ok = spawned[k].ok /\ spawned'[k].file = spawned[k].file
  BY <1>3, <1>4
<1>6. \A k \in 1..Len(spawned) : spawned[k].misread => spawned'[k].misread
  BY <1>3, <1>4
<1>7. \A l \in 1..Len(spawned) : \A a \in Word : CoversIn(spawned, l, a) => CoversIn(spawned', l, a)
  BY <1>5, <1>6 DEF CoversIn
<1>8. \A k \in 1..Len(spawned') : spawned'[k].ok /\ ~ spawned'[k].misread =>
            /\ k \in 1..Len(spawned) /\ spawned[k].ok /\ ~ spawned[k].misread
            /\ spawned'[k].file = spawned[k].file /\ spawned[k].file \in DOMAIN File
  BY <1>1, <1>3, <1>5, <1>6
<1>9. \/ ram' = ram
      \/ /\ Len(spawned') > 0 /\ ~ spawned'[Len(spawned')].ok
         /\ \A a \in Ram : ram'[a] = ram[a] \/ CoversIn(spawned', Len(spawned'), a)
  <2>1. \A a \in Ram : a \in Word
    BY DEF Ram
  <2>2. Current'.misread => \A a \in Word : CoversIn(spawned', Len(spawned'), a)
    BY <1>3, <1>4 DEF CoversIn
  <2>3. QED
    BY <1>1, <1>2, <1>3, <1>4, <1>7, <2>1, <2>2
<1>10. ImagesIn(spawned', ram', present')
  BY <1>1, <1>2, <1>3, <1>7, <1>8, <1>9, ImagesKept
<1>11. QED
  BY <1>1, <1>3, <1>5, <1>10

-----------------------------------------------------------------------------
LEMMA InitImages == ElfInit => ImagesInv
<1>1. SUFFICES ASSUME ElfInit
               PROVE  ImagesInv
  OBVIOUS
<1>2. pc = "idle" /\ spawned = <<>> /\ i = 0 /\ present \subseteq Shared
  BY <1>1, Sizes DEF ElfInit
<1>3. spawned \in Seq(Call) /\ Len(spawned) = 0
  BY <1>2, EmptySeq
<1>4. CallsInv /\ ProgressInv
  BY <1>2, <1>3 DEF CallsInv, ProgressInv
<1>5. ImagesIn(spawned, ram, present)
  BY <1>3 DEF ImagesIn
<1>6. QED
  BY <1>4, <1>5 DEF ImagesInv

LEMMA SpawnImages ==
  ASSUME ImagesInv, NEW b \in Buffer, process_spawn(b)
  PROVE  ImagesInv'
<1> DEFINE c == [buf |-> b, file |-> NoFile, ok |-> FALSE, misread |-> FALSE]
           n == Len(spawned)
<1>1. /\ pc = "idle" /\ pc' = "open" /\ spawned' = Append(spawned, c)
      /\ UNCHANGED <<path, file, i, phdr, present, own, frames, ram>>
  BY DEF process_spawn
<1>2. /\ spawned \in Seq(Call) /\ i = 0 /\ n \in Nat /\ present \subseteq Shared
      /\ \A k \in 1..n : spawned[k].ok => spawned[k].file \in DOMAIN File
  BY <1>1 DEF ImagesInv, CallsInv
<1>3. c \in Call /\ ~ c.ok /\ c.file = NoFile /\ ~ c.misread
  BY DEF Call
<1> HIDE DEF c
<1>4. /\ spawned' \in Seq(Call) /\ Len(spawned') = n + 1 /\ spawned'[n + 1] = c
      /\ \A k \in 1..n : spawned'[k] = spawned[k]
  BY <1>1, <1>2, <1>3, AppendProperties
<1>5. spawned' # <<>> /\ Current' = c
  BY <1>2, <1>4, EmptySeq DEF Current
<1> HIDE DEF n
<1>6. \A k \in 1..(n + 1) : k \in 1..n \/ k = n + 1
  BY <1>2 DEF n
<1>7. \A k \in 1..Len(spawned') : spawned'[k].ok =>
         /\ k \in 1..n /\ spawned[k].ok
         /\ spawned'[k] = spawned[k] /\ spawned[k].file \in DOMAIN File
  BY <1>2, <1>3, <1>4, <1>6
<1>8. CallsInv'
  BY <1>1, <1>2, <1>3, <1>4, <1>5, <1>7 DEF CallsInv
<1>9. ProgressInv'
  BY <1>1 DEF ProgressInv
<1>10. ImagesIn(spawned', ram', present')
  <2>1. \A l \in 1..n : \A a \in Word : CoversIn(spawned, l, a) => CoversIn(spawned', l, a)
    BY <1>4 DEF CoversIn
  <2>2. ImagesIn(spawned, ram, present) /\ present' = present /\ ram' = ram
    BY <1>1 DEF ImagesInv
  <2>3. n \in Nat /\ Len(spawned') \in Nat /\ n <= Len(spawned') /\ n = Len(spawned)
    BY <1>2, <1>4 DEF n
  <2>4. \A k \in 1..Len(spawned') : spawned'[k].ok /\ ~ spawned'[k].misread =>
            /\ k \in 1..Len(spawned) /\ spawned[k].ok /\ ~ spawned[k].misread
            /\ spawned'[k].file = spawned[k].file /\ spawned[k].file \in DOMAIN File
    BY <1>7, <2>3
  <2>5. QED
    BY <1>2, <2>1, <2>2, <2>3, <2>4, ImagesKept
<1>11. QED
  BY <1>8, <1>9, <1>10 DEF ImagesInv

(* A call that ends without success. *)
LEMMA FailImages ==
  ASSUME ImagesInv, pc # "idle", pc' = "idle", i' = 0, UNCHANGED spawned \/ Misread,
         present \subseteq present', present' \subseteq Shared, UNCHANGED ram
  PROVE  ImagesInv'
<1>1. CallsInv /\ ImagesIn(spawned, ram, present)
  BY DEF ImagesInv
<1>2. /\ ImagesIn(spawned', ram', present') /\ spawned' \in Seq(Call)
      /\ \A k \in 1..Len(spawned') : spawned'[k].ok => spawned'[k].file \in DOMAIN File
  BY <1>1, CallGoesOn
<1>3. CallsInv' /\ ProgressInv'
  BY <1>2 DEF CallsInv, ProgressInv
<1>4. QED
  BY <1>2, <1>3 DEF ImagesInv

LEMMA OpenImages ==
  ASSUME ImagesInv, vfs_open
  PROVE  ImagesInv'
<1>0. present \subseteq Shared
  BY DEF ImagesInv, CallsInv
<1>1. /\ pc = "open"
      /\ \/ Fails /\ UNCHANGED spawned
         \/ pc' = "fault" /\ UNCHANGED <<loadVars, present, own, frames, ram, spawned>>
         \/ /\ pc' = "header" /\ file' \in (DOMAIN File) \cup {NoFile}
            /\ Now([Current EXCEPT !.file = file'])
            /\ UNCHANGED <<arg, i, phdr, present, own, frames, ram>>
  <2> DEFINE r == strtok_r(path[arg], 0, {"/"}, PATHMAX)
             found == {f \in DOMAIN File : r.next # NULL /\ StringAt(r.mem, r.next, PATHMAX) = <<f>>}
  <2>1. found \subseteq DOMAIN File
    OBVIOUS
  <2>2. /\ pc = "open"
        /\ \/ Fails /\ UNCHANGED spawned
           \/ pc' = "fault" /\ UNCHANGED <<loadVars, present, own, frames, ram, spawned>>
           \/ /\ pc' = "header" /\ file' \in IF found = {} THEN {NoFile} ELSE found
              /\ Now([Current EXCEPT !.file = file'])
              /\ UNCHANGED <<arg, i, phdr, present, own, frames, ram>>
    BY DEF vfs_open
  <2> HIDE DEF found
  <2>3. QED
    BY <2>1, <2>2
<1>2. CASE Fails /\ UNCHANGED spawned
  BY <1>0, <1>1, <1>2, FailImages DEF Fails, Gone
<1>5. CASE pc' = "fault" /\ UNCHANGED <<loadVars, present, own, frames, ram, spawned>>
  <2>1. /\ spawned' = spawned /\ present' = present /\ ram' = ram /\ file' = file
        /\ Current' = Current
    BY <1>5 DEF loadVars, Current
  <2>2. CallsInv' /\ ProgressInv'
    BY <1>1, <1>5, <2>1 DEF ImagesInv, CallsInv, ProgressInv
  <2>3. QED
    BY <2>1, <2>2 DEF ImagesInv
<1>3. CASE /\ pc' = "header" /\ file' \in (DOMAIN File) \cup {NoFile}
           /\ Now([Current EXCEPT !.file = file'])
           /\ UNCHANGED <<arg, i, phdr, present, own, frames, ram>>
  <2> DEFINE c == [Current EXCEPT !.file = file']
             n == Len(spawned)
  <2>1. /\ spawned \in Seq(Call) /\ spawned # <<>> /\ i = 0
        /\ ~ Current.ok /\ Current.file = NoFile /\ ~ Current.misread
        /\ \A k \in 1..n : spawned[k].ok => spawned[k].file \in DOMAIN File
    BY <1>1 DEF ImagesInv, CallsInv
  <2>2. Current \in Call /\ n \in 1..n /\ n \in Nat \ {0}
    BY <2>1, EmptySeq DEF Current
  <2>3. c \in Call /\ c.ok = FALSE /\ ~ c.misread /\ c.file = file'
    BY <1>3, <2>1, <2>2 DEF Call
  <2>4. Now(c)
    BY <1>3
  <2> HIDE DEF c
  <2>5. /\ spawned' \in Seq(Call) /\ Len(spawned') = n /\ Current' = c /\ spawned' # <<>>
        /\ \A k \in 1..n : k # n => spawned'[k] = spawned[k]
    BY <2>1, <2>3, <2>4, NowIs
  <2>6. spawned'[n] = c /\ Current = spawned[n]
    BY <2>5 DEF Current
  <2> HIDE DEF n
  <2>7. \A k \in 1..n : spawned'[k].ok =>
            /\ spawned[k].ok /\ spawned'[k] = spawned[k] /\ spawned[k].file \in DOMAIN File
    BY <2>1, <2>3, <2>5, <2>6 DEF n
  <2>8. CallsInv'
    BY <1>0, <1>3, <2>1, <2>3, <2>5, <2>7 DEF CallsInv
  <2>9. ProgressInv'
    BY <1>3 DEF ProgressInv
  <2>10. \A l \in 1..n : \A a \in Word : CoversIn(spawned, l, a) => CoversIn(spawned', l, a)
    BY <2>1, <2>5, <2>6 DEF CoversIn
  <2>11. ImagesIn(spawned, ram, present) /\ present' = present /\ ram' = ram
    BY <1>3 DEF ImagesInv
  <2>12. /\ n = Len(spawned) /\ n = Len(spawned') /\ Len(spawned) \in Nat /\ Len(spawned') \in Nat
         /\ Len(spawned) <= Len(spawned')
    BY <2>2, <2>5 DEF n
  <2>13. \A k \in 1..Len(spawned') : spawned'[k].ok /\ ~ spawned'[k].misread =>
            /\ k \in 1..Len(spawned) /\ spawned[k].ok /\ ~ spawned[k].misread
            /\ spawned'[k].file = spawned[k].file /\ spawned[k].file \in DOMAIN File
    BY <2>7, <2>12
  <2>14. ImagesIn(spawned', ram', present')
    BY <1>0, <2>10, <2>11, <2>12, <2>13, ImagesKept
  <2>15. QED
    BY <2>8, <2>9, <2>14 DEF ImagesInv
<1>4. QED
  BY <1>1, <1>2, <1>3, <1>5

LEMMA HeaderImages ==
  ASSUME ImagesInv, read_header
  PROVE  ImagesInv'
<1>1. /\ pc = "header"
      /\ \/ /\ file # NoFile /\ pc' = "phdr"
            /\ UNCHANGED <<loadVars, present, own, frames, ram, spawned>>
         \/ Fails /\ (UNCHANGED spawned \/ Misread)
  BY DEF read_header
<1>2. CASE Fails /\ (UNCHANGED spawned \/ Misread)
  <2>1. present \subseteq Shared
    BY DEF ImagesInv, CallsInv
  <2>2. QED
    BY <1>1, <1>2, <2>1, FailImages DEF Fails, Gone
<1>3. CASE /\ file # NoFile /\ pc' = "phdr"
           /\ UNCHANGED <<loadVars, present, own, frames, ram, spawned>>
  <2>1. /\ CallsInv /\ i = 0 /\ Current.file = file /\ spawned \in Seq(Call) /\ spawned # <<>>
        /\ ImagesIn(spawned, ram, present)
    BY <1>1 DEF ImagesInv, CallsInv
  <2>2. Current \in Call
    BY <2>1, EmptySeq DEF Current
  <2>3. file \in DOMAIN File
    BY <1>3, <2>1, <2>2 DEF Call
  <2>4. Len(File[file].phdrs) \in Nat
    BY <2>3, Headers
  <2>5. /\ file' = file /\ i' = i /\ phdr' = phdr /\ spawned' = spawned /\ Current' = Current
        /\ ram' = ram /\ present' = present
    BY <1>3 DEF loadVars, Current
  <2>6. CallsInv'
    BY <1>1, <1>3, <2>1, <2>3, <2>4, <2>5 DEF CallsInv
  <2>7. LoadedUpTo(file', i', ram', present')
    BY <2>1, <2>5 DEF LoadedUpTo
  <2>8. QED
    BY <2>1, <2>5, <2>6, <2>7 DEF ImagesInv, ProgressInv
<1>4. QED
  BY <1>1, <1>2, <1>3

LEMMA PhdrImages ==
  ASSUME ImagesInv, read_phdr
  PROVE  ImagesInv'
<1> DEFINE h == File[file].phdrs
<1>1. /\ pc = "phdr" /\ i < Len(h)
      /\ (phdr' = h[i + 1] /\ UNCHANGED spawned) \/ Misread
      /\ pc' = IF phdr'.type = "LOAD" THEN "alloc" ELSE "phdr"
      /\ i' = IF phdr'.type = "LOAD" THEN i ELSE i + 1
      /\ UNCHANGED <<path, arg, file, present, own, frames, ram>>
  BY DEF read_phdr
<1>2. /\ CallsInv /\ ImagesIn(spawned, ram, present) /\ file \in DOMAIN File /\ file # NoFile
      /\ i \in 0..Len(h) /\ Current.file = file
      /\ ~ Current.misread => LoadedUpTo(file, i, ram, present)
  BY <1>1 DEF ImagesInv, CallsInv, ProgressInv
<1>3. Len(h) \in Nat
  BY <1>2, Headers
<1>4. /\ ImagesIn(spawned', ram', present')
      /\ spawned' \in Seq(Call) /\ spawned' # <<>>
      /\ ~ Current'.ok /\ Current'.file = Current.file
      /\ Current.misread => Current'.misread
      /\ \A k \in 1..Len(spawned') : spawned'[k].ok => spawned'[k].file \in DOMAIN File
  BY <1>1, <1>2, CallGoesOn
<1>5. ~ Current'.misread => phdr' = h[i + 1]
  <2>1. Misread => Current'.misread
    BY <1>2, MisreadIs, <1>1 DEF CallsInv
  <2>2. QED
    BY <1>1, <2>1
<1>6. i' \in 0..Len(h) /\ pc' \in {"phdr", "alloc"}
  BY <1>1, <1>2, <1>3
<1>7. ~ Current'.misread => LoadedUpTo(file, i', ram, present)
  <2>1. SUFFICES ASSUME ~ Current'.misread, NEW j \in 1..i', h[j].type = "LOAD"
                 PROVE  InMemory(ram, present, file, h[j])
    BY DEF LoadedUpTo
  <2>2. phdr' = h[i + 1] /\ LoadedUpTo(file, i, ram, present)
    BY <1>2, <1>4, <1>5, <2>1
  <2>3. j \in 1..i
    BY <1>1, <1>2, <1>3, <2>1, <2>2
  <2>4. QED
    BY <2>1, <2>2, <2>3 DEF LoadedUpTo
<1>8. CallsInv'
  <2>1. file' = file
    BY <1>1
  <2>2. pc' = "alloc" => i' = i /\ phdr'.type = "LOAD"
    BY <1>1
  <2>3. QED
    BY <1>1, <1>2, <1>4, <1>5, <1>6, <2>1, <2>2 DEF CallsInv
<1>9. QED
  BY <1>1, <1>4, <1>7, <1>8 DEF ImagesInv, ProgressInv

LEMMA MorePages ==
  ASSUME NEW f, NEW n, NEW mem, NEW pages, NEW pages2, pages \subseteq pages2,
         LoadedUpTo(f, n, mem, pages)
  PROVE  LoadedUpTo(f, n, mem, pages2)
BY DEF LoadedUpTo, InMemory

LEMMA SegImages ==
  ASSUME ImagesInv, load_seg
  PROVE  ImagesInv'
<1>0. present \subseteq Shared
  BY DEF ImagesInv, CallsInv
<1>1. /\ pc = "alloc" /\ present \subseteq present' /\ present' \subseteq Shared
      /\ UNCHANGED <<ram, spawned>>
      /\ \/ pc' = "fill" /\ UNCHANGED loadVars
         \/ pc' = "idle" /\ i' = 0
  BY <1>0 DEF load_seg, vmm_alloc_region, Fails, Gone
<1>2. CASE pc' = "idle" /\ i' = 0
  BY <1>1, <1>2, FailImages
<1>3. CASE pc' = "fill" /\ UNCHANGED loadVars
  <2>1. CallsInv /\ ImagesIn(spawned, ram, present)
    BY DEF ImagesInv
  <2>2. ImagesIn(spawned', ram', present')
    BY <1>1, <2>1, CallGoesOn
  <2>3. /\ file' = file /\ i' = i /\ phdr' = phdr /\ Current' = Current
    BY <1>1, <1>3 DEF loadVars, Current
  <2>4. CallsInv'
    BY <1>1, <1>3, <2>1, <2>3 DEF CallsInv
  <2>5. ~ Current.misread => LoadedUpTo(file, i, ram, present')
    BY <1>1, MorePages DEF ImagesInv, ProgressInv
  <2>6. ProgressInv'
    BY <1>1, <1>3, <2>3, <2>5 DEF ProgressInv
  <2>7. QED
    BY <2>2, <2>4, <2>6 DEF ImagesInv
<1>4. QED
  BY <1>1, <1>2, <1>3

-----------------------------------------------------------------------------
(* The pages fill_seg writes to if got bytes of the segment are read. *)
PagesOf(got) == {a \div PAGE : a \in Written(got)}

LEMMA FillIs ==
  ASSUME fill_seg
  PROVE  /\ pc = "fill" /\ UNCHANGED <<path, arg, file, phdr, present, own, frames>>
         /\ \E got \in Readable \cup {0} :
              /\ \/ got \in Readable /\ UNCHANGED spawned
                 \/ Misread
              /\ \/ /\ PagesOf(got) \subseteq present
                    /\ ram' = Filled(got) /\ pc' = "phdr" /\ i' = i + 1
                 \/ ~ PagesOf(got) \subseteq present /\ pc' = "fault" /\ UNCHANGED <<ram, i>>
                 \/ /\ PagesOf(got) \cap Kernel # {}
                    /\ pc' = "overwritten" /\ UNCHANGED <<ram, i>>
BY DEF fill_seg, PagesOf

LEMMA ReadableIs ==
  ASSUME phdr \in Segment, file \in DOMAIN File
  PROVE  /\ Readable \subseteq 0..phdr.filesz
         /\ InFile(file, phdr) => Found /\ Readable = {phdr.filesz}
<1>1. /\ phdr.off \in Nat /\ phdr.filesz \in Nat /\ File[file].size \in Nat
      /\ File[file].size < WORD /\ WORD \in Nat
  BY SegmentFields, Headers, Sizes DEF Word
<1>2. Readable \subseteq 0..phdr.filesz
  BY <1>1 DEF Readable
<1>3. InFile(file, phdr) => Found
  BY <1>1 DEF InFile, Found
<1>4. InFile(file, phdr) => Readable = {phdr.filesz}
  BY <1>1, <1>3 DEF InFile, Readable
<1>5. QED
  BY <1>2, <1>3, <1>4

(* Only bytes of the segment are written. *)
LEMMA WrittenIs ==
  ASSUME phdr \in Segment, phdr.filesz <= phdr.memsz, NEW got \in 0..phdr.filesz
  PROVE  /\ Written(got) \subseteq Bytes(phdr)
         /\ got = phdr.filesz => Bytes(phdr) \subseteq Written(got)
<1>1. /\ phdr.vaddr \in Word /\ phdr.filesz \in Nat /\ phdr.memsz \in Nat
      /\ Word \subseteq Nat
  BY SegmentFields, Sizes DEF Word
<1>2. \A a \in Word : Dist(a, phdr.vaddr) \in Nat
  BY <1>1, DistType
<1>3. ASSUME NEW a \in Written(got)
      PROVE  a \in Bytes(phdr)
  <2> DEFINE d == Dist(a, phdr.vaddr)
  <2>1. a \in Word /\ d \in Nat
    BY <1>2 DEF Written
  <2>2. d < got \/ d \in phdr.filesz..(phdr.memsz - 1)
    BY DEF Written
  <2>3. a \in Bytes(phdr) <=> d < phdr.memsz
    BY <2>1 DEF Bytes
  <2> HIDE DEF d
  <2>4. QED
    BY <1>1, <2>1, <2>2, <2>3
<1>4. ASSUME got = phdr.filesz, NEW a \in Bytes(phdr)
      PROVE  a \in Written(got)
  <2> DEFINE d == Dist(a, phdr.vaddr)
  <2>1. a \in Word /\ d \in Nat /\ d < phdr.memsz
    BY <1>2 DEF Bytes
  <2>2. a \in Written(got) <=> (d < got \/ d \in phdr.filesz..(phdr.memsz - 1))
    BY <2>1 DEF Written
  <2> HIDE DEF d
  <2>3. QED
    BY <1>1, <1>4, <2>1, <2>2
<1>5. QED
  BY <1>3, <1>4

(* A segment that is filled with what can be read of it. *)
LEMMA FilledIs ==
  ASSUME NEW s \in Segment, phdr = s, s.filesz <= s.memsz, file \in DOMAIN File,
         NEW got \in Readable, ram' = Filled(got), PagesOf(got) \subseteq present,
         present \subseteq Shared
  PROVE  /\ \A a \in Ram : ram'[a] = ram[a] \/ a \in Bytes(s)
         /\ InMemory(ram', present, file, s)
<1>1. /\ s.vaddr \in Word /\ s.filesz \in Nat /\ s.memsz \in Nat /\ got \in 0..s.filesz
  BY SegmentFields, ReadableIs, Sizes DEF Word
<1>2. /\ Written(got) \subseteq Bytes(s)
      /\ got = s.filesz => Bytes(s) \subseteq Written(got)
  BY <1>1, WrittenIs
<1>3. \A a \in Ram :
        ram'[a] = IF Dist(a, s.vaddr) < got THEN FromFile(a)
                  ELSE IF Dist(a, s.vaddr) \in s.filesz..(s.memsz - 1) THEN Zero ELSE ram[a]
  BY DEF Filled
<1>4. \A a \in Ram : ram'[a] = ram[a] \/ a \in Written(got)
  BY <1>3 DEF Ram, Written
<1>5. InMemory(ram', present, file, s)
  <2>1. SUFFICES ASSUME InFile(file, s), NEW a \in Bytes(s)
                 PROVE  a \div PAGE \in present /\ ram'[a] = Content(file, s, a)
    BY DEF InMemory
  <2> DEFINE d == Dist(a, s.vaddr)
  <2>2. got = s.filesz /\ Found /\ FromFile(a) = <<file, s.off + d>>
    BY <2>1, ReadableIs DEF FromFile
  <2>3. a \in Word /\ d \in Nat /\ d < s.memsz
    BY <1>1, DistType, Sizes DEF Bytes, Word
  <2>4. a \div PAGE \in present
    BY <1>2, <2>2 DEF PagesOf
  <2>5. a \in Ram
    BY <2>3, <2>4 DEF Ram
  <2>6. ram'[a] = IF d < got THEN FromFile(a)
                  ELSE IF d \in s.filesz..(s.memsz - 1) THEN Zero ELSE ram[a]
    BY <1>3, <2>5
  <2> HIDE DEF d
  <2>7. ~ (d < s.filesz) => d \in s.filesz..(s.memsz - 1)
    BY <1>1, <2>3
  <2>8. ram'[a] = IF d < s.filesz THEN <<file, s.off + d>> ELSE Zero
    BY <2>2, <2>6, <2>7
  <2>9. QED
    BY <2>4, <2>8 DEF Content, d
<1>6. QED
  BY <1>2, <1>4, <1>5

LEMMA FillImages ==
  ASSUME ImagesInv, fill_seg
  PROVE  ImagesInv'
<1> DEFINE h == File[file].phdrs
<1>1. PICK got \in Readable \cup {0} :
         /\ pc = "fill" /\ UNCHANGED <<path, arg, file, phdr, present, own, frames>>
         /\ \/ got \in Readable /\ UNCHANGED spawned
            \/ Misread
         /\ \/ /\ PagesOf(got) \subseteq present
               /\ ram' = Filled(got) /\ pc' = "phdr" /\ i' = i + 1
            \/ /\ pc' \in {"fault", "overwritten"} /\ UNCHANGED <<ram, i>>
  BY FillIs
<1>2. /\ CallsInv /\ ImagesIn(spawned, ram, present) /\ file \in DOMAIN File /\ file # NoFile
      /\ i \in 0..Len(h) /\ i < Len(h) /\ Current.file = file /\ phdr.type = "LOAD"
      /\ ~ Current.misread => phdr = h[i + 1] /\ LoadedUpTo(file, i, ram, present)
      /\ spawned \in Seq(Call) /\ spawned # <<>> /\ present \subseteq Shared
  BY <1>1 DEF ImagesInv, CallsInv, ProgressInv
<1>3. Len(h) \in Nat /\ i + 1 \in 1..Len(h)
  BY <1>2, Headers
<1> DEFINE quiet == ~ Current'.misread
<1>4. quiet => ~ Current.misread /\ got \in Readable /\ UNCHANGED spawned
  <2>1. Misread => Current'.misread
    BY <1>2, MisreadIs
  <2>2. UNCHANGED spawned => Current' = Current
    BY DEF Current
  <2>3. QED
    BY <1>1, <2>1, <2>2
<1> DEFINE s == h[i + 1]
<1>5. quiet => /\ phdr = s /\ s \in Segment /\ s \in Loads(file) /\ s.filesz <= s.memsz
  BY <1>2, <1>3, <1>4, LoadsAre, Headers
<1> HIDE DEF h, s, quiet
<1>6. quiet /\ ram' = Filled(got) /\ PagesOf(got) \subseteq present =>
         /\ \A a \in Ram : ram'[a] = ram[a] \/ a \in Bytes(s)
         /\ InMemory(ram', present, file, s)
  BY <1>2, <1>4, <1>5, FilledIs
<1>7. \A a \in Bytes(s) : quiet => CoversIn(spawned, Len(spawned), a)
  BY <1>2, <1>5 DEF CoversIn, Current
<1>8. \/ UNCHANGED ram
      \/ \A a \in Ram :
           ram'[a] = ram[a] \/ Current'.misread \/ CoversIn(spawned, Len(spawned), a)
  BY <1>1, <1>6, <1>7 DEF quiet
<1>9. /\ ImagesIn(spawned', ram', present')
      /\ spawned' \in Seq(Call) /\ spawned' # <<>>
      /\ ~ Current'.ok /\ Current'.file = Current.file
      /\ Current.misread => Current'.misread
      /\ \A k \in 1..Len(spawned') : spawned'[k].ok => spawned'[k].file \in DOMAIN File
  BY <1>1, <1>2, <1>8, CallGoesOn
<1>10. CallsInv'
  <2>1. pc' = "phdr" => i' \in 0..Len(h)
    BY <1>1, <1>3
  <2>2. file' = file /\ present' = present /\ pc' \in {"phdr", "fault", "overwritten"}
    BY <1>1
  <2>3. QED
    BY <1>2, <1>9, <2>1, <2>2 DEF CallsInv, h
<1>11. ProgressInv'
  <2>1. SUFFICES ASSUME pc' = "phdr", quiet
                 PROVE  LoadedUpTo(file, i + 1, ram', present)
    BY <1>1 DEF ProgressInv, quiet
  <2>2. /\ LoadedUpTo(file, i, ram, present) /\ InMemory(ram', present, file, s)
        /\ \A a \in Ram : ram'[a] = ram[a] \/ a \in Bytes(s)
        /\ s \in Loads(file)
    BY <1>1, <1>2, <1>4, <1>5, <1>6, <2>1
  <2>3. SUFFICES ASSUME NEW j \in 1..(i + 1), h[j].type = "LOAD"
                 PROVE  InMemory(ram', present, file, h[j])
    BY DEF LoadedUpTo, h
  <2> DEFINE t == h[j]
  <2>4. j = i + 1 \/ j \in 1..i
    BY <1>2, <1>3
  <2>5. j \in 1..Len(h)
    BY <1>2, <1>3
  <2>6. t \in Loads(file) /\ t \in Segment
    BY <1>2, <2>3, <2>5, LoadsAre, Headers DEF h
  <2> HIDE DEF t
  <2>7. CASE t = s
    BY <2>2, <2>7 DEF t
  <2>8. CASE t # s
    <3>1. InMemory(ram, present, file, t)
      BY <2>2, <2>3, <2>4, <2>8 DEF LoadedUpTo, h, t, s
    <3>2. Bytes(t) \cap Bytes(s) = {} /\ Bytes(t) \subseteq Word
      BY <1>2, <2>2, <2>6, <2>8, LoadsAre, SegmentFields
    <3>3. SUFFICES ASSUME InFile(file, t), NEW a \in Bytes(t)
                   PROVE  a \div PAGE \in present /\ ram'[a] = Content(file, t, a)
      BY DEF InMemory, t
    <3>4. a \div PAGE \in present /\ ram[a] = Content(file, t, a)
      BY <3>1, <3>3 DEF InMemory
    <3>5. a \in Ram /\ a \notin Bytes(s)
      BY <1>2, <3>2, <3>4 DEF Ram
    <3>6. QED
      BY <2>2, <3>4, <3>5
  <2>9. QED
    BY <2>7, <2>8
<1>12. QED
  BY <1>9, <1>10, <1>11 DEF ImagesInv

LEMMA LoadedImages ==
  ASSUME ImagesInv, loaded
  PROVE  ImagesInv'
<1> DEFINE c == [Current EXCEPT !.ok = TRUE]
           n == Len(spawned)
<1>1. /\ pc = "phdr" /\ i = Len(File[file].phdrs) /\ pc' = "idle" /\ i' = 0
      /\ Now(c) /\ present' = present /\ ram' = ram
  BY DEF loaded, Gone
<1>2. /\ spawned \in Seq(Call) /\ spawned # <<>> /\ file \in DOMAIN File /\ file # NoFile
      /\ ~ Current.ok /\ Current.file = file
      /\ ~ Current.misread => LoadedUpTo(file, i, ram, present)
      /\ \A k \in 1..n : spawned[k].ok => spawned[k].file \in DOMAIN File
      /\ ImagesIn(spawned, ram, present) /\ present \subseteq Shared
  BY <1>1 DEF ImagesInv, CallsInv, ProgressInv
<1>3. Current \in Call /\ n \in 1..n /\ n \in Nat \ {0}
  BY <1>2, EmptySeq DEF Current
<1>4. c \in Call /\ c.ok /\ c.misread = Current.misread /\ c.file = file
  BY <1>2, <1>3 DEF Call
<1> HIDE DEF c
<1>5. /\ spawned' \in Seq(Call) /\ Len(spawned') = n /\ Current' = c /\ spawned' # <<>>
      /\ \A k \in 1..n : k # n => spawned'[k] = spawned[k]
  BY <1>1, <1>2, <1>4, NowIs
<1>6. spawned'[n] = c /\ Current = spawned[n]
  BY <1>5 DEF Current
<1> HIDE DEF n
<1>7. \A k \in 1..n : spawned'[k].file = spawned[k].file /\ spawned'[k].misread = spawned[k].misread
  BY <1>2, <1>4, <1>5, <1>6
<1>8. \A k \in 1..n : spawned'[k].ok => spawned'[k].file \in DOMAIN File
  BY <1>2, <1>4, <1>5, <1>6 DEF n
<1>9. CallsInv' /\ ProgressInv'
  BY <1>1, <1>2, <1>5, <1>8 DEF CallsInv, ProgressInv
<1>10. ~ c.misread => ImageAt(spawned', ram', present', n)
  <2>1. SUFFICES ASSUME ~ c.misread, NEW s \in Loads(file), InFile(file, s),
                        NEW a \in Bytes(s)
                 PROVE  a \div PAGE \in present /\ ram[a] = Content(file, s, a)
    BY <1>1, <1>4, <1>6 DEF ImageAt
  <2>2. PICK j \in 1..Len(File[file].phdrs) : s = File[file].phdrs[j]
    BY <1>2, <2>1, LoadsAre
  <2>3. s.type = "LOAD"
    BY <1>2, <2>1, LoadsAre
  <2>4. InMemory(ram, present, file, s)
    BY <1>1, <1>2, <1>4, <2>1, <2>2, <2>3 DEF LoadedUpTo
  <2>5. QED
    BY <2>1, <2>4 DEF InMemory
<1>11. /\ Len(spawned) \in Nat /\ Len(spawned') \in Nat /\ Len(spawned) <= Len(spawned')
       /\ n = Len(spawned) /\ n = Len(spawned')
  BY <1>3, <1>5 DEF n
<1>12. \A l \in 1..Len(spawned) : \A a \in Word : CoversIn(spawned, l, a) => CoversIn(spawned', l, a)
  BY <1>7, <1>11 DEF CoversIn
<1>13. \A k \in 1..Len(spawned') : spawned'[k].ok /\ ~ spawned'[k].misread =>
          \/ ImageAt(spawned', ram', present', k)
          \/ /\ k \in 1..Len(spawned) /\ spawned[k].ok /\ ~ spawned[k].misread
             /\ spawned'[k].file = spawned[k].file /\ spawned[k].file \in DOMAIN File
  BY <1>2, <1>5, <1>6, <1>10, <1>11
<1>14. ImagesIn(spawned', ram', present')
  BY <1>1, <1>2, <1>11, <1>12, <1>13, ImagesKept
<1>15. QED
  BY <1>9, <1>14 DEF ImagesInv

(* The inductive invariant of elf_load: the segments loaded so far are in  *)
(* memory, with the exceptions of ImagesIntact, and what was loaded before *)
(* is lost only where a later call writes.                                 *)
THEOREM ElfInvariant == ElfSpec => []ImagesInv
<1>1. ImagesInv /\ [ElfNext]_elfVars => ImagesInv'
  <2>1. SUFFICES ASSUME ImagesInv, [ElfNext]_elfVars
                 PROVE  ImagesInv'
    OBVIOUS
  <2>2. CASE UNCHANGED elfVars
    BY <2>1, <2>2 DEF elfVars, loadVars, ImagesInv, CallsInv, ProgressInv, Current
  <2>3. CASE ElfNext
    BY <2>1, <2>3, SpawnImages, OpenImages, HeaderImages, PhdrImages, SegImages, FillImages,
       LoadedImages
       DEF ElfNext, elf_load
  <2>4. QED
    BY <2>1, <2>2, <2>3
<1>2. QED
  BY InitImages, <1>1, PTL DEF ElfSpec

(* Every program that process_spawn has reported as loaded is in memory,   *)
(* all its segments, and stays there but for bytes that later calls claim, *)
(* whatever calls fail halfway; except a program with a header that was    *)
(* not read as it is, and segments that the file is too short for, or that *)
(* begin where a read of a file in parts goes to another cluster.          *)
THEOREM ImagesStay == ElfSpec => []ImagesIntact
<1>1. ImagesInv => ImagesIntact
  BY ImagesAre DEF ImagesInv
<1>2. QED
  BY <1>1, ElfInvariant, PTL

-----------------------------------------------------------------------------
(* Paths.  The first of some addresses from p on. *)
LEMMA FirstFrom ==
  ASSUME NEW limit \in Nat, NEW p \in 0..limit, NEW T
  PROVE  \E a \in p..limit : (a = limit \/ a \in T) /\ \A b \in p..(a - 1) : b \notin T
<1> DEFINE U == {a \in p..limit : a = limit \/ a \in T}
<1>1. limit \in U /\ U \in SUBSET Nat
  OBVIOUS
<1>2. PICK x \in U : \A y \in U : x <= y
  BY <1>1, LeastNumber
<1>3. \A b \in p..(x - 1) : b \notin T
  BY <1>1, <1>2
<1>4. QED
  BY <1>2, <1>3

LEMMA ScanStops ==
  ASSUME NEW limit \in Nat, NEW p \in 0..limit, NEW mem, NEW S
  PROVE  LET e == Scan(mem, p, S, limit)
         IN  /\ e \in p..limit
             /\ e = limit \/ mem[e] \in S
             /\ \A b \in p..(e - 1) : mem[b] \notin S
<1> DEFINE T == {a \in p..limit : mem[a] \in S}
<1>1. PICK x \in p..limit : (x = limit \/ x \in T) /\ \A b \in p..(x - 1) : b \notin T
  <2> HIDE DEF T
  <2> QED
    BY FirstFrom
<1>2. \A b \in p..(x - 1) : mem[b] \notin S
  BY <1>1
<1>3. \E a \in p..limit : /\ a = limit \/ mem[a] \in S
                         /\ \A b \in p..(a - 1) : mem[b] \notin S
  BY <1>1, <1>2
<1>4. QED
  BY <1>3 DEF Scan

LEMMA ScanIs ==
  ASSUME NEW limit \in Nat, NEW p \in 0..limit, NEW mem, NEW S,
         NEW x \in p..limit, x = limit \/ mem[x] \in S,
         \A b \in p..(x - 1) : mem[b] \notin S
  PROVE  Scan(mem, p, S, limit) = x
<1> DEFINE e == Scan(mem, p, S, limit)
<1>1. /\ e \in p..limit
      /\ e = limit \/ mem[e] \in S
      /\ \A b \in p..(e - 1) : mem[b] \notin S
  BY ScanStops
<1> HIDE DEF e
<1>2. ~ (e < x) /\ ~ (x < e)
  BY <1>1
<1>3. e = x
  BY <1>1, <1>2
<1>4. QED
  BY <1>3 DEF e

(* A path buffer, and where strtok_r finds the first token in it. *)
PathMem == [0..(PATHMAX - 1) -> Char \cup {NUL}]

LEMMA SlashIsNotNul == "/" # NUL /\ NUL \notin Char
BY CharAssumption DEF Char

LEMMA NullIsNone ==
  ASSUME NEW p \in Nat
  PROVE  p # NULL
BY CStringAssumption

FirstAt(mem, q) ==
  /\ q \in 0..PATHMAX
  /\ q = PATHMAX \/ mem[q] # "/"
  /\ \A b \in 0..(q - 1) : mem[b] = "/"

LEMMA FirstExists ==
  ASSUME NEW mem
  PROVE  \E q : FirstAt(mem, q)
<1> DEFINE T == {a \in 0..PATHMAX : mem[a] # "/"}
<1>1. PICK x \in 0..PATHMAX : (x = PATHMAX \/ x \in T) /\ \A b \in 0..(x - 1) : b \notin T
  <2> HIDE DEF T
  <2>1. PATHMAX \in Nat /\ 0 \in 0..PATHMAX
    BY Sizes
  <2>2. QED
    BY <2>1, FirstFrom
<1>2. FirstAt(mem, x)
  BY <1>1, Sizes DEF FirstAt
<1>3. QED
  BY <1>2

CutAt(mem, q) ==
  IF q = PATHMAX THEN NoToken(mem, NULL, TRUE)
  ELSE IF mem[q] = NUL THEN NoToken(mem, NULL, FALSE)
  ELSE Token(mem, q, {"/"}, PATHMAX)

LEMMA StrtokIs ==
  ASSUME NEW mem, NEW q, FirstAt(mem, q)
  PROVE  strtok_r(mem, 0, {"/"}, PATHMAX) = CutAt(mem, q)
<1> DEFINE P(a) == /\ a = PATHMAX \/ mem[a] \notin {"/"}
                   /\ \A b \in 0..(a - 1) : mem[b] \in {"/"}
           x == CHOOSE a \in 0..PATHMAX : P(a)
<1>1. q \in 0..PATHMAX /\ P(q)
  BY DEF FirstAt
<1>2. x \in 0..PATHMAX /\ P(x)
  BY <1>1
<1> HIDE DEF x
<1>3. x \in Nat /\ q \in Nat /\ ~ (x < q) /\ ~ (q < x)
  BY <1>1, <1>2, Sizes
<1>4. x = q
  BY <1>3
<1>5. (0 # NULL) = TRUE /\ 0 # NULL
  BY NullIsNone
<1>6. (CHOOSE a \in 0..PATHMAX : P(a)) = q
  BY <1>4 DEF x
<1> DEFINE y == IF 0 = NULL THEN PATHMAX
                ELSE CHOOSE a \in 0..PATHMAX : /\ a = PATHMAX \/ mem[a] \notin {"/"}
                                               /\ \A b \in 0..(a - 1) : mem[b] \in {"/"}
<1>7. strtok_r(mem, 0, {"/"}, PATHMAX) =
        IF y = PATHMAX THEN NoToken(mem, NULL, 0 # NULL)
        ELSE IF mem[y] = NUL THEN NoToken(mem, NULL, FALSE)
        ELSE Token(mem, y, {"/"}, PATHMAX)
  BY DEF strtok_r
<1>8. y = q
  BY <1>5, <1>6
<1> HIDE DEF y
<1>9. QED
  BY <1>5, <1>7, <1>8, Zenon DEF CutAt

(* Once cut, a path has only its first part, if it had one. *)
LEMMA CutTwice ==
  ASSUME NEW mem \in PathMem
  PROVE  LET r == strtok_r(mem, 0, {"/"}, PATHMAX)
             r2 == strtok_r(r.mem, 0, {"/"}, PATHMAX)
         IN  r.mem \in PathMem /\ r2.next = NULL /\ (r2.token = NULL => r.token = NULL)
<1>1. PICK q : FirstAt(mem, q)
  BY FirstExists
<1>2. strtok_r(mem, 0, {"/"}, PATHMAX) = CutAt(mem, q)
  BY <1>1, StrtokIs
<1>3. CASE q = PATHMAX \/ mem[q] = NUL
  <2>1. CutAt(mem, q).mem = mem /\ CutAt(mem, q).next = NULL
    BY <1>3 DEF CutAt, NoToken
  <2>2. QED
    BY <1>2, <2>1
<1>4. CASE ~ (q = PATHMAX \/ mem[q] = NUL)
  <2> DEFINE e == Scan(mem, q, {"/"} \cup {NUL}, PATHMAX)
  <2>1. CutAt(mem, q) = Token(mem, q, {"/"}, PATHMAX)
    BY <1>4 DEF CutAt
  <2>2. q \in 0..(PATHMAX - 1) /\ q \in 0..PATHMAX /\ mem[q] # "/" /\ PATHMAX \in Nat
    BY <1>1, <1>4, Sizes DEF FirstAt
  <2>3. /\ e \in q..PATHMAX /\ (e = PATHMAX \/ mem[e] \in {"/"} \cup {NUL})
        /\ \A b \in q..(e - 1) : mem[b] \notin {"/"} \cup {NUL}
    BY <2>2, ScanStops
  <2>4. CASE e = PATHMAX \/ mem[e] = NUL
    <3>1. CutAt(mem, q).mem = mem /\ CutAt(mem, q).next = NULL
      BY <2>1, <2>4 DEF Token
    <3>2. QED
      BY <1>2, <3>1
  <2>5. CASE ~ (e = PATHMAX \/ mem[e] = NUL)
    <3> DEFINE mem2 == [mem EXCEPT ![e] = NUL]
    <3>1. CutAt(mem, q).mem = mem2
      <4>1. Token(mem, q, {"/"}, PATHMAX)
              = [mem |-> [mem EXCEPT ![e] = NUL], token |-> q, next |-> e + 1, stray |-> FALSE]
        BY <2>5, Zenon DEF Token
      <4> HIDE DEF e, mem2
      <4>2. Token(mem, q, {"/"}, PATHMAX)
              = [mem |-> mem2, token |-> q, next |-> e + 1, stray |-> FALSE]
        BY <4>1, Zenon DEF mem2
      <4>3. QED
        BY <2>1, <4>2
    <3> HIDE DEF e
    <3>2. e \in 0..(PATHMAX - 1) /\ e # q
      BY <1>4, <2>2, <2>3, <2>5
    <3>3. /\ mem2 \in PathMem /\ mem2[e] = NUL
          /\ \A a \in 0..(PATHMAX - 1) : a # e => mem2[a] = mem[a]
      BY <3>2 DEF PathMem
    <3> HIDE DEF mem2
    <3>4. e \in q..PATHMAX /\ e > q
      BY <2>2, <2>3, <3>2
    <3>5. FirstAt(mem2, q)
      <4>1. \A b \in 0..(q - 1) : b \in 0..(PATHMAX - 1) /\ b # e
        BY <2>2, <3>4
      <4>2. QED
        BY <1>1, <2>2, <3>2, <3>3, <4>1 DEF FirstAt
    <3>6. \A b \in q..(e - 1) : mem2[b] \notin {"/"} \cup {NUL}
      <4>1. \A b \in q..(e - 1) : b \in 0..(PATHMAX - 1) /\ b # e
        BY <2>2, <3>2, <3>4
      <4>2. QED
        BY <2>3, <3>3, <4>1
    <3>7. Scan(mem2, q, {"/"} \cup {NUL}, PATHMAX) = e
      BY <2>2, <3>3, <3>4, <3>6, ScanIs
    <3>8. /\ Token(mem2, q, {"/"}, PATHMAX).next = NULL
          /\ Token(mem2, q, {"/"}, PATHMAX).token = q /\ q # NULL
      BY <2>2, <3>3, <3>7, NullIsNone DEF Token
    <3>9. q # PATHMAX /\ mem2[q] # NUL
      BY <1>4, <2>2, <3>2, <3>3
    <3>10. /\ strtok_r(mem2, 0, {"/"}, PATHMAX).next = NULL
           /\ strtok_r(mem2, 0, {"/"}, PATHMAX).token # NULL
      BY <3>5, <3>8, <3>9, StrtokIs DEF CutAt
    <3>11. QED
      BY <1>2, <3>1, <3>3, <3>10
  <2>6. QED
    BY <2>4, <2>5
<1>5. QED
  BY <1>3, <1>4

(* A string of one character. *)
LEMMA OneCharacter ==
  ASSUME NEW mem, NEW p \in 0..PATHMAX, NEW c
  PROVE  StringAt(mem, p, PATHMAX) = <<c>> <=>
           /\ p < PATHMAX /\ mem[p] = c /\ mem[p] # NUL
           /\ p + 1 = PATHMAX \/ mem[p + 1] = NUL
<1> DEFINE e == Scan(mem, p, {NUL}, PATHMAX)
           t == [k \in 1..(e - p) |-> mem[p + k - 1]]
<1>1. StringAt(mem, p, PATHMAX) = t
  BY DEF StringAt, strlen
<1>2. /\ PATHMAX \in Nat /\ e \in p..PATHMAX /\ (e = PATHMAX \/ mem[e] \in {NUL})
      /\ \A b \in p..(e - 1) : mem[b] \notin {NUL}
  BY ScanStops, Sizes
<1>3. ASSUME t = <<c>>
      PROVE  /\ p < PATHMAX /\ mem[p] = c /\ mem[p] # NUL
             /\ p + 1 = PATHMAX \/ mem[p + 1] = NUL
  <2> HIDE DEF e
  <2>1. DOMAIN t = 1..(e - p) /\ DOMAIN <<c>> = 1..1
    OBVIOUS
  <2> HIDE DEF t
  <2>2. 1..(e - p) = 1..1
    BY <1>3, <2>1
  <2>3. e - p \in Nat /\ e - p = 1
    BY <1>2, <2>2
  <2>4. t[1] = c /\ t[1] = mem[p]
    <3>1. 1 \in 1..(e - p) /\ p + 1 - 1 = p
      BY <2>3
    <3>2. t[1] = mem[p + 1 - 1]
      BY <3>1 DEF t
    <3>3. QED
      BY <1>3, <3>1, <3>2
  <2>5. QED
    BY <1>2, <2>3, <2>4
<1>4. ASSUME p < PATHMAX, mem[p] = c, mem[p] # NUL, p + 1 = PATHMAX \/ mem[p + 1] = NUL
      PROVE  t = <<c>>
  <2>1. e = p + 1
    <3>1. p + 1 \in p..PATHMAX /\ \A b \in p..(p + 1 - 1) : mem[b] \notin {NUL}
      BY <1>2, <1>4
    <3>2. QED
      BY <1>2, <1>4, <3>1, ScanIs
  <2> HIDE DEF e
  <2>2. e - p = 1
    BY <1>2, <2>1
  <2>3. t = [k \in 1..1 |-> mem[p + k - 1]]
    BY <2>2
  <2>4. \A k \in 1..1 : mem[p + k - 1] = c
    BY <1>4
  <2>5. t = [k \in 1..1 |-> c]
    BY <2>3, <2>4
  <2> HIDE DEF t
  <2>6. QED
    BY <2>5
<1>5. QED
  BY <1>1, <1>3, <1>4

(* A path before it is cut. *)
Fresh(b) == [a \in 0..(PATHMAX - 1) |->
               IF a < Len(PathIn[b]) THEN PathIn[b][a + 1] ELSE NUL]

LEMMA FreshIs ==
  ASSUME NEW b \in Buffer
  PROVE  /\ Fresh(b) \in PathMem /\ PathIn[b] \in Seq(Char)
         /\ Len(PathIn[b]) \in Nat /\ Len(PathIn[b]) < PATHMAX
         /\ \A a \in 0..(PATHMAX - 1) :
              /\ a < Len(PathIn[b]) => /\ Fresh(b)[a] = PathIn[b][a + 1]
                                       /\ Fresh(b)[a] # NUL
              /\ a >= Len(PathIn[b]) => Fresh(b)[a] = NUL
<1> DEFINE p == PathIn[b]
<1>1. p \in Seq(Char) /\ Len(p) < PATHMAX
  BY ElfAssumption
<1> HIDE DEF p
<1>2. Len(p) \in Nat /\ PATHMAX \in Nat
  BY <1>1, Sizes
<1>3. \A a \in 0..(PATHMAX - 1) : a < Len(p) => a + 1 \in 1..Len(p)
  BY <1>2
<1>4. \A a \in 0..(PATHMAX - 1) : a < Len(p) => p[a + 1] \in Char
  BY <1>1, <1>3
<1> DEFINE m == Fresh(b)
<1>5. m = [a \in 0..(PATHMAX - 1) |-> IF a < Len(p) THEN p[a + 1] ELSE NUL]
  BY DEF Fresh, p
<1> HIDE DEF m
<1>6. m \in PathMem
  BY <1>4, <1>5 DEF PathMem
<1>7. \A a \in 0..(PATHMAX - 1) :
         /\ a < Len(p) => m[a] = p[a + 1] /\ m[a] # NUL
         /\ a >= Len(p) => m[a] = NUL
  BY <1>2, <1>4, <1>5, SlashIsNotNul
<1>8. QED
  BY <1>1, <1>2, <1>6, <1>7 DEF p, m

(* A path without a token has slashes only. *)
LEMMA NoTokenNameless ==
  ASSUME NEW b \in Buffer, strtok_r(Fresh(b), 0, {"/"}, PATHMAX).token = NULL
  PROVE  Nameless(b)
<1> DEFINE mem == Fresh(b)
<1>1. PICK q : FirstAt(mem, q)
  BY FirstExists
<1>2. CutAt(mem, q).token = NULL
  BY <1>1, StrtokIs
<1>3. q = PATHMAX \/ mem[q] = NUL
  <2>1. Token(mem, q, {"/"}, PATHMAX).token = q
    BY DEF Token
  <2>2. q # NULL
    BY <1>1, Sizes, NullIsNone DEF FirstAt
  <2> HIDE DEF mem
  <2>3. QED
    BY <1>2, <2>1, <2>2 DEF CutAt
<1>4. SUFFICES ASSUME NEW k \in 1..Len(PathIn[b])
               PROVE  PathIn[b][k] = "/"
  BY DEF Nameless
<1>5. /\ k - 1 \in 0..(PATHMAX - 1) /\ k - 1 < Len(PathIn[b]) /\ k - 1 + 1 = k
      /\ Len(PathIn[b]) \in Nat /\ PATHMAX \in Nat
  BY <1>4, FreshIs, Sizes
<1>6. mem[k - 1] = PathIn[b][k]
  BY <1>5, FreshIs
<1>7. q \in 0..PATHMAX /\ \A a \in 0..(q - 1) : mem[a] = "/"
  BY <1>1 DEF FirstAt
<1>8. k - 1 \in 0..(q - 1)
  <2>1. q \in 0..(PATHMAX - 1) /\ q < Len(PathIn[b]) => mem[q] # NUL
    BY FreshIs
  <2> HIDE DEF mem
  <2>2. q = PATHMAX \/ q >= Len(PathIn[b])
    BY <1>3, <1>5, <1>7, <2>1
  <2>3. QED
    BY <1>5, <1>7, <2>2
<1>9. QED
  BY <1>6, <1>7, <1>8

(* What vfs_open makes of a path: is it mounted, is the file there? *)
Mounts(r) == r.token # NULL /\ \E m \in Mounted : StringAt(r.mem, r.token, PATHMAX) = <<m>>
Finds(r, f) == r.next # NULL /\ StringAt(r.mem, r.next, PATHMAX) = <<f>>

(* Slashes, a mount point, a slash, a name. *)
LEMMA MeansIs ==
  ASSUME NEW b \in Buffer, NEW f
  PROVE  Means(b, f) <=>
           LET p == PathIn[b]
               q == Len(p) - 3
           IN  /\ Len(p) >= 3 /\ \A k \in 1..q : p[k] = "/"
               /\ p[q + 1] \in Mounted /\ p[q + 2] = "/" /\ p[q + 3] = f
<1> DEFINE p == PathIn[b]
           q == Len(p) - 3
           All == UNION {Char, Mounted, {f, "/"}}
<1>1. p \in Seq(Char) /\ Len(p) \in Nat
  BY FreshIs
<1>2. p \in Seq(All) /\ "/" \in All /\ f \in All /\ Mounted \subseteq All
  <2>1. Char \subseteq All /\ "/" \in All /\ f \in All /\ Mounted \subseteq All
    OBVIOUS
  <2> HIDE DEF p, All
  <2>2. p \in Seq(All)
    BY <1>1, <2>1, SeqMonotonic
  <2>3. QED
    BY <2>1, <2>2
<1> HIDE DEF p, All
<1>3. ASSUME NEW m \in Mounted, NEW n \in Nat
      PROVE  LET s == [k \in 1..n |-> "/"] \o <<m, "/", f>>
             IN  /\ s \in Seq(All) /\ Len(s) = n + 3
                 /\ \A k \in 1..n : s[k] = "/"
                 /\ s[n + 1] = m /\ s[n + 2] = "/" /\ s[n + 3] = f
  <2> DEFINE x == [k \in 1..n |-> "/"]
             y == <<m, "/", f>>
  <2>1. x \in Seq(All) /\ Len(x) = n /\ \A k \in 1..n : x[k] = "/"
    <3>1. x \in [1..n -> All]
      BY <1>2
    <3>2. QED
      BY <3>1, IsASeq
  <2>2. y \in Seq(All) /\ Len(y) = 3 /\ y[1] = m /\ y[2] = "/" /\ y[3] = f
    BY <1>2, <1>3
  <2> HIDE DEF x, y
  <2> DEFINE z == x \o y
  <2>3. /\ z \in Seq(All) /\ Len(z) = Len(x) + Len(y)
        /\ \A k \in 1..(Len(x) + Len(y)) : z[k] = IF k <= Len(x) THEN x[k] ELSE y[k - Len(x)]
    BY <2>1, <2>2, ConcatProperties
  <2> HIDE DEF z
  <2>4. z \in Seq(All) /\ Len(z) = n + 3
    BY <2>1, <2>2, <2>3
  <2>5. ASSUME NEW k \in 1..n
        PROVE  z[k] = "/"
    BY <1>3, <2>1, <2>2, <2>3
  <2>6. ASSUME NEW k \in 1..3
        PROVE  z[n + k] = y[k]
    <3>1. n + k \in 1..(Len(x) + Len(y)) /\ ~ (n + k <= Len(x)) /\ n + k - Len(x) = k
      BY <1>3, <2>1, <2>2
    <3>2. QED
      BY <2>3, <3>1
  <2>7. z[n + 1] = y[1] /\ z[n + 2] = y[2] /\ z[n + 3] = y[3]
    BY <2>6
  <2>8. QED
    BY <2>2, <2>4, <2>5, <2>7 DEF x, y, z
<1>4. ASSUME Means(b, f)
      PROVE  /\ Len(p) >= 3 /\ \A k \in 1..q : p[k] = "/"
             /\ p[q + 1] \in Mounted /\ p[q + 2] = "/" /\ p[q + 3] = f
  <2>1. PICK m \in Mounted, n \in 0..Len(p) : p = [k \in 1..n |-> "/"] \o <<m, "/", f>>
    BY <1>4 DEF Means, p
  <2>2. n \in Nat
    BY <1>1
  <2>3. /\ Len(p) = n + 3 /\ \A k \in 1..n : p[k] = "/"
        /\ p[n + 1] = m /\ p[n + 2] = "/" /\ p[n + 3] = f
    BY <1>3, <2>1, <2>2
  <2>4. q = n
    BY <2>2, <2>3
  <2>5. QED
    BY <2>1, <2>2, <2>3, <2>4
<1>5. ASSUME /\ Len(p) >= 3 /\ \A k \in 1..q : p[k] = "/"
             /\ p[q + 1] \in Mounted /\ p[q + 2] = "/" /\ p[q + 3] = f
      PROVE  Means(b, f)
  <2> DEFINE m == p[q + 1]
             s == [k \in 1..q |-> "/"] \o <<m, "/", f>>
  <2>1. q \in Nat /\ q \in 0..Len(p) /\ Len(p) = q + 3
    BY <1>1, <1>5
  <2> HIDE DEF q
  <2>2. /\ s \in Seq(All) /\ Len(s) = q + 3 /\ \A k \in 1..q : s[k] = "/"
        /\ s[q + 1] = m /\ s[q + 2] = "/" /\ s[q + 3] = f
    BY <1>3, <1>5, <2>1
  <2> HIDE DEF s
  <2>3. \A k \in 1..(q + 3) : k \in 1..q \/ k = q + 1 \/ k = q + 2 \/ k = q + 3
    BY <2>1
  <2>4. \A k \in 1..Len(p) : p[k] = s[k]
    BY <1>5, <2>1, <2>2, <2>3
  <2>5. p = s
    BY <1>2, <2>1, <2>2, <2>4, SeqEqual
  <2>6. QED
    BY <1>5, <2>1, <2>5 DEF Means, p, s
<1>6. QED
  BY <1>4, <1>5 DEF p

(* r is what strtok_r returns when a token begins at q and ends at e. *)
CutBy(r, mem, q, e) ==
  IF e = PATHMAX \/ mem[e] = NUL THEN r.next = NULL
  ELSE r.mem = [mem EXCEPT ![e] = NUL] /\ r.token = q /\ r.next = e + 1

LEMMA CutIs ==
  ASSUME NEW mem \in PathMem, NEW q \in 0..(PATHMAX - 1), FirstAt(mem, q),
         mem[q] # NUL, NEW e \in Nat, e = Scan(mem, q, {"/"} \cup {NUL}, PATHMAX)
  PROVE  CutBy(strtok_r(mem, 0, {"/"}, PATHMAX), mem, q, e)
<1>1. q # PATHMAX
  BY Sizes
<1>2. strtok_r(mem, 0, {"/"}, PATHMAX) = Token(mem, q, {"/"}, PATHMAX)
  BY <1>1, StrtokIs DEF CutAt
<1>3. CASE e = PATHMAX \/ mem[e] = NUL
  <2>1. Token(mem, q, {"/"}, PATHMAX) =
          [mem |-> mem, token |-> q, next |-> NULL, stray |-> e = PATHMAX]
    BY <1>3, Zenon DEF Token
  <2>2. QED
    BY <1>2, <1>3, <2>1 DEF CutBy
<1>4. CASE ~ (e = PATHMAX \/ mem[e] = NUL)
  <2> DEFINE mem2 == [mem EXCEPT ![e] = NUL]
  <2>1. Token(mem, q, {"/"}, PATHMAX) =
          [mem |-> mem2, token |-> q, next |-> e + 1, stray |-> FALSE]
    BY <1>4, Zenon DEF Token
  <2> DEFINE r == strtok_r(mem, 0, {"/"}, PATHMAX)
             x == e + 1
  <2>2. r = [mem |-> mem2, token |-> q, next |-> x, stray |-> FALSE]
    BY <1>2, <2>1, Zenon
  <2> HIDE DEF mem2, r, x
  <2>3. r.mem = mem2 /\ r.token = q /\ r.next = x
    BY <2>2
  <2>4. QED
    BY <1>4, <2>3, Zenon DEF mem2, r, x, CutBy
<1>5. QED
  BY <1>3, <1>4

(* A path leads vfs_open to the file it means, the first time. *)
LEMMA OpenMeans ==
  ASSUME NEW b \in Buffer, NEW f
  PROVE  LET r == strtok_r(Fresh(b), 0, {"/"}, PATHMAX)
         IN  Mounts(r) /\ Finds(r, f) <=> Means(b, f)
<1> DEFINE p == PathIn[b]
           n == Len(p)
           mem == Fresh(b)
           r == strtok_r(mem, 0, {"/"}, PATHMAX)
<1>1. /\ mem \in PathMem /\ n \in Nat /\ n < PATHMAX /\ PATHMAX \in Nat
      /\ \A a \in 0..(PATHMAX - 1) :
           /\ a < n => mem[a] = p[a + 1] /\ mem[a] # NUL
           /\ a >= n => mem[a] = NUL
  BY FreshIs, Sizes
<1> HIDE DEF mem, n
<1>2. ASSUME Mounts(r), Finds(r, f)
      PROVE  Means(b, f)
  <2>1. PICK q : FirstAt(mem, q)
    BY FirstExists
  <2>2. q # PATHMAX /\ mem[q] # NUL
    <3>1. CASE q = PATHMAX \/ mem[q] = NUL
      <4>1. CutAt(mem, q).next = NULL
        BY <3>1 DEF CutAt, NoToken
      <4>2. QED
        BY <1>2, <2>1, <4>1, StrtokIs DEF Finds
    <3>2. QED
      BY <3>1
  <2>3. q \in 0..(PATHMAX - 1) /\ q \in 0..PATHMAX /\ mem[q] # "/" /\ q < n
    BY <1>1, <2>1, <2>2 DEF FirstAt
  <2> DEFINE e == Scan(mem, q, {"/"} \cup {NUL}, PATHMAX)
  <2>4. /\ e \in q..PATHMAX /\ (e = PATHMAX \/ mem[e] \in {"/"} \cup {NUL})
        /\ \A a \in q..(e - 1) : mem[a] \notin {"/"} \cup {NUL}
    BY <1>1, <2>3, ScanStops
  <2>a. e \in Nat /\ e = Scan(mem, q, {"/"} \cup {NUL}, PATHMAX)
    BY <2>3, <2>4
  <2> HIDE DEF e
  <2>b. CutBy(r, mem, q, e)
    BY <1>1, <2>1, <2>2, <2>3, <2>a, CutIs
  <2> HIDE DEF r
  <2>5. e # PATHMAX /\ mem[e] # NUL
    BY <1>2, <2>b DEF Finds, CutBy
  <2> DEFINE mem2 == [mem EXCEPT ![e] = NUL]
  <2>6. r.mem = mem2 /\ r.token = q /\ r.next = e + 1
    BY <2>5, <2>b DEF CutBy
  <2>7. mem[e] = "/" /\ e \in 0..(PATHMAX - 1) /\ e > q /\ e < n
    BY <1>1, <2>2, <2>3, <2>4, <2>5
  <2>8. mem2[e] = NUL /\ \A a \in 0..(PATHMAX - 1) : a # e => mem2[a] = mem[a]
    BY <1>1, <2>7 DEF PathMem
  <2>9. /\ StringAt(mem2, e + 1, PATHMAX) = <<f>>
        /\ \E m \in Mounted : StringAt(mem2, q, PATHMAX) = <<m>>
    BY <1>2, <2>6 DEF Mounts, Finds
  <2> HIDE DEF mem2
  <2>10. /\ mem2[q] \in Mounted /\ (q + 1 = PATHMAX \/ mem2[q + 1] = NUL)
    BY <2>3, <2>9, OneCharacter
  <2>11. e = q + 1
    <3>1. SUFFICES ASSUME q + 1 < e
                   PROVE  FALSE
      BY <2>3, <2>7
    <3>2. q + 1 \in 0..(PATHMAX - 1) /\ q + 1 # e /\ q + 1 \in q..(e - 1)
      BY <1>1, <2>3, <2>7, <3>1
    <3>3. mem2[q + 1] = mem[q + 1] /\ mem[q + 1] # NUL /\ q + 1 # PATHMAX
      BY <1>1, <2>4, <2>8, <3>2
    <3>4. QED
      BY <2>10, <3>3
  <2>12. e + 1 \in 0..PATHMAX
    BY <1>1, <2>7
  <2>13. /\ e + 1 < PATHMAX /\ mem2[e + 1] = f /\ mem2[e + 1] # NUL
         /\ e + 2 = PATHMAX \/ mem2[e + 2] = NUL
    <3>1. e + 1 + 1 = e + 2
      BY <2>7
    <3>2. QED
      BY <2>9, <2>12, <3>1, OneCharacter
  <2>14. e + 1 \in 0..(PATHMAX - 1) /\ e + 1 # e /\ mem[e + 1] = f /\ mem[e + 1] # NUL
    BY <1>1, <2>7, <2>8, <2>13
  <2>15. e + 1 < n
    BY <1>1, <2>14
  <2>16. e + 2 = n
    <3>1. SUFFICES ASSUME e + 2 < n
                   PROVE  FALSE
      BY <1>1, <2>7, <2>15
    <3>2. e + 2 \in 0..(PATHMAX - 1) /\ e + 2 # e /\ e + 2 # PATHMAX
      BY <1>1, <2>7, <3>1
    <3>3. mem2[e + 2] = mem[e + 2] /\ mem[e + 2] # NUL
      BY <1>1, <2>8, <3>1, <3>2
    <3>4. QED
      BY <2>13, <3>2, <3>3
  <2>17. q = n - 3 /\ n >= 3 /\ e = n - 2
    BY <1>1, <2>3, <2>11, <2>16
  <2>18. mem2[q] = mem[q]
    BY <2>3, <2>7, <2>8
  <2>19. /\ mem[q] = p[q + 1] /\ mem[e] = p[e + 1] /\ mem[e + 1] = p[e + 1 + 1]
    BY <1>1, <2>3, <2>7, <2>14, <2>15
  <2>20. p[q + 1] \in Mounted /\ p[q + 2] = "/" /\ p[q + 3] = f
    <3>1. e + 1 = q + 2 /\ e + 1 + 1 = q + 3
      BY <2>3, <2>11
    <3>2. QED
      BY <2>7, <2>10, <2>14, <2>18, <2>19, <3>1
  <2>21. ASSUME NEW k \in 1..q
         PROVE  p[k] = "/"
    <3>1. k - 1 \in 0..(q - 1) /\ k - 1 \in 0..(PATHMAX - 1) /\ k - 1 < n /\ k - 1 + 1 = k
      BY <1>1, <2>3
    <3>2. mem[k - 1] = "/" /\ mem[k - 1] = p[k - 1 + 1]
      BY <1>1, <2>1, <3>1 DEF FirstAt
    <3>3. QED
      BY <3>1, <3>2
  <2>22. QED
    BY <2>17, <2>20, <2>21, MeansIs DEF n
<1>3. ASSUME Means(b, f)
      PROVE  Mounts(r) /\ Finds(r, f)
  <2> DEFINE q == n - 3
             e == q + 1
  <2>1. /\ n >= 3 /\ \A k \in 1..q : p[k] = "/"
        /\ p[q + 1] \in Mounted /\ p[q + 2] = "/" /\ p[q + 3] = f
    BY <1>3, MeansIs DEF n
  <2>2. q \in Nat /\ n = q + 3
    BY <1>1, <2>1
  <2> HIDE DEF q
  <2>3. /\ q \in 0..(PATHMAX - 1) /\ q + 1 \in 0..(PATHMAX - 1) /\ q + 2 \in 0..(PATHMAX - 1)
        /\ q + 3 \in 0..(PATHMAX - 1)
        /\ q < n /\ q + 1 < n /\ q + 2 < n /\ q + 3 >= n
    BY <1>1, <2>2
  <2>4. mem[q] \in Mounted /\ mem[q] # NUL /\ mem[q] # "/"
    BY <1>1, <2>1, <2>3, ElfAssumption
  <2>5. mem[q + 1] = "/" /\ mem[q + 1] # NUL
    <3>1. q + 1 + 1 = q + 2
      BY <2>2
    <3>2. QED
      BY <1>1, <2>1, <2>3, <3>1
  <2>6. mem[q + 2] = f /\ mem[q + 2] # NUL /\ mem[q + 3] = NUL
    <3>1. q + 2 + 1 = q + 3
      BY <2>2
    <3>2. QED
      BY <1>1, <2>1, <2>3, <3>1
  <2>7. FirstAt(mem, q)
    <3>1. ASSUME NEW a \in 0..(q - 1)
          PROVE  mem[a] = "/"
      <4>1. a + 1 \in 1..q /\ a \in 0..(PATHMAX - 1) /\ a < n
        BY <1>1, <2>2, <2>3
      <4>2. QED
        BY <1>1, <2>1, <4>1
    <3>2. QED
      BY <1>1, <2>3, <2>4, <3>1 DEF FirstAt
  <2>8. Scan(mem, q, {"/"} \cup {NUL}, PATHMAX) = e
    <3>1. \A a \in q..(e - 1) : a = q
      BY <2>2
    <3>2. e \in q..PATHMAX /\ q \in 0..PATHMAX
      BY <1>1, <2>2, <2>3
    <3> DEFINE S == {"/"} \cup {NUL}
    <3>3. mem[e] \in S /\ \A a \in q..(e - 1) : mem[a] \notin S
      BY <2>4, <2>5, <3>1
    <3>4. PATHMAX \in Nat
      BY Sizes
    <3> HIDE DEF S, e, mem
    <3>5. Scan(mem, q, S, PATHMAX) = e
      BY <3>2, <3>3, <3>4, ScanIs
    <3>6. QED
      BY <3>5 DEF S
  <2> DEFINE mem2 == [mem EXCEPT ![e] = NUL]
  <2>9. ~ (e = PATHMAX \/ mem[e] = NUL)
    BY <2>3, <2>5
  <2> HIDE DEF e
  <2>10. r.mem = mem2 /\ r.token = q /\ r.next = e + 1
    <3>1. e \in Nat
      BY <2>2 DEF e
    <3>2. CutBy(r, mem, q, e)
      BY <1>1, <2>3, <2>4, <2>7, <2>8, <3>1, CutIs
    <3> HIDE DEF r
    <3>3. QED
      BY <2>9, <3>2 DEF CutBy
  <2> USE DEF e
  <2>11. mem2[q + 1] = NUL /\ \A a \in 0..(PATHMAX - 1) : a # q + 1 => mem2[a] = mem[a]
    BY <1>1, <2>3 DEF PathMem
  <2> HIDE DEF mem2, r
  <2>12. mem2[q] = mem[q] /\ mem2[q + 2] = mem[q + 2] /\ mem2[q + 3] = mem[q + 3]
    BY <2>2, <2>3, <2>11
  <2>13. StringAt(mem2, q, PATHMAX) = <<mem[q]>>
    <3>1. q \in 0..PATHMAX /\ q < PATHMAX
      BY <1>1, <2>3
    <3>2. QED
      BY <2>4, <2>11, <2>12, <3>1, OneCharacter
  <2>14. StringAt(mem2, q + 2, PATHMAX) = <<f>>
    <3>1. q + 2 \in 0..PATHMAX /\ q + 2 < PATHMAX /\ q + 2 + 1 = q + 3
      BY <1>1, <2>3
    <3>2. QED
      BY <2>6, <2>12, <3>1, OneCharacter
  <2>15. e + 1 = q + 2 /\ q # NULL /\ e + 1 # NULL
    BY <2>2, NullIsNone
  <2>16. QED
    BY <2>4, <2>10, <2>13, <2>14, <2>15 DEF Mounts, Finds
<1>4. QED
  BY <1>2, <1>3 DEF mem

LEMMA MeansOne ==
  ASSUME NEW b \in Buffer, NEW f, NEW g, Means(b, f), Means(b, g)
  PROVE  f = g
BY MeansIs

-----------------------------------------------------------------------------
(* Frames.  The first n members of a set of numbers. *)
Ranked(S, n) == {p \in S : Cardinality({q \in S : q <= p}) <= n}

LEMMA RankedIs ==
  ASSUME NEW hi \in Int, NEW S \in SUBSET Nat, \A p \in S : p <= hi, NEW n \in Nat
  PROVE  /\ Cardinality(Ranked(S, n)) \in 0..n
         /\ Ranked(S, n) # S => Cardinality(Ranked(S, n)) = n
<1> DEFINE T == Ranked(S, n)
           To(p) == {q \in S : q <= p}
<1>1. T \subseteq S /\ \A p \in S : p \in T <=> Cardinality(To(p)) <= n
  BY DEF Ranked
<1>2. IsFiniteSet(S)
  <2>1. IsFiniteSet(0..hi)
    BY FS_Interval
  <2>2. S \in SUBSET (0..hi)
    OBVIOUS
  <2>3. QED
    BY <2>1, <2>2, FS_Subset
<1>3. IsFiniteSet(T) /\ Cardinality(T) \in Nat
  <2>1. T \in SUBSET S
    BY <1>1
  <2> HIDE DEF T
  <2>2. IsFiniteSet(T)
    BY <1>2, <2>1, FS_Subset
  <2>3. QED
    BY <2>2, FS_CardinalityType
<1>4. \A p \in S : IsFiniteSet(To(p)) /\ Cardinality(To(p)) \in Nat
  <2>1. TAKE p \in S
  <2>2. To(p) \in SUBSET S
    OBVIOUS
  <2> HIDE DEF To
  <2>3. IsFiniteSet(To(p))
    BY <1>2, <2>2, FS_Subset
  <2>4. QED
    BY <2>3, FS_CardinalityType
<1> HIDE DEF T
<1>5. Cardinality(T) <= n
  <2>1. CASE T = {}
    BY <2>1, FS_EmptySet
  <2>2. CASE T # {}
    <3> DEFINE U == {k \in Nat : hi - k \in T}
    <3>1. U # {} /\ U \in SUBSET Nat
      <4>1. PICK t \in T : TRUE
        BY <2>2
      <4>2. t \in Nat /\ t <= hi
        BY <1>1
      <4>3. hi - t \in Nat /\ hi - (hi - t) = t
        BY <4>2
      <4>4. hi - t \in U
        BY <4>1, <4>3
      <4>5. QED
        BY <4>4
    <3>2. PICK k \in U : \A j \in U : k <= j
      BY <3>1, LeastNumber
    <3> DEFINE m == hi - k
    <3>3. m \in T
      BY <3>2
    <3>4. ASSUME NEW t \in T
          PROVE  t <= m
      <4>1. t \in Nat /\ t <= hi /\ k \in Nat
        BY <1>1, <3>2
      <4>2. hi - t \in Nat /\ hi - (hi - t) = t
        BY <4>1
      <4>3. hi - t \in U
        BY <4>2
      <4>4. k <= hi - t
        BY <3>2, <4>3
      <4>5. QED
        BY <4>1, <4>4
    <3> HIDE DEF m
    <3>5. m \in S /\ Cardinality(To(m)) <= n
      BY <1>1, <3>3
    <3>6. T \in SUBSET To(m)
      BY <1>1, <3>4
    <3>7. IsFiniteSet(To(m)) /\ Cardinality(To(m)) \in Nat
      BY <1>4, <3>5
    <3> HIDE DEF To
    <3>8. Cardinality(T) <= Cardinality(To(m))
      BY <3>6, <3>7, FS_Subset
    <3>9. QED
      BY <1>3, <3>5, <3>7, <3>8
  <2>3. QED
    BY <2>1, <2>2
<1>6. ASSUME T # S
      PROVE  Cardinality(T) >= n
  <2>1. S \ T # {} /\ S \ T \in SUBSET Nat
    BY <1>1, <1>6
  <2>2. PICK p \in S \ T : \A y \in S \ T : p <= y
    BY <2>1, LeastNumber
  <2>3. Cardinality(To(p)) > n /\ Cardinality(To(p)) \in Nat /\ IsFiniteSet(To(p))
    <3>1. p \in S /\ ~ (Cardinality(To(p)) <= n)
      BY <1>1, <2>2
    <3>2. Cardinality(To(p)) \in Nat /\ IsFiniteSet(To(p))
      BY <1>4, <3>1
    <3> HIDE DEF To
    <3>3. QED
      BY <3>1, <3>2
  <2>4. To(p) \subseteq T \cup {p}
    <3>1. SUFFICES ASSUME NEW q \in To(p), q \notin T, q # p
                   PROVE  FALSE
      OBVIOUS
    <3>2. q \in S /\ q <= p /\ p <= q /\ q \in Nat /\ p \in Nat
      BY <2>2, <3>1
    <3>3. QED
      BY <3>1, <3>2
  <2> HIDE DEF To
  <2>5. IsFiniteSet(T \cup {p}) /\ Cardinality(T \cup {p}) = Cardinality(T) + 1
    BY <1>3, <2>2, FS_AddElement
  <2>6. Cardinality(To(p)) <= Cardinality(T \cup {p})
    BY <2>4, <2>5, FS_Subset
  <2>7. QED
    BY <1>3, <2>3, <2>5, <2>6
<1>7. QED
  BY <1>3, <1>5, <1>6 DEF T

(* Pages.  Where the pages of a segment begin and end. *)
FirstPage(s) == s.vaddr \div PAGE
SegStart(s) == PAGE_ALIGN_UP(s.vaddr)
SegSize(s) == (PAGE_ALIGN_DWN((s.vaddr + s.memsz) % WORD) - SegStart(s)) % WORD
PageEnd(s) == ((SegStart(s) + SegSize(s)) % WORD) \div PAGE

LEMMA PageBounds ==
  ASSUME NEW a \in Nat
  PROVE  /\ a \div PAGE \in Nat /\ PAGE * (a \div PAGE) \in Nat
         /\ PAGE * (a \div PAGE) <= a /\ a < PAGE * (a \div PAGE) + PAGE
<1>1. PAGE \in Nat \ {0}
  BY Sizes
<1> DEFINE q == a \div PAGE
           r == a % PAGE
<1>2. a = PAGE * q + r /\ q \in Nat /\ r \in 0..(PAGE - 1)
  BY <1>1, QuotientRemainder
<1> HIDE DEF q, r
<1>3. PAGE * q \in Nat
  BY <1>1, <1>2, Multiples
<1> DEFINE m == PAGE * q
<1> HIDE DEF m
<1>4. m \in Nat /\ a = m + r
  BY <1>2, <1>3 DEF m
<1>5. m <= a /\ a < m + PAGE
  BY <1>1, <1>2, <1>4
<1>6. QED
  BY <1>2, <1>4, <1>5 DEF m, q

LEMMA SmallRemainder ==
  ASSUME NEW x \in Word
  PROVE  x % WORD = x
BY Sizes DEF Word

LEMMA AnyRemainder ==
  ASSUME NEW x \in Int
  PROVE  x % WORD \in Word /\ x % WORD \in Nat
BY Sizes DEF Word

(* A segment rounded to pages, if no word overflows. *)
LEMMA RoundedPages ==
  ASSUME NEW s \in Segment
  PROVE  LET start == (s.vaddr \div PAGE) * PAGE
             end == ((s.vaddr + s.memsz + PAGE - 1) \div PAGE) * PAGE
         IN  /\ start \in Nat /\ end \in Nat /\ start <= end
             /\ start <= s.vaddr /\ end <= s.vaddr + s.memsz + PAGE - 1
             /\ start \div PAGE = FirstPage(s)
             /\ FirstPage(s) \in Nat /\ end \div PAGE \in Nat
             /\ start = 0 <=> s.vaddr < PAGE
             /\ end - start = 0 <=> s.memsz = 0 /\ s.vaddr % PAGE = 0
             /\ \A a \in Nat : s.vaddr <= a /\ a < s.vaddr + s.memsz =>
                                  a \div PAGE \in FirstPage(s)..(end \div PAGE - 1)
<1> DEFINE v == s.vaddr
           e == s.vaddr + s.memsz
           P == PAGE
           f == v \div P
           c == (e + P - 1) \div P
<1>1. v \in Nat /\ s.memsz \in Nat /\ e \in Nat /\ P \in Nat \ {0} /\ e + P - 1 \in Nat
  BY SegmentFields, Sizes DEF Word
<1>2. /\ f \in Nat /\ P * f \in Nat /\ P * f <= v /\ v < P * f + P
  BY <1>1, PageBounds
<1>3. /\ c \in Nat /\ P * c \in Nat /\ P * c <= e + P - 1 /\ e + P - 1 < P * c + P
  BY <1>1, PageBounds
<1> DEFINE start == f * P
           end == c * P
<1>5. FirstPage(s) = f
  BY DEF FirstPage
<1>4. /\ start = (s.vaddr \div PAGE) * PAGE
      /\ end = ((s.vaddr + s.memsz + PAGE - 1) \div PAGE) * PAGE
  OBVIOUS
<1> HIDE DEF f, c
<1>6. f * P = P * f /\ c * P = P * c
  BY <1>1, <1>2, <1>3
<1>7. f <= c
  <2>1. SUFFICES ASSUME c < f
                 PROVE  FALSE
    BY <1>2, <1>3
  <2>2. P * c + P <= P * f
    BY <1>1, <1>2, <1>3, <2>1, Multiples
  <2> HIDE DEF v, e, P
  <2>3. e = v + s.memsz
    BY DEF e, v
  <2>4. QED
    BY <1>1, <1>2, <1>3, <2>2, <2>3
<1>8. P * f <= P * c
  BY <1>1, <1>2, <1>3, <1>7, Multiples
<1>9. (P * f) \div P = f /\ (P * c) \div P = c
  <2>1. 0 \in 0..(P - 1) /\ P * f + 0 = P * f /\ P * c + 0 = P * c
    BY <1>1, <1>2, <1>3
  <2>2. (P * f + 0) \div P = f /\ (P * c + 0) \div P = c
    BY <1>1, <1>2, <1>3, <2>1, QuotientIs
  <2>3. QED
    BY <2>1, <2>2
<1>10. P * f = 0 <=> v < P
  <2>1. f = 0 \/ f >= 1
    BY <1>2
  <2>2. f = 0 => P * f = 0
    BY <1>1
  <2>3. f >= 1 => P * f >= P
    <3>1. P * 1 = P /\ (1 <= f => P * 1 <= P * f)
      BY <1>1, <1>2, Multiples
    <3>2. QED
      BY <1>2, <3>1
  <2>4. QED
    BY <1>1, <1>2, <2>1, <2>2, <2>3
<1>11. P * c - P * f = 0 <=> s.memsz = 0 /\ v % P = 0
  <2> DEFINE r == v % P
  <2>1. v = P * f + r /\ r \in 0..(P - 1)
    BY <1>1, QuotientRemainder DEF f
  <2> HIDE DEF r
  <2>2. ASSUME s.memsz = 0, r = 0
        PROVE  P * c = P * f
    <3>1. e = P * f
      BY <1>1, <1>2, <2>1, <2>2
    <3>2. e + P - 1 = P * f + (P - 1) /\ P - 1 \in 0..(P - 1)
      BY <1>1, <1>2, <3>1
    <3>3. c = f
      BY <1>1, <1>2, <3>2, QuotientIs DEF c
    <3>4. QED
      BY <3>3
  <2>3. ASSUME P * c = P * f
        PROVE  s.memsz = 0 /\ r = 0
    <3> DEFINE x == P * f
    <3>1. x \in Nat /\ v = x + r /\ e + P - 1 < x + P /\ e = v + s.memsz
      BY <1>2, <1>3, <2>1, <2>3
    <3> HIDE DEF x, v, e, P
    <3>2. QED
      BY <1>1, <2>1, <3>1
  <2>4. QED
    BY <1>2, <1>3, <2>2, <2>3 DEF r
<1>12. ASSUME NEW a \in Nat, v <= a, a < v + s.memsz
       PROVE  a \div P \in f..(c - 1)
  <2> DEFINE g == a \div P
  <2>1. a \in Nat /\ v <= a /\ a <= e - 1
    BY <1>1, <1>12
  <2>2. g \in Nat /\ P * g \in Nat /\ P * g <= a /\ a < P * g + P
    BY <2>1, PageBounds
  <2> HIDE DEF g, v, e, P
  <2>3. ~ (g < f)
    <3>1. g < f => P * g + P <= P * f
      BY <1>1, <1>2, <2>2, Multiples
    <3>2. QED
      BY <1>1, <1>2, <2>1, <2>2, <3>1
  <2>4. ~ (c <= g)
    <3>1. c <= g => P * c <= P * g
      BY <1>1, <1>3, <2>2, Multiples
    <3>2. QED
      BY <1>1, <1>3, <2>1, <2>2, <3>1
  <2>5. g \in f..(c - 1)
    BY <1>2, <1>3, <2>2, <2>3, <2>4
  <2>6. QED
    BY <2>5 DEF g
<1>13. start = P * f /\ end = P * c
  BY <1>6
<1> HIDE DEF start, end
<1>14. start \in Nat /\ end \in Nat /\ start <= end /\ start <= v /\ end <= e + P - 1
  BY <1>2, <1>3, <1>8, <1>13
<1>15. /\ start \div PAGE = f /\ end \div PAGE = c
       /\ start = 0 <=> v < PAGE
       /\ end - start = 0 <=> s.memsz = 0 /\ v % PAGE = 0
  BY <1>9, <1>10, <1>11, <1>13
<1>16. QED
  BY <1>2, <1>3, <1>4, <1>5, <1>12, <1>14, <1>15

(* Where the end is a word, the region is the segment rounded to pages; an *)
(* empty segment at the beginning of a page has none in any case.          *)
LEMMA SegmentPages ==
  ASSUME NEW s \in Segment
  PROVE  /\ SegStart(s) \in Nat /\ SegSize(s) \in Nat
         /\ SegStart(s) \div PAGE = FirstPage(s)
         /\ FirstPage(s) \in Nat /\ PageEnd(s) \in Nat
         /\ SegStart(s) = 0 <=> s.vaddr < PAGE
         /\ SegSize(s) = 0 => Wraps(s) \/ (s.memsz = 0 /\ s.vaddr % PAGE = 0)
         /\ s.memsz = 0 /\ s.vaddr % PAGE = 0 => SegSize(s) = 0
         /\ Wraps(s) \/ \A a \in Bytes(s) : a \div PAGE \in FirstPage(s)..(PageEnd(s) - 1)
<1> DEFINE v == s.vaddr
           m == s.memsz
           start == (v \div PAGE) * PAGE
           end == ((v + m + PAGE - 1) \div PAGE) * PAGE
<1>1. /\ v \in Nat /\ m \in Nat /\ v < WORD /\ WORD \in Nat /\ PAGE \in Nat \ {0}
      /\ v \in Word
  BY SegmentFields, Sizes DEF Word
<1>2. /\ start \in Nat /\ end \in Nat /\ start <= end
      /\ start <= v /\ end <= v + m + PAGE - 1
      /\ start \div PAGE = FirstPage(s)
      /\ FirstPage(s) \in Nat /\ end \div PAGE \in Nat
      /\ start = 0 <=> v < PAGE
      /\ end - start = 0 <=> m = 0 /\ v % PAGE = 0
      /\ \A a \in Nat : v <= a /\ a < v + m => a \div PAGE \in FirstPage(s)..(end \div PAGE - 1)
  BY RoundedPages
<1>3. SegStart(s) = start
  BY DEF SegStart, PAGE_ALIGN_UP
<1>4. SegSize(s) \in Nat /\ PageEnd(s) \in Nat
  <2> DEFINE x == PAGE_ALIGN_DWN((v + m) % WORD) - SegStart(s)
             y == SegStart(s) + SegSize(s)
  <2>1. (v + m) % WORD \in Nat
    BY <1>1, AnyRemainder
  <2>2. PAGE_ALIGN_DWN((v + m) % WORD) \in Int
    <3> DEFINE z == ((((v + m) % WORD) + PAGE - 1) % WORD) \div PAGE
    <3>1. (((v + m) % WORD) + PAGE - 1) % WORD \in Nat
      BY <1>1, <2>1, AnyRemainder
    <3>2. z \in Nat
      BY <1>1, <3>1, QuotientRemainder
    <3> HIDE DEF z
    <3>3. z * PAGE \in Int
      BY <1>1, <3>2
    <3>4. QED
      BY <3>3 DEF PAGE_ALIGN_DWN, z
  <2>3. SegSize(s) \in Nat
    <3>1. x \in Int
      BY <1>2, <1>3, <2>2
    <3> HIDE DEF x
    <3>2. x % WORD \in Nat
      BY <3>1, AnyRemainder
    <3>3. QED
      BY <3>2 DEF x, SegSize
  <2>4. y \in Nat
    BY <1>2, <1>3, <2>3
  <2>5. PageEnd(s) \in Nat
    <3> HIDE DEF y
    <3>1. y % WORD \in Nat
      BY <2>4, AnyRemainder
    <3>2. (y % WORD) \div PAGE \in Nat
      BY <1>1, <3>1, QuotientRemainder
    <3>3. QED
      BY <3>2 DEF y, PageEnd
  <2>6. QED
    BY <2>3, <2>5
<1>5. ASSUME ~ Wraps(s)
      PROVE  SegSize(s) = end - start /\ PageEnd(s) = end \div PAGE
  <2>1. v + m + PAGE <= WORD
    BY <1>1, <1>5 DEF Wraps
  <2>2. v + m \in Word /\ v + m + PAGE - 1 \in Word
    BY <1>1, <2>1 DEF Word
  <2>3. (v + m) % WORD = v + m /\ (v + m + PAGE - 1) % WORD = v + m + PAGE - 1
    BY <2>2, SmallRemainder
  <2>4. PAGE_ALIGN_DWN((v + m) % WORD) = end
    BY <2>3 DEF PAGE_ALIGN_DWN
  <2> HIDE DEF start, end
  <2>5. end - start \in Word /\ end \in Word
    BY <1>1, <1>2, <2>1 DEF Word
  <2>6. SegSize(s) = end - start
    BY <1>3, <2>4, <2>5, SmallRemainder DEF SegSize
  <2>7. start + (end - start) = end
    BY <1>2
  <2>8. PageEnd(s) = end \div PAGE
    BY <1>3, <2>5, <2>6, <2>7, SmallRemainder DEF PageEnd
  <2>9. QED
    BY <2>6, <2>8
<1>6. ASSUME m = 0, v % PAGE = 0
      PROVE  ~ Wraps(s)
  <2> DEFINE q == v \div PAGE
             w == WORD \div PAGE
  <2>1. v = PAGE * q /\ q \in Nat
    <3>1. v = PAGE * q + (v % PAGE) /\ q \in Nat
      BY <1>1, QuotientRemainder
    <3> HIDE DEF q
    <3>2. QED
      BY <1>1, <1>6, <3>1, Multiples
  <2>2. WORD = PAGE * w /\ w \in Nat
    <3>1. WORD = PAGE * w + (WORD % PAGE) /\ w \in Nat
      BY <1>1, QuotientRemainder
    <3>2. WORD % PAGE = 0
      BY ElfAssumption
    <3> HIDE DEF w
    <3>3. QED
      BY <1>1, <3>1, <3>2, Multiples
  <2> HIDE DEF q, w
  <2>3. q < w
    <3>1. w <= q => PAGE * w <= PAGE * q
      BY <1>1, <2>1, <2>2, Multiples
    <3> HIDE DEF v
    <3>2. QED
      BY <1>1, <2>1, <2>2, <3>1
  <2>4. PAGE * q + PAGE <= PAGE * w
    BY <1>1, <2>1, <2>2, <2>3, Multiples
  <2>5. v + PAGE <= WORD
    BY <2>1, <2>2, <2>4
  <2>6. QED
    BY <1>1, <1>6, <2>5 DEF Wraps
<1>7. ASSUME ~ Wraps(s), NEW a \in Bytes(s)
      PROVE  a \div PAGE \in FirstPage(s)..(PageEnd(s) - 1)
  <2>1. v + m + PAGE <= WORD
    BY <1>1, <1>7 DEF Wraps
  <2>2. a \in Nat /\ a < WORD /\ Dist(a, v) < m
    BY <1>1 DEF Bytes, Word
  <2>3. v <= a /\ a < v + m
    BY <1>1, <2>1, <2>2 DEF Dist
  <2> HIDE DEF v, m, end, start
  <2>4. QED
    BY <1>2, <1>5, <1>7, <2>2, <2>3
<1> HIDE DEF v, m, start, end
<1>8. v = s.vaddr /\ m = s.memsz
  BY DEF v, m
<1>9. QED
  BY <1>2, <1>3, <1>4, <1>5, <1>6, <1>7, <1>8

-----------------------------------------------------------------------------
(* The outcome of the calls. *)
SegmentLoadable(s) == s.vaddr >= PAGE /\ (s.memsz > 0 \/ s.vaddr % PAGE # 0)
LoadableUpTo(f, n) ==
  \A j \in 1..n : File[f].phdrs[j].type = "LOAD" => SegmentLoadable(File[f].phdrs[j])

UsedBefore(calls, k) == \E j \in 1..(k - 1) : calls[j].buf = calls[k].buf
NamesProgram(b) == \E f \in DOMAIN File : Means(b, f) /\ Program(f)

OutcomeAt(calls, left, k) ==
  IF calls[k].ok
  THEN /\ NamesProgram(calls[k].buf) /\ ~ UsedBefore(calls, k)
       /\ Loadable(calls[k].file) \/ calls[k].misread
  ELSE \/ calls[k].misread \/ ~ NamesProgram(calls[k].buf) \/ UsedBefore(calls, k)
       \/ left = 0 \/ ~ Loadable(calls[k].file) \/ \E s \in Loads(calls[k].file) : Wraps(s)

(* Calls that have returned, and buffers that have been through vfs_open. *)
DoneInv ==
  \A k \in 1..(IF pc = "idle" THEN Len(spawned) ELSE Len(spawned) - 1) :
    OutcomeAt(spawned, frames, k)

Opened(calls, n, b) == \E j \in 1..n : calls[j].buf = b

PathsIn(mem, calls, n) ==
  \A b \in Buffer : IF Opened(calls, n, b)
                    THEN LET r == strtok_r(mem[b], 0, {"/"}, PATHMAX)
                         IN  r.next = NULL /\ (r.token = NULL => Nameless(b))
                    ELSE mem[b] = Fresh(b)

PathsInv ==
  /\ path \in [Buffer -> PathMem]
  /\ PathsIn(path, spawned, IF pc = "open" THEN Len(spawned) - 1 ELSE Len(spawned))

(* Why the kernel has stopped, or is lost. *)
Stopped ==
  IF file = NoFile THEN Nameless(arg) /\ 0 \notin present
  ELSE \/ phdr \notin Loads(file) \/ Wraps(phdr)
       \/ \E a \in Bytes(phdr) : a \div PAGE \notin Shared
Lost == phdr \notin Loads(file) \/ \E a \in Bytes(phdr) : a \div PAGE \in Kernel

(* The call under way. *)
LocalInv ==
  /\ frames \in Nat /\ phdr \in Segment
  /\ own \cap Shared = {}
  /\ pc # "idle" => arg \in Buffer /\ Current.buf = arg
  /\ pc = "header" =>
       IF file = NoFile
       THEN UsedBefore(spawned, Len(spawned)) \/ \A f \in DOMAIN File : ~ Means(arg, f)
       ELSE Means(arg, file) /\ ~ UsedBefore(spawned, Len(spawned))
  /\ pc \in {"phdr", "alloc", "fill"} =>
       /\ Means(arg, file) /\ Program(file) /\ ~ UsedBefore(spawned, Len(spawned))
       /\ Current.misread \/ LoadableUpTo(file, i)
  /\ pc = "fill" =>
       /\ Current.misread \/ SegmentLoadable(phdr)
       /\ Wraps(phdr) \/ \A a \in Bytes(phdr) : a \div PAGE \in Shared => a \div PAGE \in present
  /\ pc \in {"idle", "open"} => file = NoFile
  /\ pc = "fault" => Stopped
  /\ pc = "overwritten" => Lost

OutcomeInv == DoneInv /\ PathsInv /\ LocalInv

(* c2 differs from c in its last call at most, and not in its buffer. *)
Follows(c, c2) ==
  /\ Len(c) \in Nat \ {0} /\ Len(c2) = Len(c)
  /\ \A k \in 1..Len(c) : c2[k].buf = c[k].buf /\ (k # Len(c) => c2[k] = c[k])

LEMMA FollowsUsed ==
  ASSUME NEW c, NEW c2, Follows(c, c2)
  PROVE  /\ \A k \in 1..Len(c) : UsedBefore(c2, k) <=> UsedBefore(c, k)
         /\ \A n \in 0..Len(c) : \A b : Opened(c2, n, b) <=> Opened(c, n, b)
<1>1. Len(c) \in Nat /\ \A k \in 1..Len(c) : c2[k].buf = c[k].buf
  BY DEF Follows
<1>2. \A k \in 1..Len(c) : \A j \in 1..(k - 1) : j \in 1..Len(c)
  BY <1>1
<1>3. \A n \in 0..Len(c) : \A j \in 1..n : j \in 1..Len(c)
  BY <1>1
<1>4. QED
  BY <1>1, <1>2, <1>3 DEF UsedBefore, Opened

LEMMA OutcomesKept ==
  ASSUME NEW c, NEW c2, NEW n \in Nat, NEW left, NEW left2, left = 0 => left2 = 0,
         \A k \in 1..n : c2[k] = c[k],
         \A k \in 1..n : OutcomeAt(c, left, k)
  PROVE  \A k \in 1..n : OutcomeAt(c2, left2, k)
<1>1. \A k \in 1..n : \A j \in 1..(k - 1) : j \in 1..n
  OBVIOUS
<1>2. \A k \in 1..n : UsedBefore(c2, k) <=> UsedBefore(c, k)
  BY <1>1 DEF UsedBefore
<1>3. QED
  BY <1>2 DEF OutcomeAt

(* The record of the call under way after a step of it. *)
LEMMA StepFollows ==
  ASSUME CallsInv, pc # "idle",
         \/ UNCHANGED spawned
         \/ Misread
         \/ Now([Current EXCEPT !.file = file']) /\ file' \in (DOMAIN File) \cup {NoFile}
         \/ Now([Current EXCEPT !.ok = TRUE])
  PROVE  Follows(spawned, spawned') /\ Current'.buf = Current.buf /\ Len(spawned) \in Nat \ {0}
<1>1. spawned \in Seq(Call) /\ spawned # <<>>
  BY DEF CallsInv
<1>2. Len(spawned) \in Nat \ {0} /\ Len(spawned) \in 1..Len(spawned) /\ Current \in Call
  BY <1>1, EmptySeq DEF Current
<1>3. ASSUME NEW c \in Call, Now(c), c.buf = Current.buf
      PROVE  Follows(spawned, spawned') /\ Current'.buf = Current.buf
  <2>1. /\ Len(spawned') = Len(spawned) /\ Current' = c
        /\ \A k \in 1..Len(spawned) : k # Len(spawned) => spawned'[k] = spawned[k]
    BY <1>1, <1>3, NowIs
  <2>2. Current' = spawned'[Len(spawned)] /\ Current = spawned[Len(spawned)]
    BY <2>1 DEF Current
  <2>3. QED
    BY <1>2, <1>3, <2>1, <2>2 DEF Follows
<1>4. CASE UNCHANGED spawned
  BY <1>2, <1>4 DEF Follows, Current
<1>5. CASE Misread
  <2> DEFINE c == [Current EXCEPT !.misread = TRUE]
  <2>1. c \in Call /\ c.buf = Current.buf
    BY <1>2 DEF Call
  <2>2. Now(c)
    BY <1>5 DEF Misread
  <2> HIDE DEF c
  <2>3. QED
    BY <1>2, <1>3, <2>1, <2>2
<1>6. CASE Now([Current EXCEPT !.file = file']) /\ file' \in (DOMAIN File) \cup {NoFile}
  <2> DEFINE c == [Current EXCEPT !.file = file']
  <2>1. c \in Call /\ c.buf = Current.buf
    BY <1>2, <1>6 DEF Call
  <2>2. Now(c)
    BY <1>6
  <2> HIDE DEF c
  <2>3. QED
    BY <1>2, <1>3, <2>1, <2>2
<1>7. CASE Now([Current EXCEPT !.ok = TRUE])
  <2> DEFINE c == [Current EXCEPT !.ok = TRUE]
  <2>1. c \in Call /\ c.buf = Current.buf
    BY <1>2 DEF Call
  <2>2. Now(c)
    BY <1>7
  <2> HIDE DEF c
  <2>3. QED
    BY <1>2, <1>3, <2>1, <2>2
<1>8. QED
  BY <1>4, <1>5, <1>6, <1>7

(* What returned calls and paths are, after such a step. *)
LEMMA DoneKept ==
  ASSUME DoneInv, pc # "idle", Follows(spawned, spawned'), frames = 0 => frames' = 0,
         pc' = "idle" => OutcomeAt(spawned', frames', Len(spawned'))
  PROVE  DoneInv'
<1> DEFINE n == Len(spawned)
<1>1. /\ n \in Nat \ {0} /\ Len(spawned') = n /\ n - 1 \in Nat
      /\ \A k \in 1..(n - 1) : spawned'[k] = spawned[k]
  BY DEF Follows
<1>2. \A k \in 1..(n - 1) : OutcomeAt(spawned, frames, k)
  BY DEF DoneInv
<1> HIDE DEF n
<1>3. \A k \in 1..(n - 1) : OutcomeAt(spawned', frames', k)
  BY <1>1, <1>2, OutcomesKept
<1>4. \A k \in 1..n : k \in 1..(n - 1) \/ k = n
  BY <1>1
<1>5. CASE pc' = "idle"
  BY <1>1, <1>3, <1>4, <1>5 DEF DoneInv
<1>6. CASE pc' # "idle"
  BY <1>1, <1>3, <1>6 DEF DoneInv
<1>7. QED
  BY <1>5, <1>6

LEMMA PathsKept ==
  ASSUME PathsInv, pc # "open", pc' # "open", Follows(spawned, spawned'), UNCHANGED path
  PROVE  PathsInv'
<1> DEFINE n == Len(spawned)
<1>1. n \in Nat /\ Len(spawned') = n /\ n \in 0..n
  BY DEF Follows
<1>2. \A b : Opened(spawned', n, b) <=> Opened(spawned, n, b)
  BY <1>1, FollowsUsed
<1>3. path \in [Buffer -> PathMem] /\ PathsIn(path, spawned, n)
  BY DEF PathsInv
<1> HIDE DEF n
<1>4. PathsIn(path, spawned', n)
  BY <1>2, <1>3 DEF PathsIn
<1>5. QED
  BY <1>1, <1>3, <1>4 DEF PathsInv

-----------------------------------------------------------------------------
LEMMA InitOutcome == ElfInit => OutcomeInv
<1>1. SUFFICES ASSUME ElfInit
               PROVE  OutcomeInv
  OBVIOUS
<1>2. /\ pc = "idle" /\ spawned = <<>> /\ phdr = NoSegment /\ own = {} /\ frames \in 0..FRAMES
      /\ file = NoFile
      /\ path = [b \in Buffer |-> Fresh(b)]
  BY <1>1 DEF ElfInit, Fresh
<1>3. Len(spawned) = 0
  BY <1>2, EmptySeq
<1>4. DoneInv
  BY <1>2, <1>3 DEF DoneInv
<1>5. PathsInv
  <2>1. path \in [Buffer -> PathMem]
    BY <1>2, FreshIs
  <2>2. \A b \in Buffer : path[b] = Fresh(b) /\ ~ Opened(spawned, 0, b)
    BY <1>2 DEF Opened
  <2>3. QED
    BY <1>2, <1>3, <2>1, <2>2 DEF PathsInv, PathsIn
<1>6. NoSegment \in Segment
  BY NoSegmentIs
<1>7. LocalInv
  BY <1>2, <1>6, Sizes DEF LocalInv
<1>8. QED
  BY <1>4, <1>5, <1>7 DEF OutcomeInv

LEMMA SpawnOutcomes ==
  ASSUME CallsInv, OutcomeInv, NEW b \in Buffer, process_spawn(b)
  PROVE  OutcomeInv'
<1> DEFINE c == [buf |-> b, file |-> NoFile, ok |-> FALSE, misread |-> FALSE]
           n == Len(spawned)
<1>1. /\ pc = "idle" /\ pc' = "open" /\ arg' = b /\ spawned' = Append(spawned, c)
      /\ UNCHANGED <<path, file, i, phdr, present, own, frames, ram>>
  BY DEF process_spawn
<1>2. spawned \in Seq(Call) /\ n \in Nat
  BY DEF CallsInv
<1>3. c \in Call /\ c.buf = b
  BY DEF Call
<1> HIDE DEF c
<1>4. /\ Len(spawned') = n + 1 /\ spawned'[n + 1] = c
      /\ \A k \in 1..n : spawned'[k] = spawned[k]
  BY <1>1, <1>2, <1>3, AppendProperties
<1>5. Current' = c
  BY <1>4 DEF Current
<1>6. DoneInv'
  <2>1. \A k \in 1..n : OutcomeAt(spawned, frames, k)
    BY <1>1 DEF OutcomeInv, DoneInv
  <2> HIDE DEF n
  <2>2. \A k \in 1..n : OutcomeAt(spawned', frames', k)
    BY <1>1, <1>2, <1>4, <2>1, OutcomesKept
  <2>3. Len(spawned') - 1 = n
    BY <1>2, <1>4
  <2>4. QED
    BY <1>1, <2>2, <2>3 DEF DoneInv
<1>7. PathsInv'
  <2>1. path \in [Buffer -> PathMem] /\ PathsIn(path, spawned, n)
    BY <1>1 DEF OutcomeInv, PathsInv
  <2> HIDE DEF n
  <2>2. \A x : Opened(spawned', n, x) <=> Opened(spawned, n, x)
    BY <1>4 DEF Opened
  <2>3. PathsIn(path, spawned', n)
    BY <2>1, <2>2 DEF PathsIn
  <2>4. Len(spawned') - 1 = n
    BY <1>2, <1>4
  <2>5. QED
    BY <1>1, <2>1, <2>3, <2>4 DEF PathsInv
<1>8. LocalInv'
  <2>1. frames \in Nat /\ phdr \in Segment /\ own \cap Shared = {} /\ file = NoFile
    BY <1>1 DEF OutcomeInv, LocalInv
  <2>2. QED
    BY <1>1, <1>3, <1>5, <2>1 DEF LocalInv
<1>9. QED
  BY <1>6, <1>7, <1>8 DEF OutcomeInv

(* A call that ends without success: why. *)
LEMMA FailOutcome ==
  ASSUME CallsInv, OutcomeInv, pc \notin {"idle", "open"}, pc' = "idle",
         UNCHANGED spawned \/ Misread, UNCHANGED path, Gone, frames' \in Nat,
         frames = 0 => frames' = 0,
         \/ Current'.misread \/ ~ NamesProgram(arg) \/ UsedBefore(spawned, Len(spawned))
         \/ frames' = 0 \/ ~ Loadable(Current.file) \/ \E s \in Loads(Current.file) : Wraps(s)
  PROVE  OutcomeInv'
<1>1. /\ spawned \in Seq(Call) /\ spawned # <<>> /\ ~ Current.ok /\ Current.buf = arg
      /\ arg \in Buffer /\ DoneInv /\ PathsInv
  BY DEF CallsInv, OutcomeInv, LocalInv
<1>2. Follows(spawned, spawned') /\ Len(spawned) \in Nat \ {0} /\ Current'.buf = Current.buf
  BY StepFollows
<1>3. /\ Current'.ok = Current.ok /\ Current'.file = Current.file
  <2>1. CASE UNCHANGED spawned
    BY <2>1 DEF Current
  <2>2. CASE Misread
    BY <1>1, <2>2, MisreadIs
  <2>3. QED
    BY <2>1, <2>2
<1>4. Len(spawned') = Len(spawned) /\ Current' = spawned'[Len(spawned')]
  BY <1>2 DEF Follows, Current
<1>5. UsedBefore(spawned', Len(spawned')) <=> UsedBefore(spawned, Len(spawned))
  BY <1>2, <1>4, FollowsUsed
<1>6. OutcomeAt(spawned', frames', Len(spawned'))
  BY <1>1, <1>2, <1>3, <1>4, <1>5 DEF OutcomeAt
<1>7. DoneInv' /\ PathsInv'
  BY <1>1, <1>2, <1>6, DoneKept, PathsKept
<1>8. NoSegment \in Segment
  BY NoSegmentIs
<1>9. LocalInv'
  BY <1>8 DEF LocalInv, Gone
<1>10. QED
  BY <1>7, <1>9 DEF OutcomeInv

(* vfs_open, in terms of what it makes of the path. *)
LEMMA OpenIs ==
  ASSUME vfs_open, NEW r, r = strtok_r(path[arg], 0, {"/"}, PATHMAX)
  PROVE  /\ pc = "open" /\ path' = [path EXCEPT ![arg] = r.mem]
         /\ \/ ~ Mounts(r) /\ Fails /\ UNCHANGED spawned
            \/ /\ ~ Mounts(r) /\ r.token = NULL /\ 0 \notin present /\ pc' = "fault"
               /\ UNCHANGED <<loadVars, present, own, frames, ram, spawned>>
            \/ /\ Mounts(r) /\ pc' = "header"
               /\ \/ file' \in DOMAIN File /\ Finds(r, file')
                  \/ file' = NoFile /\ \A f \in DOMAIN File : ~ Finds(r, f)
               /\ Now([Current EXCEPT !.file = file'])
               /\ UNCHANGED <<arg, i, phdr, present, own, frames, ram>>
<1> DEFINE found == {f \in DOMAIN File : r.next # NULL /\ StringAt(r.mem, r.next, PATHMAX) = <<f>>}
<1>1. \A f : f \in found <=> f \in DOMAIN File /\ Finds(r, f)
  BY DEF Finds
<1>2. /\ pc = "open" /\ path' = [path EXCEPT ![arg] = r.mem]
      /\ \/ ~ Mounts(r) /\ Fails /\ UNCHANGED spawned
         \/ /\ ~ Mounts(r) /\ r.token = NULL /\ 0 \notin present /\ pc' = "fault"
            /\ UNCHANGED <<loadVars, present, own, frames, ram, spawned>>
         \/ /\ Mounts(r) /\ pc' = "header"
            /\ file' \in IF found = {} THEN {NoFile} ELSE found
            /\ Now([Current EXCEPT !.file = file'])
            /\ UNCHANGED <<arg, i, phdr, present, own, frames, ram>>
  BY Zenon DEF vfs_open, Mounts
<1> HIDE DEF found
<1>3. file' \in (IF found = {} THEN {NoFile} ELSE found) =>
         \/ file' \in DOMAIN File /\ Finds(r, file')
         \/ file' = NoFile /\ \A f \in DOMAIN File : ~ Finds(r, f)
  BY <1>1
<1>4. QED
  BY <1>2, <1>3

LEMMA OpenOutcomes ==
  ASSUME CallsInv, OutcomeInv, vfs_open
  PROVE  OutcomeInv'
<1> DEFINE n == Len(spawned)
           used == UsedBefore(spawned, n)
<1>1. PICK r : r = strtok_r(path[arg], 0, {"/"}, PATHMAX)
  OBVIOUS
<1>2. /\ pc = "open" /\ path' = [path EXCEPT ![arg] = r.mem]
      /\ \/ ~ Mounts(r) /\ Fails /\ UNCHANGED spawned
         \/ /\ ~ Mounts(r) /\ r.token = NULL /\ 0 \notin present /\ pc' = "fault"
            /\ UNCHANGED <<loadVars, present, own, frames, ram, spawned>>
         \/ /\ Mounts(r) /\ pc' = "header"
            /\ \/ file' \in DOMAIN File /\ Finds(r, file')
               \/ file' = NoFile /\ \A f \in DOMAIN File : ~ Finds(r, f)
            /\ Now([Current EXCEPT !.file = file'])
            /\ UNCHANGED <<arg, i, phdr, present, own, frames, ram>>
  BY <1>1, OpenIs
<1>3. /\ spawned \in Seq(Call) /\ spawned # <<>> /\ ~ Current.ok /\ Current.buf = arg
      /\ arg \in Buffer /\ DoneInv /\ PathsIn(path, spawned, n - 1)
      /\ path \in [Buffer -> PathMem] /\ file = NoFile
      /\ frames \in Nat /\ phdr \in Segment /\ own \cap Shared = {}
  BY <1>2 DEF CallsInv, OutcomeInv, LocalInv, PathsInv
<1>4. n \in Nat \ {0} /\ Current = spawned[n]
  BY <1>3, EmptySeq DEF Current
<1>5. used <=> Opened(spawned, n - 1, arg)
  BY <1>3, <1>4 DEF UsedBefore, Opened
<1>6. used => r.next = NULL
  BY <1>1, <1>3, <1>5 DEF PathsIn
<1>7. ~ used => \A f : Mounts(r) /\ Finds(r, f) <=> Means(arg, f)
  <2>1. ~ used => path[arg] = Fresh(arg)
    BY <1>3, <1>5 DEF PathsIn
  <2>2. QED
    BY <1>1, <1>3, <2>1, OpenMeans
<1>15. r.token = NULL => Nameless(arg)
  <2>1. CASE Opened(spawned, n - 1, arg)
    BY <1>1, <1>3, <2>1 DEF PathsIn
  <2>2. CASE ~ Opened(spawned, n - 1, arg)
    <3>1. path[arg] = Fresh(arg)
      BY <1>3, <2>2 DEF PathsIn
    <3>2. QED
      BY <1>1, <1>3, <3>1, NoTokenNameless
  <2>3. QED
    BY <2>1, <2>2
<1>8. /\ r.mem \in PathMem /\ strtok_r(r.mem, 0, {"/"}, PATHMAX).next = NULL
      /\ strtok_r(r.mem, 0, {"/"}, PATHMAX).token = NULL => Nameless(arg)
  BY <1>1, <1>3, <1>15, CutTwice
<1> HIDE DEF n, used
<1>9. Follows(spawned, spawned') /\ Current'.buf = Current.buf /\ Len(spawned') = n
  <2>1. file' \in (DOMAIN File) \cup {NoFile} \/ UNCHANGED spawned
    BY <1>2
  <2>2. Follows(spawned, spawned') /\ Current'.buf = Current.buf
    BY <1>2, <2>1, StepFollows
  <2>3. QED
    BY <2>2 DEF Follows, n
<1>10. pc' # "open" /\ PathsInv'
  <2>1. path' \in [Buffer -> PathMem]
    BY <1>2, <1>3, <1>8
  <2>2. \A b : Opened(spawned', n, b) <=> Opened(spawned, n, b)
    BY <1>4, <1>9, FollowsUsed DEF n
  <2>3. \A b : Opened(spawned, n, b) <=> Opened(spawned, n - 1, b) \/ b = arg
    <3>1. \A k : k \in 1..n <=> k \in 1..(n - 1) \/ k = n
      BY <1>4
    <3>2. QED
      BY <1>3, <1>4, <3>1 DEF Opened
  <2>4. \A b \in Buffer : path'[b] = IF b = arg THEN r.mem ELSE path[b]
    BY <1>2, <1>3
  <2>5. PathsIn(path', spawned', n)
    BY <1>3, <1>8, <2>2, <2>3, <2>4 DEF PathsIn
  <2>6. pc' # "open"
    BY <1>2 DEF Fails
  <2>7. QED
    BY <1>9, <2>1, <2>5, <2>6 DEF PathsInv
<1>11. UsedBefore(spawned', n) <=> used
  BY <1>4, <1>9, FollowsUsed DEF n, used
<1>12. CASE ~ Mounts(r) /\ Fails /\ UNCHANGED spawned
  <2>1. used \/ ~ NamesProgram(arg)
    BY <1>7, <1>12 DEF NamesProgram
  <2>2. OutcomeAt(spawned', frames', n)
    BY <1>3, <1>4, <1>11, <1>12, <2>1 DEF OutcomeAt
  <2>3. DoneInv'
    BY <1>2, <1>3, <1>9, <1>12, <2>2, DoneKept DEF Fails
  <2>4. NoSegment \in Segment
    BY NoSegmentIs
  <2>5. LocalInv'
    BY <1>3, <1>12, <2>4 DEF LocalInv, Fails, Gone
  <2>6. QED
    BY <1>10, <2>3, <2>5 DEF OutcomeInv
<1>16. CASE /\ r.token = NULL /\ 0 \notin present /\ pc' = "fault"
            /\ UNCHANGED <<loadVars, present, own, frames, ram, spawned>>
  <2>1. /\ arg' = arg /\ file' = file /\ phdr' = phdr /\ present' = present /\ own' = own
        /\ frames' = frames
    BY <1>16 DEF loadVars
  <2>2. DoneInv'
    BY <1>2, <1>3, <1>9, <1>16, <2>1, DoneKept
  <2>3. Stopped'
    BY <1>3, <1>15, <1>16, <2>1 DEF Stopped
  <2>4. LocalInv'
    BY <1>3, <1>9, <1>16, <2>1, <2>3 DEF LocalInv
  <2>5. QED
    BY <1>10, <2>2, <2>4 DEF OutcomeInv
<1>13. CASE /\ Mounts(r) /\ pc' = "header"
            /\ \/ file' \in DOMAIN File /\ Finds(r, file')
               \/ file' = NoFile /\ \A f \in DOMAIN File : ~ Finds(r, f)
            /\ UNCHANGED <<arg, i, phdr, present, own, frames, ram>>
  <2>1. DoneInv'
    BY <1>2, <1>3, <1>9, <1>13, DoneKept
  <2>2. IF file' = NoFile
        THEN used \/ \A f \in DOMAIN File : ~ Means(arg, f)
        ELSE Means(arg, file') /\ ~ used
    <3>1. NoFile \notin DOMAIN File
      BY ElfAssumption
    <3>2. CASE used
      BY <1>6, <1>13, <3>2, <3>1 DEF Finds
    <3>3. CASE ~ used
      BY <1>7, <1>13, <3>1, <3>3
    <3>4. QED
      BY <3>2, <3>3
  <2>3. LocalInv'
    BY <1>3, <1>9, <1>11, <1>13, <2>2 DEF LocalInv
  <2>4. QED
    BY <1>10, <2>1, <2>3 DEF OutcomeInv
<1>14. QED
  BY <1>2, <1>12, <1>13, <1>16

LEMMA HeaderOutcomes ==
  ASSUME CallsInv, OutcomeInv, read_header
  PROVE  OutcomeInv'
<1> DEFINE valid == file # NoFile /\ File[file].size >= HDR /\ elf_check_hdr(File[file])
           used == UsedBefore(spawned, Len(spawned))
<1>1. /\ pc = "header" /\ UNCHANGED path
      /\ \/ /\ valid /\ pc' = "phdr"
            /\ UNCHANGED <<loadVars, present, own, frames, ram, spawned>>
         \/ ~ valid /\ Fails /\ UNCHANGED spawned
         \/ Fails /\ Misread
  BY DEF read_header
<1>2. /\ spawned \in Seq(Call) /\ spawned # <<>> /\ Current.buf = arg /\ arg \in Buffer /\ i = 0
      /\ DoneInv /\ PathsInv /\ Current.file = file
      /\ frames \in Nat /\ phdr \in Segment /\ own \cap Shared = {}
      /\ IF file = NoFile
         THEN used \/ \A f \in DOMAIN File : ~ Means(arg, f)
         ELSE Means(arg, file) /\ ~ used
  BY <1>1 DEF CallsInv, OutcomeInv, LocalInv
<1>3. valid <=> file # NoFile /\ Program(file)
  BY DEF elf_check_hdr, Program
<1> HIDE DEF valid
<1>4. CASE ~ valid /\ Fails /\ UNCHANGED spawned
  <2>1. used \/ ~ NamesProgram(arg)
    BY <1>2, <1>3, <1>4, MeansOne DEF NamesProgram
  <2>2. frames' = frames /\ pc' = "idle" /\ Gone
    BY <1>4 DEF Fails
  <2>3. QED
    BY <1>1, <1>2, <1>4, <2>1, <2>2, FailOutcome
<1>5. CASE Fails /\ Misread
  <2>1. Current'.misread
    BY <1>2, <1>5, MisreadIs
  <2>2. frames' = frames /\ pc' = "idle" /\ Gone
    BY <1>5 DEF Fails
  <2>3. QED
    BY <1>1, <1>2, <1>5, <2>1, <2>2, FailOutcome
<1>6. CASE /\ valid /\ pc' = "phdr"
           /\ UNCHANGED <<loadVars, present, own, frames, ram, spawned>>
  <2>1. Follows(spawned, spawned')
    BY <1>1, <1>6, StepFollows
  <2>2. DoneInv' /\ PathsInv'
    BY <1>1, <1>2, <1>6, <2>1, DoneKept, PathsKept
  <2>3. LoadableUpTo(file, 0)
    BY DEF LoadableUpTo
  <2>4. /\ arg' = arg /\ file' = file /\ i' = 0 /\ phdr' = phdr /\ Current' = Current
        /\ UsedBefore(spawned', Len(spawned')) <=> used
    BY <1>2, <1>6 DEF loadVars, Current
  <2>5. LocalInv'
    BY <1>2, <1>3, <1>6, <2>3, <2>4 DEF LocalInv
  <2>6. QED
    BY <2>2, <2>5 DEF OutcomeInv
<1>7. QED
  BY <1>1, <1>4, <1>5, <1>6

LEMMA PhdrOutcomes ==
  ASSUME CallsInv, CallsInv', OutcomeInv, read_phdr
  PROVE  OutcomeInv'
<1> DEFINE h == File[file].phdrs
           used == UsedBefore(spawned, Len(spawned))
<1>1. /\ pc = "phdr" /\ i < Len(h)
      /\ \/ phdr' = h[i + 1] /\ UNCHANGED spawned
         \/ phdr' \in Stack \cup {phdr} /\ Misread
      /\ pc' = IF phdr'.type = "LOAD" THEN "alloc" ELSE "phdr"
      /\ i' = IF phdr'.type = "LOAD" THEN i ELSE i + 1
      /\ UNCHANGED <<path, arg, file, present, own, frames, ram>>
  BY DEF read_phdr
<1>2. /\ spawned \in Seq(Call) /\ spawned # <<>> /\ Current.buf = arg /\ arg \in Buffer
      /\ file \in DOMAIN File /\ i \in 0..Len(h) /\ DoneInv /\ PathsInv
      /\ frames \in Nat /\ phdr \in Segment /\ own \cap Shared = {}
      /\ Means(arg, file) /\ Program(file) /\ ~ used
      /\ Current.misread \/ LoadableUpTo(file, i)
  BY <1>1 DEF CallsInv, OutcomeInv, LocalInv
<1>3. Len(h) \in Nat /\ i + 1 \in 1..Len(h) /\ h[i + 1] \in Segment
  <2>1. Len(h) \in Nat /\ \A k \in 1..Len(h) : h[k] \in Segment
    BY <1>2, Headers
  <2> HIDE DEF h
  <2>2. QED
    BY <1>1, <1>2, <2>1
<1>4. phdr' \in Segment
  BY <1>1, <1>2, <1>3, ElfAssumption
<1>5. Follows(spawned, spawned') /\ Current'.buf = Current.buf /\ Len(spawned) \in Nat \ {0}
  BY <1>1, StepFollows
<1>6. DoneInv' /\ PathsInv'
  BY <1>1, <1>2, <1>5, DoneKept, PathsKept
<1>7. ~ UsedBefore(spawned', Len(spawned'))
  BY <1>2, <1>5, FollowsUsed DEF Follows
<1>8. Current'.misread \/ LoadableUpTo(file, i')
  <2>1. SUFFICES ASSUME ~ Current'.misread
                 PROVE  LoadableUpTo(file, i')
    OBVIOUS
  <2>2. phdr' = h[i + 1] /\ UNCHANGED spawned
    BY <1>1, <1>2, <2>1, MisreadIs
  <2>3. LoadableUpTo(file, i)
    BY <1>2, <2>1, <2>2 DEF Current
  <2>4. \A j \in 1..(i + 1) : j \in 1..i \/ j = i + 1
    BY <1>2
  <2>5. QED
    BY <1>1, <2>2, <2>3, <2>4 DEF LoadableUpTo
<1> HIDE DEF h, used
<1>9. LocalInv'
  <2>1. pc' \in {"phdr", "alloc"}
    BY <1>1
  <2>2. QED
    BY <1>1, <1>2, <1>4, <1>5, <1>7, <1>8, <2>1 DEF LocalInv
<1>10. QED
  BY <1>6, <1>9 DEF OutcomeInv

(* elf_load_seg up to the pages, in terms of the pages of the segment. *)
Missing(s, pages) == (FirstPage(s)..(PageEnd(s) - 1)) \ pages

LEMMA SegIs ==
  ASSUME load_seg, phdr \in Segment, NEW missing, missing = Missing(phdr, present \cup own),
         NEW taken, taken = Ranked(missing, frames)
  PROVE  /\ pc = "alloc" /\ UNCHANGED <<path, spawned>>
         /\ \/ /\ SegmentLoadable(phdr)
               /\ present' = present \cup (taken \cap Shared)
               /\ frames' = frames - Cardinality(taken)
               /\ \/ /\ taken = missing /\ pc' = "fill"
                     /\ own' = own \cup (taken \ Shared)
                     /\ UNCHANGED loadVars
                  \/ taken # missing /\ pc' = "idle" /\ Gone
            \/ (~ SegmentLoadable(phdr) \/ Wraps(phdr)) /\ Fails
<1> DEFINE start == SegStart(phdr)
           size == SegSize(phdr)
<1>1. /\ pc = "alloc" /\ UNCHANGED <<path, spawned>>
      /\ vmm_alloc_region(start, size) \/ ((start = 0 \/ size = 0) /\ Fails)
  BY DEF load_seg, SegStart, SegSize
<1>2. /\ start \div PAGE = FirstPage(phdr) /\ ((start + size) % WORD) \div PAGE = PageEnd(phdr)
      /\ start = 0 <=> phdr.vaddr < PAGE
      /\ size = 0 => Wraps(phdr) \/ (phdr.memsz = 0 /\ phdr.vaddr % PAGE = 0)
      /\ phdr.memsz = 0 /\ phdr.vaddr % PAGE = 0 => size = 0
  BY SegmentPages DEF PageEnd
<1> HIDE DEF start, size
<1>3. /\ start # 0 /\ size # 0 => SegmentLoadable(phdr)
      /\ start = 0 \/ size = 0 => ~ SegmentLoadable(phdr) \/ Wraps(phdr)
  <2>1. phdr.vaddr \in Nat /\ phdr.memsz \in Nat /\ PAGE \in Nat
    BY SegmentFields, Sizes DEF Word
  <2>2. QED
    BY <1>2, <2>1 DEF SegmentLoadable
<1>4. missing = ((start \div PAGE)..(((start + size) % WORD) \div PAGE - 1)) \ (present \cup own)
  BY <1>2 DEF Missing
<1>5. taken = {p \in missing : Cardinality({q \in missing : q <= p}) <= frames}
  BY DEF Ranked
<1>6. CASE vmm_alloc_region(start, size)
  <2>1. /\ start # 0 /\ size # 0
        /\ present' = present \cup (taken \cap Shared)
        /\ frames' = frames - Cardinality(taken)
        /\ IF taken = missing
           THEN /\ pc' = "fill" /\ own' = own \cup (taken \ Shared)
                /\ UNCHANGED loadVars
           ELSE pc' = "idle" /\ Gone
    BY <1>4, <1>5, <1>6, Zenon DEF vmm_alloc_region
  <2>2. QED
    BY <1>1, <1>3, <2>1
<1>7. QED
  BY <1>1, <1>3, <1>6

LEMMA SegOutcomes ==
  ASSUME CallsInv, OutcomeInv, load_seg
  PROVE  OutcomeInv'
<1>1. PICK missing : missing = Missing(phdr, present \cup own)
  OBVIOUS
<1>2. PICK taken : taken = Ranked(missing, frames)
  OBVIOUS
<1> DEFINE h == File[file].phdrs
           used == UsedBefore(spawned, Len(spawned))
<1>3. pc = "alloc"
  BY DEF load_seg
<1>4. /\ spawned \in Seq(Call) /\ spawned # <<>> /\ Current.buf = arg /\ arg \in Buffer
      /\ file \in DOMAIN File /\ i \in 0..Len(h) /\ i < Len(h) /\ DoneInv /\ PathsInv
      /\ Current.file = file /\ phdr.type = "LOAD" /\ (Current.misread \/ phdr = h[i + 1])
      /\ frames \in Nat /\ phdr \in Segment /\ own \cap Shared = {}
      /\ Means(arg, file) /\ Program(file) /\ ~ used
      /\ Current.misread \/ LoadableUpTo(file, i)
  BY <1>3 DEF CallsInv, OutcomeInv, LocalInv
<1>5. /\ UNCHANGED <<path, spawned>>
      /\ \/ /\ SegmentLoadable(phdr)
            /\ present' = present \cup (taken \cap Shared)
            /\ frames' = frames - Cardinality(taken)
            /\ \/ /\ taken = missing /\ pc' = "fill"
                  /\ own' = own \cup (taken \ Shared)
                  /\ UNCHANGED loadVars
               \/ taken # missing /\ pc' = "idle" /\ Gone
         \/ (~ SegmentLoadable(phdr) \/ Wraps(phdr)) /\ Fails
  BY <1>1, <1>2, <1>4, SegIs
<1>6. /\ FirstPage(phdr) \in Nat /\ PageEnd(phdr) \in Nat
      /\ Wraps(phdr) \/ \A a \in Bytes(phdr) : a \div PAGE \in FirstPage(phdr)..(PageEnd(phdr) - 1)
  BY <1>4, SegmentPages
<1>7. /\ missing \in SUBSET Nat /\ PageEnd(phdr) - 1 \in Int
      /\ \A p \in missing : p <= PageEnd(phdr) - 1
  BY <1>1, <1>6 DEF Missing
<1>8. /\ Cardinality(taken) \in 0..frames /\ taken \subseteq missing
      /\ taken # missing => Cardinality(taken) = frames
  <2>1. taken \subseteq missing
    BY <1>2 DEF Ranked
  <2>2. QED
    BY <1>2, <1>4, <1>7, <2>1, RankedIs
<1>9. frames' = frames - Cardinality(taken) => frames' \in Nat /\ (frames = 0 => frames' = 0)
  BY <1>4, <1>8
<1>10. CASE (~ SegmentLoadable(phdr) \/ Wraps(phdr)) /\ Fails
  <2>1. Current.misread \/ ~ Loadable(file) \/ \E s \in Loads(file) : Wraps(s)
    <3>1. SUFFICES ASSUME phdr = h[i + 1]
                   PROVE  ~ Loadable(file) \/ \E s \in Loads(file) : Wraps(s)
      BY <1>4
    <3>2. i + 1 \in 1..Len(h)
      BY <1>4, Headers
    <3>3. phdr \in Loads(file)
      BY <1>4, <3>1, <3>2, LoadsAre
    <3>4. QED
      BY <1>10, <3>3 DEF Loadable, SegmentLoadable
  <2>2. Current' = Current
    BY <1>5 DEF Current
  <2>3. frames' = frames /\ pc' = "idle" /\ Gone
    BY <1>10 DEF Fails
  <2>4. QED
    BY <1>3, <1>4, <1>5, <2>1, <2>2, <2>3, FailOutcome
<1>11. CASE /\ frames' = frames - Cardinality(taken)
            /\ taken # missing /\ pc' = "idle" /\ Gone
  <2>1. frames' = 0
    BY <1>4, <1>8, <1>11
  <2>2. QED
    BY <1>3, <1>5, <1>9, <1>11, <2>1, FailOutcome
<1>12. CASE /\ SegmentLoadable(phdr)
            /\ present' = present \cup (taken \cap Shared)
            /\ frames' = frames - Cardinality(taken)
            /\ taken = missing /\ pc' = "fill"
            /\ own' = own \cup (taken \ Shared)
            /\ UNCHANGED loadVars
  <2>1. Follows(spawned, spawned')
    BY <1>3, <1>5, StepFollows
  <2>2. DoneInv' /\ PathsInv'
    BY <1>3, <1>4, <1>5, <1>9, <1>12, <2>1, DoneKept, PathsKept
  <2>3. own' \cap Shared = {}
    BY <1>4, <1>7, <1>8, <1>12
  <2>4. Wraps(phdr) \/ \A a \in Bytes(phdr) : a \div PAGE \in Shared => a \div PAGE \in present'
    <3>1. SUFFICES ASSUME ~ Wraps(phdr), NEW a \in Bytes(phdr), a \div PAGE \in Shared
                   PROVE  a \div PAGE \in present'
      OBVIOUS
    <3> DEFINE p == a \div PAGE
    <3>2. p \in FirstPage(phdr)..(PageEnd(phdr) - 1) /\ p \in Shared
      BY <1>6, <3>1
    <3> HIDE DEF p
    <3>3. p \in present'
      BY <1>1, <1>4, <1>12, <3>2 DEF Missing
    <3>4. QED
      BY <3>3 DEF p
  <2>5. /\ arg' = arg /\ file' = file /\ i' = i /\ phdr' = phdr /\ Current' = Current
        /\ UsedBefore(spawned', Len(spawned')) <=> used
    BY <1>5, <1>12 DEF loadVars, Current
  <2> HIDE DEF h, used
  <2>6. LocalInv'
    BY <1>4, <1>9, <1>12, <2>3, <2>4, <2>5 DEF LocalInv
  <2>7. QED
    BY <2>2, <2>6 DEF OutcomeInv
<1>13. QED
  BY <1>5, <1>10, <1>11, <1>12

LEMMA FillOutcomes ==
  ASSUME CallsInv, CallsInv', OutcomeInv, fill_seg
  PROVE  OutcomeInv'
<1> DEFINE h == File[file].phdrs
           used == UsedBefore(spawned, Len(spawned))
<1>1. PICK got \in Readable \cup {0} :
         /\ pc = "fill" /\ UNCHANGED <<path, arg, file, phdr, present, own, frames>>
         /\ UNCHANGED spawned \/ Misread
         /\ \/ pc' = "phdr" /\ i' = i + 1
            \/ ~ PagesOf(got) \subseteq present /\ pc' = "fault"
            \/ PagesOf(got) \cap Kernel # {} /\ pc' = "overwritten"
  BY FillIs
<1>2. /\ spawned \in Seq(Call) /\ spawned # <<>> /\ Current.buf = arg /\ arg \in Buffer
      /\ file \in DOMAIN File /\ i \in 0..Len(h) /\ i < Len(h) /\ DoneInv /\ PathsInv
      /\ Current.misread \/ phdr = h[i + 1]
      /\ frames \in Nat /\ phdr \in Segment /\ own \cap Shared = {}
      /\ Means(arg, file) /\ Program(file) /\ ~ used
      /\ Current.misread \/ LoadableUpTo(file, i)
      /\ Current.misread \/ SegmentLoadable(phdr)
      /\ Wraps(phdr) \/ \A a \in Bytes(phdr) : a \div PAGE \in Shared => a \div PAGE \in present
      /\ file # NoFile
  BY <1>1 DEF CallsInv, OutcomeInv, LocalInv
<1>3. Follows(spawned, spawned') /\ Current'.buf = Current.buf /\ Len(spawned) \in Nat \ {0}
  BY <1>1, StepFollows
<1>4. DoneInv' /\ PathsInv'
  BY <1>1, <1>2, <1>3, DoneKept, PathsKept
<1>5. ~ UsedBefore(spawned', Len(spawned'))
  <2>1. Len(spawned') = Len(spawned) /\ Len(spawned) \in 1..Len(spawned)
    BY <1>3 DEF Follows
  <2>2. QED
    BY <1>2, <1>3, <2>1, FollowsUsed
<1>6. Current'.misread \/ LoadableUpTo(file, i + 1)
  <2>1. SUFFICES ASSUME ~ Current'.misread
                 PROVE  LoadableUpTo(file, i + 1)
    OBVIOUS
  <2>2. UNCHANGED spawned
    BY <1>1, <1>2, <2>1, MisreadIs
  <2>3. LoadableUpTo(file, i) /\ SegmentLoadable(h[i + 1])
    BY <1>2, <2>1, <2>2 DEF Current
  <2>4. \A j \in 1..(i + 1) : j \in 1..i \/ j = i + 1
    BY <1>2
  <2>5. QED
    BY <2>3, <2>4 DEF LoadableUpTo
<1>7. phdr \in Loads(file) => \A p \in PagesOf(got) : \E a \in Bytes(phdr) : p = a \div PAGE
  <2>1. SUFFICES ASSUME phdr \in Loads(file)
                 PROVE  Written(got) \subseteq Bytes(phdr)
    BY DEF PagesOf
  <2>2. phdr.filesz <= phdr.memsz /\ phdr.filesz \in Nat
    BY <1>2, <2>1, LoadsAre, SegmentFields, Sizes DEF Word
  <2>3. got \in 0..phdr.filesz
    BY <1>1, <1>2, <2>2, ReadableIs
  <2>4. QED
    BY <1>2, <2>2, <2>3, WrittenIs
<1>10. pc' = "fault" => Stopped
  <2>1. SUFFICES ASSUME pc' = "fault", phdr \in Loads(file), ~ Wraps(phdr)
                 PROVE  \E a \in Bytes(phdr) : a \div PAGE \notin Shared
    BY <1>2 DEF Stopped
  <2>2. PICK a \in Bytes(phdr) : a \div PAGE \notin present
    BY <1>1, <1>7, <2>1
  <2>3. QED
    BY <1>2, <2>1, <2>2
<1>11. pc' = "overwritten" => Lost
  BY <1>1, <1>7 DEF Lost
<1> HIDE DEF h, used
<1>8. LocalInv'
  <2>1. /\ arg' = arg /\ file' = file /\ phdr' = phdr /\ own' = own /\ frames' = frames
        /\ present' = present
        /\ (pc' = "phdr" /\ i' = i + 1) \/ pc' = "fault" \/ pc' = "overwritten"
    BY <1>1
  <2>2. (pc' = "fault" => Stopped') /\ (pc' = "overwritten" => Lost')
    BY <1>10, <1>11, <2>1 DEF Stopped, Lost
  <2>3. QED
    BY <1>2, <1>3, <1>5, <1>6, <2>1, <2>2 DEF LocalInv
<1>9. QED
  BY <1>4, <1>8 DEF OutcomeInv

LEMMA LoadedOutcomes ==
  ASSUME CallsInv, OutcomeInv, loaded
  PROVE  OutcomeInv'
<1> DEFINE c == [Current EXCEPT !.ok = TRUE]
           n == Len(spawned)
           used == UsedBefore(spawned, n)
<1>1. /\ pc = "phdr" /\ i = Len(File[file].phdrs) /\ pc' = "idle"
      /\ Now(c) /\ Gone /\ UNCHANGED <<path, present, frames, ram>>
  BY DEF loaded
<1>2. /\ spawned \in Seq(Call) /\ spawned # <<>> /\ Current.buf = arg /\ arg \in Buffer
      /\ file \in DOMAIN File /\ Current.file = file /\ DoneInv /\ PathsInv
      /\ frames \in Nat /\ phdr \in Segment /\ own \cap Shared = {}
      /\ Means(arg, file) /\ Program(file) /\ ~ used
      /\ Current.misread \/ LoadableUpTo(file, i)
  BY <1>1 DEF CallsInv, OutcomeInv, LocalInv
<1>3. Current \in Call /\ n \in Nat \ {0}
  BY <1>2, EmptySeq DEF Current
<1>4. c \in Call /\ c.ok /\ c.misread = Current.misread /\ c.file = file /\ c.buf = arg
  BY <1>2, <1>3 DEF Call
<1>5. Follows(spawned, spawned')
  BY <1>1, StepFollows
<1> HIDE DEF c
<1>6. Current' = c /\ Len(spawned') = n
  BY <1>1, <1>2, <1>4, NowIs
<1>7. spawned'[n] = c
  BY <1>6 DEF Current
<1>8. ~ UsedBefore(spawned', n)
  BY <1>2, <1>3, <1>5, FollowsUsed
<1>9. Current.misread \/ Loadable(file)
  <2>1. SUFFICES ASSUME LoadableUpTo(file, i), NEW s \in Loads(file)
                 PROVE  SegmentLoadable(s)
    BY <1>2 DEF Loadable, SegmentLoadable
  <2>2. s.type = "LOAD" /\ \E k \in 1..Len(File[file].phdrs) : s = File[file].phdrs[k]
    BY <1>2, <2>1, LoadsAre
  <2>3. QED
    BY <1>1, <2>1, <2>2 DEF LoadableUpTo
<1>10. NamesProgram(arg)
  BY <1>2 DEF NamesProgram
<1> HIDE DEF n, used
<1>11. OutcomeAt(spawned', frames', Len(spawned'))
  BY <1>4, <1>6, <1>7, <1>8, <1>9, <1>10 DEF OutcomeAt
<1>12. DoneInv' /\ PathsInv'
  BY <1>1, <1>2, <1>5, <1>11, DoneKept, PathsKept
<1>13. NoSegment \in Segment
  BY NoSegmentIs
<1>14. LocalInv'
  BY <1>1, <1>2, <1>13 DEF LocalInv, Gone
<1>15. QED
  BY <1>12, <1>14 DEF OutcomeInv

(* The inductive invariant for what the calls return: a path is cut the    *)
(* first time only, and means then what it says; the headers seen so far   *)
(* can be loaded; the pages of a segment are there before it is filled.    *)
THEOREM OutcomeInvariant == ElfSpec => [](ImagesInv /\ OutcomeInv)
<1>1. ImagesInv /\ OutcomeInv /\ [ElfNext]_elfVars => ImagesInv' /\ OutcomeInv'
  <2>1. SUFFICES ASSUME ImagesInv, OutcomeInv, [ElfNext]_elfVars
                 PROVE  ImagesInv' /\ OutcomeInv'
    OBVIOUS
  <2>2. CallsInv /\ (ImagesInv' => CallsInv')
    BY <2>1 DEF ImagesInv
  <2>3. CASE UNCHANGED elfVars
    <3>1. ImagesInv'
      BY <2>1, <2>3 DEF elfVars, loadVars, ImagesInv, CallsInv, ProgressInv, Current
    <3>2. OutcomeInv'
      BY <2>1, <2>3 DEF elfVars, loadVars, OutcomeInv, DoneInv, PathsInv, LocalInv, Stopped,
                             Lost, Current
    <3>3. QED
      BY <3>1, <3>2
  <2>4. CASE \E b \in Buffer : process_spawn(b)
    BY <2>1, <2>2, <2>4, SpawnImages, SpawnOutcomes
  <2>5. CASE vfs_open
    BY <2>1, <2>2, <2>5, OpenImages, OpenOutcomes
  <2>6. CASE read_header
    BY <2>1, <2>2, <2>6, HeaderImages, HeaderOutcomes
  <2>7. CASE read_phdr
    BY <2>1, <2>2, <2>7, PhdrImages, PhdrOutcomes
  <2>8. CASE load_seg
    BY <2>1, <2>2, <2>8, SegImages, SegOutcomes
  <2>9. CASE fill_seg
    BY <2>1, <2>2, <2>9, FillImages, FillOutcomes
  <2>10. CASE loaded
    BY <2>1, <2>2, <2>10, LoadedImages, LoadedOutcomes
  <2>11. QED
    BY <2>1, <2>3, <2>4, <2>5, <2>6, <2>7, <2>8, <2>9, <2>10 DEF ElfNext, elf_load
<1>2. QED
  BY <1>1, InitImages, InitOutcome, PTL DEF ElfSpec

(* A call of process_spawn whose reads went right succeeds just if its     *)
(* path names a loadable program, its buffer was not given to a call       *)
(* before, and there is memory.  The kernel faults in elf_load only on a   *)
(* path of slashes with address 0 unmapped, a segment with bytes in pages  *)
(* that are not shared or at the very end of the addresses, or a header    *)
(* that was not read as it is; it is overwritten only by a segment in its  *)
(* pages, or by such a header.  For any files, paths, pages and calls.     *)
THEOREM SpawnsCorrect == ElfSpec => []SpawnOutcome
<1>1. OutcomeInv => SpawnOutcome
  <2>1. SUFFICES ASSUME OutcomeInv
                 PROVE  SpawnOutcome
    OBVIOUS
  <2>2. pc = "idle" => \A k \in 1..Len(spawned) : OutcomeAt(spawned, frames, k)
    BY <2>1 DEF OutcomeInv, DoneInv
  <2>3. (pc = "fault" => Stopped) /\ (pc = "overwritten" => Lost)
    BY <2>1 DEF OutcomeInv, LocalInv
  <2>4. QED
    BY <2>2, <2>3 DEF SpawnOutcome, OutcomeAt, UsedBefore, NamesProgram, Stopped, Lost
<1>2. QED
  BY <1>1, OutcomeInvariant, PTL
=============================================================================
