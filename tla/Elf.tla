-------------------------------- MODULE Elf ---------------------------------
(***************************************************************************)
(* Programs are loaded: process_spawn of proc/process.c, elf_load and its  *)
(* helpers in proc/elf.c, and vfs_open as far as it cuts its path.  Calls  *)
(* come one after the other.  process_create gives every process the       *)
(* kernel's lowest page table and those of its upper quarter, so the pages *)
(* in Shared are one memory for all; the others are the new process's own, *)
(* and not mapped where the loader runs.  The kernel has its own pages     *)
(* among the shared ones, mapped from the start.                           *)
(*                                                                         *)
(* A read goes wrong where fat12_read does: at an offset for which it      *)
(* takes another cluster than the file's (Fat12File), behind the end of    *)
(* the file, and when the heap is exhausted.  Blocks are read without      *)
(* errors, a cluster is one sector, and there is memory for the file_t.    *)
(* The frame a page table takes is left out.                               *)
(***************************************************************************)
EXTENDS CString, FiniteSets

CONSTANTS
  Buffer,       \* path buffers of the callers
  PathIn,       \* what each holds at first: a sequence of characters
  PATHMAX,      \* size of the buffers
  Mounted,      \* names of mount points
  File,         \* the files of the disk: see FileType
  Stack,        \* program headers an uninitialised phdr may hold
  HDR, PHDR,    \* sizeof(elf_header_t) and sizeof(elf_phdr_t)
  PAGE,         \* VMM_PAGE_SIZE
  Shared,       \* pages whose tables all processes have: the lowest 4 MB, from 3 GB on
  Kernel,       \* those of them the kernel keeps its memory in
  FRAMES,       \* bound on the frames that are free at first
  MaxSpawn,     \* bound on the number of calls
  NoFile

Word == 0..(WORD - 1)

(* phdrs[k + 1] is what stands at the place of header k, phoff + k *       *)
(* phentsize.  elsewhere: the offsets at which a read begins in another    *)
(* cluster than the file's, none if its clusters are consecutive.          *)
Segment == [type : {"LOAD", "other"}, off : Word, vaddr : Word, filesz : Word, memsz : Word]
FileType == [size : Word, magic : BOOLEAN, type : {"EXEC", "other"},
             class : {"32", "64"}, data : {"LSB", "MSB"}, phoff : Word, phentsize : Word,
             phdrs : Seq(Segment), elsewhere : SUBSET Word]

Loads(f) == {File[f].phdrs[k] : k \in {k \in 1..Len(File[f].phdrs) :
                                         File[f].phdrs[k].type = "LOAD"}}

(* How far address a is from v, counting upwards and through 0. *)
Dist(a, v) == IF a >= v THEN a - v ELSE a - v + WORD
Bytes(s) == {a \in Word : Dist(a, s.vaddr) < s.memsz}

(* What an ELF file promises: its segments do not overlap, and none is     *)
(* larger in the file than in memory.  What the stack holds promises       *)
(* nothing.  No mount point has a name with a slash.                       *)
ASSUME ElfAssumption ==
  /\ {PAGE, HDR, PHDR, PATHMAX} \subseteq Nat \ {0} /\ WORD % PAGE = 0
  /\ Kernel \subseteq Shared /\ Shared \subseteq 0..(WORD \div PAGE - 1)
  /\ \A f \in DOMAIN File :
       /\ File[f] \in FileType
       /\ \A s, t \in Loads(f) : s.filesz <= s.memsz /\ (s = t \/ Bytes(s) \cap Bytes(t) = {})
  /\ \A b \in Buffer : PathIn[b] \in Seq(Char) /\ Len(PathIn[b]) < PATHMAX
  /\ "/" \notin Mounted /\ Stack \subseteq Segment /\ FRAMES \in Nat
  /\ NoFile \notin DOMAIN File

VARIABLES
  pc,           \* "idle", "open", "header", "phdr", "alloc", "fill", "fault", "overwritten"
  path,         \* the path buffers
  arg,          \* the buffer of the call
  file,         \* the file opened, or NoFile: a file_t without a vnode
  i, phdr,      \* the loop of elf_load
  present,      \* shared pages that are mapped
  own,          \* pages mapped in the new process only
  frames,       \* free frames
  ram,          \* what is in the shared pages: a byte of a file, or zero
  spawned       \* history: the calls, and whether a header was not read as it is

loadVars == <<arg, file, i, phdr>>
elfVars == <<pc, path, loadVars, present, own, frames, ram, spawned>>

Zero == <<NoFile, 0>>
Other == <<NoFile, 1>>       \* what else memory may hold

Ram == {a \in Word : a \div PAGE \in Shared}

NoSegment == [type |-> "other", off |-> 0, vaddr |-> 0, filesz |-> 0, memsz |-> 0]

ElfInit ==
  /\ pc = "idle"
  /\ path = [b \in Buffer |-> [a \in 0..(PATHMAX - 1) |->
                IF a < Len(PathIn[b]) THEN PathIn[b][a + 1] ELSE NUL]]
  /\ arg = (CHOOSE b \in Buffer : TRUE) /\ file = NoFile /\ i = 0
  /\ phdr = NoSegment
  /\ present \in {Kernel, Shared} /\ own = {}
  /\ frames \in 0..FRAMES
  /\ ram = [a \in Ram |-> Other]
  /\ spawned = <<>>

-----------------------------------------------------------------------------
(* process_create has made a process; its directory is empty but for what  *)
(* is shared.                                                              *)
process_spawn(b) ==
  /\ pc = "idle" /\ Len(spawned) < MaxSpawn
  /\ pc' = "open" /\ arg' = b
  /\ spawned' = Append(spawned, [buf |-> b, file |-> NoFile, ok |-> FALSE, misread |-> FALSE])
  /\ UNCHANGED <<path, file, i, phdr, present, own, frames, ram>>

Current == spawned[Len(spawned)]
Now(call) == spawned' = [spawned EXCEPT ![Len(spawned)] = call]
Misread == Now([Current EXCEPT !.misread = TRUE])

(* The locals of a call, and what only its process has. *)
Gone == file' = NoFile /\ i' = 0 /\ phdr' = NoSegment /\ own' = {} /\ UNCHANGED arg

(* The end of process_spawn.  After a failure process_destroy gives        *)
(* nothing back: vmm_free_region refuses to begin at address 0.  The file  *)
(* is never closed.                                                        *)
Fails == pc' = "idle" /\ Gone /\ UNCHANGED <<present, frames, ram>>

(* vfs_open: strtok_r cuts the path behind the mount point, in the         *)
(* caller's buffer.  Without a rest fat12_open finds nothing.  A path of   *)
(* slashes has no token: strcmp compares the mount points' names with what *)
(* is at address 0, and whatever they are, there is no rest.               *)
vfs_open ==
  LET r == strtok_r(path[arg], 0, {"/"}, PATHMAX)
      mount == r.token # NULL /\ \E m \in Mounted : StringAt(r.mem, r.token, PATHMAX) = <<m>>
      found == {f \in DOMAIN File : r.next # NULL /\ StringAt(r.mem, r.next, PATHMAX) = <<f>>}
  IN  /\ pc = "open"
      /\ path' = [path EXCEPT ![arg] = r.mem]
      /\ \/ /\ ~ mount
            /\ IF r.token = NULL /\ Mounted # {} /\ 0 \notin present
               THEN pc' = "fault" /\ UNCHANGED <<loadVars, present, own, frames, ram>>
               ELSE Fails
            /\ UNCHANGED spawned
         \/ /\ mount
            /\ pc' = "header"
            /\ file' \in IF found = {} THEN {NoFile} ELSE found
            /\ Now([Current EXCEPT !.file = file'])
            /\ UNCHANGED <<arg, i, phdr, present, own, frames, ram>>

(* Mutant of elf_check_hdr: the class is not looked at. *)
elf_check_hdr_AnyClass(h) == h.magic /\ h.type = "EXEC" /\ h.data = "LSB"

elf_check_hdr(h) == h.magic /\ h.type = "EXEC" /\ h.class = "32" /\ h.data = "LSB"

(* The header is read, which must give all of it, and looked at. *)
read_header ==
  LET valid == file # NoFile /\ File[file].size >= HDR /\ elf_check_hdr(File[file])
  IN
  /\ pc = "header"
  /\ \/ /\ valid
        /\ pc' = "phdr"
        /\ UNCHANGED <<loadVars, present, own, frames, ram, spawned>>
     \/ ~ valid /\ Fails /\ UNCHANGED spawned
     \/ file # NoFile /\ Fails /\ Misread
  /\ UNCHANGED path

(* A program header is read whole, from the place it is at. *)
HeaderRead(f, k) ==
  LET at == (File[f].phoff + k * File[f].phentsize) % WORD
  IN  at + PHDR <= File[f].size /\ at \notin File[f].elsewhere

(* The body of the loop begins: a program header is read, its result not   *)
(* looked at.  Where the read goes wrong phdr is what it was, or what the  *)
(* stack or the disk held.                                                 *)
read_phdr ==
  /\ pc = "phdr" /\ i < Len(File[file].phdrs)
  /\ \/ HeaderRead(file, i) /\ phdr' = File[file].phdrs[i + 1] /\ UNCHANGED spawned
     \/ phdr' \in Stack \cup {phdr} /\ Misread
  /\ pc' = IF phdr'.type = "LOAD" THEN "alloc" ELSE "phdr"
  /\ i' = IF phdr'.type = "LOAD" THEN i ELSE i + 1
  /\ UNCHANGED <<path, arg, file, present, own, frames, ram>>

(* The names of these two are the wrong way round. *)
PAGE_ALIGN_UP(a) == (a \div PAGE) * PAGE
PAGE_ALIGN_DWN(a) == (((a + PAGE - 1) % WORD) \div PAGE) * PAGE

(* vmm_alloc_region: pages that are there stay as they are; without a      *)
(* frame the ones before it stay too.  The end is a word as well: a region *)
(* that reaches it has no pages.                                           *)
vmm_alloc_region(virtual, size) ==
  LET missing == ((virtual \div PAGE)..(((virtual + size) % WORD) \div PAGE - 1))
                 \ (present \cup own)
      taken == {p \in missing : Cardinality({q \in missing : q <= p}) <= frames}
  IN  /\ virtual # 0 /\ size # 0
      /\ present' = present \cup (taken \cap Shared)
      /\ frames' = frames - Cardinality(taken)
      /\ IF taken = missing
         THEN pc' = "fill" /\ own' = own \cup (taken \ Shared) /\ UNCHANGED loadVars
         ELSE pc' = "idle" /\ Gone

(* elf_load_seg, up to the pages. *)
load_seg ==
  LET start_addr == PAGE_ALIGN_UP(phdr.vaddr)
      end_addr == PAGE_ALIGN_DWN((phdr.vaddr + phdr.memsz) % WORD)
      size == (end_addr - start_addr) % WORD
  IN  /\ pc = "alloc"
      /\ \/ vmm_alloc_region(start_addr, size) /\ UNCHANGED ram
         \/ (start_addr = 0 \/ size = 0) /\ Fails
      /\ UNCHANGED <<path, spawned>>

(* Where fat12_read finds the part of the segment that is in the file.  An *)
(* end that wraps is not seen to be behind the end of the file.            *)
Found == phdr.off \notin File[file].elsewhere /\ phdr.off + phdr.filesz < WORD

(* How many bytes are read.  A chain that is not the file's, or followed   *)
(* too far, may end anywhere.                                              *)
Readable ==
  LET rest == File[file].size - phdr.off
  IN  IF rest <= 0 THEN {0}
      ELSE IF Found THEN {IF rest < phdr.filesz THEN rest ELSE phdr.filesz}
      ELSE 0..phdr.filesz

FromFile(a) == IF Found THEN <<file, phdr.off + Dist(a, phdr.vaddr)>> ELSE Other

(* What the segment's bytes become if got of them are read: the rest of    *)
(* the part that is in the file stays, the part that is not is cleared.    *)
(* Mutant: memset is given the size of the segment.                        *)
Filled_Whole(got) ==
  [a \in Ram |->
     LET d == Dist(a, phdr.vaddr)
     IN  IF d < got THEN FromFile(a)
         ELSE IF phdr.memsz > phdr.filesz /\ d \in phdr.filesz..(phdr.filesz + phdr.memsz - 1)
         THEN Zero ELSE ram[a]]
Filled(got) ==
  [a \in Ram |->
     LET d == Dist(a, phdr.vaddr)
     IN  IF d < got THEN FromFile(a)
         ELSE IF d \in phdr.filesz..(phdr.memsz - 1) THEN Zero ELSE ram[a]]

Written(got) == {a \in Word : LET d == Dist(a, phdr.vaddr)
                              IN  d < got \/ d \in phdr.filesz..(phdr.memsz - 1)}

(* The rest of elf_load_seg: the pages are written to where the loader     *)
(* runs, which faults if they are not mapped there.  What happens once the *)
(* kernel's own have been written is anything.                             *)
fill_seg ==
  LET pages(got) == {a \div PAGE : a \in Written(got)}
      fill(got) == IF ~ pages(got) \subseteq present THEN pc' = "fault" /\ UNCHANGED <<ram, i>>
                   ELSE IF pages(got) \cap Kernel # {}
                   THEN pc' = "overwritten" /\ UNCHANGED <<ram, i>>
                   ELSE ram' = Filled(got) /\ pc' = "phdr" /\ i' = i + 1
  IN  /\ pc = "fill"
      /\ \/ (\E got \in Readable : fill(got)) /\ UNCHANGED spawned
         \/ Readable # {0} /\ fill(0) /\ Misread
      /\ UNCHANGED <<path, arg, file, phdr, present, own, frames>>

(* elf_load returns 0; process_spawn makes the thread and posts it. *)
loaded ==
  /\ pc = "phdr" /\ i = Len(File[file].phdrs)
  /\ pc' = "idle"
  /\ Now([Current EXCEPT !.ok = TRUE])
  /\ Gone
  /\ UNCHANGED <<path, present, frames, ram>>

elf_load == vfs_open \/ read_header \/ read_phdr \/ load_seg \/ fill_seg \/ loaded

ElfNext == (\E b \in Buffer : process_spawn(b)) \/ elf_load

ElfSpec == ElfInit /\ [][ElfNext]_elfVars

-----------------------------------------------------------------------------
(* Bytes a call may have written, whether or not it succeeded. *)
Covers(k, a) ==
  \/ spawned[k].misread
  \/ spawned[k].file # NoFile /\ \E s \in Loads(spawned[k].file) : a \in Bytes(s)

(* The file has the part of the segment it should, and a read of it begins *)
(* in the right cluster.                                                   *)
InFile(f, s) == s.off + s.filesz <= File[f].size /\ s.off \notin File[f].elsewhere

(* The program of every successful process_spawn is in memory and mapped,  *)
(* all its segments, cleared where the file has nothing, and stays there   *)
(* through later calls that fail halfway or share pages with it; only      *)
(* bytes that a later program claims are lost.  elf_load does not look at  *)
(* what vfs_read returns, nor can it see what fat12_read takes from the    *)
(* wrong cluster.  So three things are excepted: a call one of whose       *)
(* headers was not read as it is, a segment that the file is too short     *)
(* for, and one that begins where a read goes to another cluster: the      *)
(* later segments of a file whose clusters are not consecutive.            *)
ImagesIntact ==
  pc # "overwritten" =>
  \A k \in {k \in 1..Len(spawned) : spawned[k].ok /\ ~ spawned[k].misread} :
    LET f == spawned[k].file
    IN  \A s \in Loads(f) : InFile(f, s) =>
          \A a \in Bytes(s) :
            /\ a \div PAGE \in present
            /\ LET d == Dist(a, s.vaddr)
               IN  \/ ram[a] = IF d < s.filesz THEN <<f, s.off + d>> ELSE Zero
                   \/ \E l \in (k + 1)..Len(spawned) : Covers(l, a)

(* What a path means before it is cut. *)
Means(b, f) ==
  \E m \in Mounted, n \in 0..Len(PathIn[b]) :
    PathIn[b] = [k \in 1..n |-> "/"] \o <<m, "/", f>>

Nameless(b) == \A k \in 1..Len(PathIn[b]) : PathIn[b][k] = "/"

Program(f) ==
  /\ File[f].size >= HDR /\ File[f].magic /\ File[f].type = "EXEC"
  /\ File[f].class = "32" /\ File[f].data = "LSB"
Loadable(f) ==
  \A s \in Loads(f) : s.vaddr >= PAGE /\ (s.memsz > 0 \/ s.vaddr % PAGE # 0)

(* The end of the segment, rounded up to a page, is no word any more. *)
Wraps(s) == s.vaddr + s.memsz + PAGE > WORD

(* A call succeeds just if its path names a program, the buffer has not    *)
(* been given to a call before, and there is memory: vfs_open leaves only  *)
(* the mount point in the buffer.  A call whose reads went wrong may do    *)
(* either.  The kernel is stopped only by a path of slashes if address 0   *)
(* is not mapped, by a segment with bytes in pages that are not shared, or *)
(* at the very end of the addresses, or by a header that was not read as   *)
(* it is; and it is overwritten only by a segment that lies in its pages,  *)
(* or by such a header.                                                    *)
SpawnOutcome ==
  /\ pc = "idle" =>
       \A k \in 1..Len(spawned) :
         LET c == spawned[k]
             used == \E j \in 1..(k - 1) : spawned[j].buf = c.buf
             named == \E f \in DOMAIN File : Means(c.buf, f) /\ Program(f)
         IN  IF c.ok THEN named /\ ~ used /\ (Loadable(c.file) \/ c.misread)
             ELSE \/ c.misread \/ ~ named \/ used \/ frames = 0
                  \/ ~ Loadable(c.file) \/ \E s \in Loads(c.file) : Wraps(s)
  /\ pc = "fault" =>
       IF file = NoFile THEN Nameless(arg) /\ 0 \notin present
       ELSE \/ phdr \notin Loads(file) \/ Wraps(phdr)
            \/ \E a \in Bytes(phdr) : a \div PAGE \notin Shared
  /\ pc = "overwritten" =>
       phdr \notin Loads(file) \/ \E a \in Bytes(phdr) : a \div PAGE \in Kernel
=============================================================================
