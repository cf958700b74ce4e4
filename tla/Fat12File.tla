----------------------------- MODULE Fat12File ------------------------------
(***************************************************************************)
(* Reading an open file: vfs_read of fs/vfs.c and fat12_read of fs/fat12.c *)
(* with the two functions that find a cluster, the FAT in its packed form  *)
(* and the blocks of the device.  One step of the loop reads one cluster.  *)
(* A byte is represented by its address on the disk, so that a byte of the *)
(* wrong block is told from the right one.                                 *)
(***************************************************************************)
EXTENDS Integers, Sequences

CONSTANTS
  last_cluster,          \* the data clusters are 2..last_cluster
  bytes_per_sector,
  sectors_per_cluster,
  data_area_start,       \* the block of cluster 2
  WORD,                  \* number of values of a uint32_t
  Request,               \* the sizes passed to vfs_read
  Position,              \* the offsets the ELF loader sets
  Foreign,               \* what 12 bits outside the FAT may hold
  BlockErrors            \* 1 if blkread may fail, 0 if not

ASSUME Fat12Assumption ==
  /\ last_cluster \in 2..4079
  /\ bytes_per_sector \in Nat \ {0}
  /\ sectors_per_cluster \in Nat \ {0}
  /\ data_area_start \in Nat \ {0}
  /\ WORD \in Nat \ {0}
  /\ Request \subseteq 0..(WORD - 1)
  /\ Position \subseteq 0..(WORD - 1)
  /\ Foreign \subseteq 0..4095
  /\ BlockErrors \in {0, 1}

VARIABLES
  chain,              \* the clusters of the file, in its order
  file_size,          \* of the directory entry
  fat_table,          \* the FAT, byte by byte
  node,               \* vnode_ptr of the open file: "file", "dir" or "null"
  f_offset,
  pc,                 \* "idle", "call" (in vfs_read), "loop" (in fat12_read),
                      \* "crash" (memcpy with a negative length)
  asked,              \* the size passed to the last vfs_read
  reply,              \* what it returned
  offs, size, curr_cluster, cluster_count, clusters_to_read, read_buf,
  buf                 \* the bytes copied to the caller's buffer

diskVars == <<chain, file_size, fat_table, node>>
loopVars == <<offs, size, curr_cluster, cluster_count, clusters_to_read, read_buf>>
fatVars == <<diskVars, f_offset, pc, asked, reply, loopVars, buf>>

num_blocks == data_area_start + (last_cluster - 1) * sectors_per_cluster
bytes_per_cluster == sectors_per_cluster * bytes_per_sector
EOC_MIN == 4088

(* A byte of memory that malloc did not initialise. *)
Junk == -1

-----------------------------------------------------------------------------
(* The disk, as the tool that wrote it left it: the file's clusters are    *)
(* linked in the FAT, in which two entries of 12 bits share three bytes.   *)
PlaceOf(ch, c) == CHOOSE j \in 1..Len(ch) : ch[j] = c

FatEntry(ch, c) ==
  IF c < 2 THEN 4080 + 15 * c
  ELSE IF \E i \in 1..Len(ch) : ch[i] = c
       THEN IF PlaceOf(ch, c) = Len(ch) THEN 4095 ELSE ch[PlaceOf(ch, c) + 1]
       ELSE 0

PackedByte(even, odd, r) ==
  IF r = 0 THEN even % 256
  ELSE IF r = 1 THEN (even \div 256) + 16 * (odd % 16)
  ELSE odd \div 16

Packed(ch) ==
  [k \in 0..(3 * (last_cluster \div 2) + 2) |->
     PackedByte(FatEntry(ch, 2 * (k \div 3)), FatEntry(ch, 2 * (k \div 3) + 1), k % 3)]

Injective(ch) == \A i, j \in 1..Len(ch) : ch[i] = ch[j] => i = j

(* The address of byte i of the file, and all its bytes. *)
ByteOf(i) ==
  LET c == chain[(i \div bytes_per_cluster) + 1]
  IN  (data_area_start + (c - 2) * sectors_per_cluster) * bytes_per_sector
      + (i % bytes_per_cluster)

Content == [i \in 1..file_size |-> ByteOf(i - 1)]

Fat12Init ==
  /\ \E n \in 0..(last_cluster - 1) : chain \in {ch \in [1..n -> 2..last_cluster] : Injective(ch)}
  /\ file_size \in IF chain = <<>> THEN {0}
                   ELSE (Len(chain) - 1) * bytes_per_cluster + 1
                        .. Len(chain) * bytes_per_cluster
  /\ fat_table = Packed(chain)
  /\ node \in {"file", "dir", "null"}
  /\ f_offset = 0
  /\ pc = "idle" /\ asked = 0 /\ reply = 0 /\ buf = <<>>
  /\ offs = 0 /\ size = 0 /\ curr_cluster = 0
  /\ cluster_count = 0 /\ clusters_to_read = 0
  /\ read_buf = [i \in 0..(bytes_per_cluster - 1) |-> Junk]

-----------------------------------------------------------------------------
(* _fat12_get_fentry: the values it may return; outside the table it reads *)
(* memory that holds anything.                                             *)
_fat12_get_fentry(cluster) ==
  LET o == (cluster * 3) \div 2
      entry == fat_table[o] + 256 * fat_table[o + 1]
  IN  IF o + 1 \notin DOMAIN fat_table THEN Foreign
      ELSE IF cluster % 2 = 1 THEN {entry \div 16} ELSE {entry % 4096}

_fat12_cluster_to_lba(cluster) ==
  IF cluster < 2 THEN 0 ELSE data_area_start + (cluster - 2) * sectors_per_cluster

(* blkread: the values the read buffer may have after it.  One sector is   *)
(* filled; nothing if the block is out of range or cannot be read, and     *)
(* fat12_read does not look at the result.                                 *)
blkread(lba) ==
  LET filled == [i \in 0..(bytes_per_cluster - 1) |->
                   IF i < bytes_per_sector THEN lba * bytes_per_sector + i
                   ELSE read_buf[i]]
  IN  IF lba >= num_blocks THEN {read_buf}
      ELSE {filled} \cup IF BlockErrors = 1 THEN {read_buf} ELSE {}

(* vfs_read is called. *)
vfs_read(n) ==
  /\ pc = "idle"
  /\ pc' = "call" /\ asked' = n /\ buf' = <<>>
  /\ offs' = f_offset /\ size' = n
  /\ UNCHANGED <<diskVars, f_offset, reply, curr_cluster, cluster_count,
                 clusters_to_read, read_buf>>

(* Mutant of Return: the offset is not moved. *)
Return_Unmoved(r) ==
  /\ pc' = "idle"
  /\ reply' = IF r >= WORD \div 2 THEN r - WORD ELSE r
  /\ UNCHANGED f_offset

(* vfs_read returns the signed result of fat12_read and moves the offset. *)
Return(r) ==
  /\ pc' = "idle"
  /\ reply' = IF r >= WORD \div 2 THEN r - WORD ELSE r
  /\ f_offset' = IF reply' > 0 THEN (f_offset + reply') % WORD ELSE f_offset

(* The calls that read nothing: a bad argument, no memory, end of file. *)
fat12_read_nothing ==
  /\ pc = "call"
  /\ \/ (node # "file" \/ size = 0) /\ Return(-1)
     \/ node = "file" /\ size > 0 /\ offs < file_size /\ Return(-1)
     \/ node = "file" /\ size > 0 /\ offs >= file_size /\ Return(0)
  /\ UNCHANGED <<diskVars, asked, loopVars, buf>>

(* Mutant of fat12_read: one cluster too many when the read ends at a      *)
(* boundary.                                                               *)
fat12_read_OneMore ==
  LET rest == IF (offs + size) % WORD > file_size THEN file_size - offs ELSE size
      end  == ((offs % bytes_per_cluster) + rest) % WORD
  IN  /\ pc = "call" /\ node = "file" /\ size > 0 /\ offs < file_size
      /\ pc' = "loop" /\ size' = rest
      /\ curr_cluster' = (chain[1] + offs \div bytes_per_cluster) % 65536
      /\ clusters_to_read' = (end \div bytes_per_cluster) + 1
      /\ cluster_count' = 0
      /\ read_buf' = [i \in 0..(bytes_per_cluster - 1) |-> Junk]
      /\ UNCHANGED <<diskVars, f_offset, asked, reply, offs, buf>>

(* fat12_read up to its loop. *)
fat12_read ==
  LET rest == IF (offs + size) % WORD > file_size THEN file_size - offs ELSE size
      end  == ((offs % bytes_per_cluster) + rest) % WORD
  IN  /\ pc = "call" /\ node = "file" /\ size > 0 /\ offs < file_size
      /\ pc' = "loop" /\ size' = rest
      /\ curr_cluster' = (chain[1] + offs \div bytes_per_cluster) % 65536
      /\ clusters_to_read' = ((end \div bytes_per_cluster)
                              + IF end % bytes_per_cluster # 0 THEN 1 ELSE 0) % 65536
      /\ cluster_count' = 0
      /\ read_buf' = [i \in 0..(bytes_per_cluster - 1) |-> Junk]
      /\ UNCHANGED <<diskVars, f_offset, asked, reply, offs, buf>>

(* Mutant of read_cluster: a read that ends at a boundary copies nothing   *)
(* of its last cluster.                                                    *)
read_cluster_EmptyEnd ==
  LET copy_start == IF cluster_count = 0 THEN offs % bytes_per_cluster ELSE 0
      copy_end   == IF cluster_count = clusters_to_read - 1
                    THEN (offs + size) % bytes_per_cluster ELSE bytes_per_cluster
  IN  /\ pc = "loop" /\ cluster_count < clusters_to_read
      /\ read_buf' \in blkread(_fat12_cluster_to_lba(curr_cluster))
      /\ buf' = buf \o [i \in 1..(copy_end - copy_start) |-> read_buf'[copy_start + i - 1]]
      /\ cluster_count' = cluster_count + 1
      /\ curr_cluster' \in _fat12_get_fentry(curr_cluster)
      /\ UNCHANGED <<diskVars, f_offset, pc, asked, reply, offs, size, clusters_to_read>>

(* One round of the loop; the round after the end-of-chain mark is the last. *)
read_cluster ==
  LET copy_start == IF cluster_count = 0 THEN offs % bytes_per_cluster ELSE 0
      last_end   == ((offs + size) % WORD) % bytes_per_cluster
      copy_end   == IF cluster_count = clusters_to_read - 1 /\ last_end # 0
                    THEN last_end ELSE bytes_per_cluster
  IN  /\ pc = "loop" /\ cluster_count < clusters_to_read
      /\ pc' = IF copy_end < copy_start THEN "crash" ELSE "loop"
      /\ read_buf' \in blkread(_fat12_cluster_to_lba(curr_cluster))
      /\ buf' = buf \o [i \in 1..(copy_end - copy_start) |-> read_buf'[copy_start + i - 1]]
      /\ \E fentry \in _fat12_get_fentry(curr_cluster) :
           IF curr_cluster >= EOC_MIN
           THEN cluster_count' = clusters_to_read /\ UNCHANGED curr_cluster
           ELSE cluster_count' = cluster_count + 1 /\ curr_cluster' = fentry
      /\ UNCHANGED <<diskVars, f_offset, asked, reply, offs, size, clusters_to_read>>

(* fat12_read returns the size it was asked for. *)
read_return ==
  /\ pc = "loop" /\ cluster_count = clusters_to_read
  /\ Return(size)
  /\ UNCHANGED <<diskVars, asked, loopVars, buf>>

(* elf_load and elf_load_seg set the offset themselves. *)
seek(o) ==
  /\ pc = "idle"
  /\ f_offset' = o
  /\ UNCHANGED <<diskVars, pc, asked, reply, loopVars, buf>>

-----------------------------------------------------------------------------
(* The calls fat12_read is correct for.  It takes the file for contiguous  *)
(* as far as the cluster it begins at, and offset plus size must fit a     *)
(* word.                                                                   *)
BeginsRight ==
  f_offset < file_size =>
    LET q == f_offset \div bytes_per_cluster IN chain[q + 1] = chain[1] + q
FitsWord(n) == f_offset + n < WORD

NextWhen(MayRead(_)) ==
  \/ \E n \in Request : MayRead(n) /\ vfs_read(n)
  \/ fat12_read_nothing
  \/ fat12_read
  \/ read_cluster
  \/ read_return
  \/ \E o \in Position : seek(o)

(* A call runs to its end. *)
Fat12Fairness == WF_fatVars(fat12_read_nothing \/ fat12_read \/ read_cluster \/ read_return)

Right(n) == BeginsRight /\ FitsWord(n)
Fat12Safe == Fat12Init /\ [][NextWhen(Right)]_fatVars
Fat12Spec == Fat12Safe /\ Fat12Fairness

(* Files in any order on the disk. *)
Fat12Fragmented == Fat12Init /\ [][NextWhen(FitsWord)]_fatVars /\ Fat12Fairness

-----------------------------------------------------------------------------
(* A read that returns a number of bytes has delivered so many bytes of    *)
(* the file, from the offset on, and as many as were asked for or are      *)
(* left, whatever the boundaries of clusters it crosses.                   *)
ReadsFileBytes ==
  pc = "idle" /\ reply > 0 =>
    /\ reply = IF asked < file_size - offs THEN asked ELSE file_size - offs
    /\ buf = SubSeq(Content, offs + 1, offs + reply)

(* Every cluster the loop reads is the file's next one: the FAT is decoded *)
(* right and followed neither too far nor too slowly.                      *)
FollowsChain ==
  pc = "loop" /\ cluster_count < clusters_to_read =>
    LET i == offs \div bytes_per_cluster + cluster_count + 1
    IN  i <= Len(chain) /\ curr_cluster = chain[i]

BS == INSTANCE ByteStream WITH
        content <- IF node = "file" THEN Content ELSE <<>>,
        position <- f_offset,
        asked <- IF pc = "idle" THEN -1 ELSE asked,
        reply <- IF pc = "idle" THEN reply ELSE 0,
        got <- IF pc = "idle" THEN buf ELSE <<>>

(* An open file is the stream of bytes of vfs.h, and every read returns. *)
ImplementsByteStream == BS!BSSpec
=============================================================================
