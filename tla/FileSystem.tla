----------------------------- MODULE FileSystem -----------------------------
(***************************************************************************)
(* From a block device to an open file: the registry of block devices of   *)
(* driver/block.c, the mount table and vfs_open of fs/vfs.c, and mounting  *)
(* and directory lookup of fs/fat12.c.  The calls come one at a time, in   *)
(* any order; a call that is refused changes nothing and is left out.  The *)
(* lookup reads one block of the root directory per step; it ignores       *)
(* whether that succeeds, and the blocks of this model can be read.        *)
(***************************************************************************)
EXTENDS Integers, Sequences

CONSTANTS
  Device,                \* names of block devices
  Mount,                 \* names of mount points
  Path,                  \* what follows the mount point in a path
  Disks,                 \* what may be in the devices: bpb and dir, see below
  max_block_devices,     \* 16
  INIT_MPOINTS,          \* entries the table is allocated with, 16
  STEP,                  \* entries it is taken to grow by, 5
  PER_BLOCK,             \* directory entries in a block, 16
  BASE, EXT,             \* lengths of the parts of a name, 8 and 3
  None,                  \* nothing has been returned yet
  NoMount,               \* what vfs_open returns besides a vnode: NULL, or a
  NoEntry, NoMemory,     \* file without one, for these two reasons
  MaxMounts              \* bound on the number of mounts

ASSUME FileSystemAssumption ==
  /\ {max_block_devices, INIT_MPOINTS, STEP, PER_BLOCK, BASE, EXT} \subseteq Nat \ {0}
  /\ \A f \in Disks, d \in Device : f[d].bpb.bytes_per_sector = 32 * PER_BLOCK

VARIABLES
  disk,             \* what is in each device
  block_devices,
  fsys,             \* the vfs objects, in the order of their creation
  mountpoints,      \* the mount table: indices into fsys, or 0 for NULL
  curr_size,
  pc,               \* "idle", or "lookup" in the loop of _fat12_lookup
  path,             \* the path of the last vfs_open: mnt and name
  root,             \* the file system it is looked up in
  block,            \* the loop variable s
  file              \* what the last call of vfs_open has returned

tableVars == <<block_devices, fsys, mountpoints, curr_size>>
openVars == <<pc, path, root, block, file>>
fsVars == <<disk, tableVars, openVars>>

FsInit ==
  /\ disk \in Disks
  /\ block_devices = <<>> /\ fsys = <<>>
  /\ mountpoints = [i \in 0..(INIT_MPOINTS - 1) |-> 0]
  /\ curr_size = 0
  /\ pc = "idle" /\ path = None /\ root = 0 /\ block = 0 /\ file = None

-----------------------------------------------------------------------------
(* The disk, as the tool that wrote it left it: reserved blocks, copies of *)
(* the FAT, root directory, data.  An entry has a name of BASE + EXT       *)
(* characters and a kind; "end" ends the directory, whatever follows it.   *)
RootStart(d) == d.bpb.rsrvd_cnt + d.bpb.num_fats * d.bpb.sectors_per_fat
DataStart(d) == RootStart(d) + Len(d.dir)

EndBlock == [i \in 0..(PER_BLOCK - 1) |-> [name |-> <<>>, kind |-> "end"]]

BlockOf(d, lba) ==
  IF lba \in RootStart(d)..(DataStart(d) - 1) THEN d.dir[lba - RootStart(d) + 1]
  ELSE EndBlock

-----------------------------------------------------------------------------
Least(S) == CHOOSE i \in S : \A j \in S : i <= j
Most(S) == CHOOSE i \in S : \A j \in S : i >= j

(* _fat12_normal_to_8_3: a dot ends the first part, or its length does. *)
_fat12_normal_to_8_3(n) ==
  LET stop == {i \in 1..Len(n) : n[i] = "."} \cup {Len(n) + 1, BASE + 1}
      b == Least(stop) - 1
      j == IF b < Len(n) /\ n[b + 1] = "." THEN b + 1 ELSE b
  IN  [i \in 1..(BASE + EXT) |->
         IF i <= BASE THEN IF i <= b THEN n[i] ELSE " "
         ELSE IF j + i - BASE <= Len(n) THEN n[j + i - BASE] ELSE " "]

(* _fat12_8_3to_normal: the padding is left out. *)
_fat12_8_3to_normal(f) ==
  LET b == Least({i \in 1..BASE : f[i] = " "} \cup {BASE + 1}) - 1
      e == Least({i \in 1..EXT : f[BASE + i] = " "} \cup {EXT + 1}) - 1
  IN  SubSeq(f, 1, b) \o IF e = 0 THEN <<>> ELSE <<".">> \o SubSeq(f, BASE + 1, BASE + e)

(* The vnode and inode _fat12_lookup creates for an entry. *)
vnode(dev, sector, i, kind) ==
  [dev |-> dev, dir_sector |-> sector, dir_offset |-> i, type |-> kind]
Vnode == [dev : Device, dir_sector : Nat, dir_offset : 0..(PER_BLOCK - 1), type : {"file", "dir"}]

(* What is taken of the disks: the first block describes a disk without    *)
(* partitions and with a root directory of whole blocks; the name of a     *)
(* file or directory is one that a path can have, with blanks only behind  *)
(* its parts and not empty.                                                *)
DiskAsDescribed(d) ==
  /\ {d.bpb.rsrvd_cnt, d.bpb.num_fats, d.bpb.sectors_per_fat} \subseteq Nat
  /\ d.bpb.hidden_sectors % 256 = 0
  /\ (d.bpb.max_root_dir_entries * 32) \div d.bpb.bytes_per_sector = Len(d.dir)
  /\ Len(d.dir) \in Nat
  /\ \A b \in 1..Len(d.dir), i \in 0..(PER_BLOCK - 1) :
       d.dir[b][i].kind \in {"file", "dir"} =>
         LET name == d.dir[b][i].name
         IN  /\ _fat12_8_3to_normal(name) # <<>>
             /\ _fat12_normal_to_8_3(_fat12_8_3to_normal(name)) = name

ASSUME DiskAssumption == \A f \in Disks, d \in Device : DiskAsDescribed(f[d])
ASSUME ResultAssumption == {NoMount, NoEntry} \cap Vnode = {}

(* Another call: what the last vfs_open did no longer matters. *)
Forget == pc' = "idle" /\ path' = None /\ root' = 0 /\ block' = 0 /\ file' = None

(* blkdev_register: a name is accepted once, while there is room. *)
blkdev_register(d) ==
  /\ pc = "idle"
  /\ Len(block_devices) < max_block_devices
  /\ \A i \in 1..Len(block_devices) : block_devices[i] # d
  /\ block_devices' = Append(block_devices, d)
  /\ Forget
  /\ UNCHANGED <<disk, fsys, mountpoints, curr_size>>

blkdev_get_by_name(d) == \E i \in 1..Len(block_devices) : block_devices[i] = d

(* Mutant of fat12_mount: the copies of the FAT are not counted. *)
fat12_mount_OneFat(d) ==
  LET bpb == disk[d].bpb
      fat_start == (bpb.hidden_sectors % 256) + bpb.rsrvd_cnt
      root_dir_start == fat_start + bpb.sectors_per_fat
      root_dir_sectors == (bpb.max_root_dir_entries * 32) \div bpb.bytes_per_sector
  IN  [dev |-> d, fat_start |-> fat_start,
       root_dir_start |-> root_dir_start, root_dir_sectors |-> root_dir_sectors,
       data_area_start |-> root_dir_start + root_dir_sectors]

(* fat12_mount: the layout of the disk, from its first block. *)
fat12_mount(d) ==
  LET bpb == disk[d].bpb
      fat_start == (bpb.hidden_sectors % 256) + bpb.rsrvd_cnt
      root_dir_start == fat_start + bpb.num_fats * bpb.sectors_per_fat
      root_dir_sectors == (bpb.max_root_dir_entries * 32) \div bpb.bytes_per_sector
  IN  [dev |-> d, fat_start |-> fat_start,
       root_dir_start |-> root_dir_start, root_dir_sectors |-> root_dir_sectors,
       data_area_start |-> root_dir_start + root_dir_sectors]

FreeEntries == {i \in 0..(curr_size - 1) : mountpoints[i] = 0}

(* Mutant of _add_to_mpoints: free entries are not looked for. *)
_add_to_mpoints_Grow(k) ==
  /\ mountpoints' = [mountpoints EXCEPT ![curr_size] = k]
  /\ curr_size' = curr_size + STEP

(* _add_to_mpoints: realloc is asked for curr_size + 5 bytes, for which    *)
(* the heap returns the block there is, of INIT_MPOINTS entries.           *)
_add_to_mpoints(k) ==
  IF FreeEntries # {}
  THEN /\ mountpoints' = [mountpoints EXCEPT ![Least(FreeEntries)] = k]
       /\ UNCHANGED curr_size
  ELSE /\ mountpoints' = [mountpoints EXCEPT ![curr_size] = k]
       /\ curr_size' = curr_size + STEP

(* vfs_mount of a FAT12 file system on a registered device. *)
vfs_mount(d, m) ==
  /\ pc = "idle" /\ blkdev_get_by_name(d)
  /\ fsys' = Append(fsys, [fs |-> fat12_mount(d), vcovered |-> m])
  /\ _add_to_mpoints(Len(fsys) + 1)
  /\ Forget
  /\ UNCHANGED <<disk, block_devices>>

Mounted(m) ==
  {i \in 0..(curr_size - 1) : mountpoints[i] # 0 /\ fsys[mountpoints[i]].vcovered = m}

(* vfs_open takes the last entry of the table that matches; fat12_open     *)
(* refuses an empty name.                                                  *)
vfs_open(m, n) ==
  /\ pc = "idle"
  /\ path' = [mnt |-> m, name |-> n]
  /\ block' = 0
  /\ root' = IF Mounted(m) = {} THEN 0 ELSE mountpoints[Most(Mounted(m))]
  /\ \/ Mounted(m) = {} /\ file' = NoMount /\ UNCHANGED pc
     \/ Mounted(m) # {} /\ n = <<>> /\ file' = NoEntry /\ UNCHANGED pc
     \/ Mounted(m) # {} /\ n # <<>> /\ file' = None /\ pc' = "lookup"
  /\ UNCHANGED <<disk, tableVars>>

fs == fsys[root].fs
dir_entries == BlockOf(disk[fs.dev], fs.root_dir_start + block)

(* The entries at which the scan of a block stops. *)
Matches(e) ==
  e.kind \in {"file", "dir"} /\ e.name = _fat12_normal_to_8_3(path.name)

(* Mutant of Stops: the end mark is passed over. *)
Stops_PastEnd == {i \in 0..(PER_BLOCK - 1) : Matches(dir_entries[i])}

Stops == {i \in 0..(PER_BLOCK - 1) :
            dir_entries[i].kind = "end" \/ Matches(dir_entries[i])}

Return(f) == pc' = "idle" /\ file' = f /\ UNCHANGED <<disk, tableVars, path, root, block>>

lookup_next_block ==
  /\ pc = "lookup" /\ block < fs.root_dir_sectors
  /\ Stops = {}
  /\ block' = block + 1
  /\ UNCHANGED <<disk, tableVars, pc, path, root, file>>

lookup_stop ==
  LET i == Least(Stops)
  IN  /\ pc = "lookup" /\ block < fs.root_dir_sectors
      /\ Stops # {}
      /\ \/ dir_entries[i].kind = "end" /\ Return(NoEntry)
         \/ /\ dir_entries[i].kind # "end"
            /\ \/ Return(vnode(fs.dev, fs.root_dir_start + block, i, dir_entries[i].kind))
               \/ Return(NoMemory)

lookup_exhausted ==
  /\ pc = "lookup" /\ block = fs.root_dir_sectors
  /\ Return(NoEntry)

-----------------------------------------------------------------------------
(* The calls for which the code is right.  The table may claim no more     *)
(* entries than its block has, and a name must be one that an entry can    *)
(* have: a longer one is cut to the name of another file.                  *)
Room == /\ FreeEntries # {} \/ curr_size + STEP <= INIT_MPOINTS
        /\ Len(fsys) < MaxMounts
Proper(n) == n = <<>> \/ _fat12_8_3to_normal(_fat12_normal_to_8_3(n)) = n

FsNext ==
  \/ \E d \in Device : blkdev_register(d)
  \/ \E d \in Device, m \in Mount : Room /\ vfs_mount(d, m)
  \/ \E m \in Mount, n \in Path : Proper(n) /\ vfs_open(m, n)
  \/ lookup_next_block
  \/ lookup_stop
  \/ lookup_exhausted

FsSpec == FsInit /\ [][FsNext]_fsVars

-----------------------------------------------------------------------------
(* Every variable has values the code can give it; no entry of the mount   *)
(* table is outside its block of memory.                                   *)
FileSystemTypeOK ==
  /\ block_devices \in Seq(Device) /\ Len(block_devices) <= max_block_devices
  /\ mountpoints \in [0..(INIT_MPOINTS - 1) -> 0..Len(fsys)]
  /\ curr_size \in 0..INIT_MPOINTS
  /\ pc \in {"idle", "lookup"}
  /\ root \in 0..Len(fsys)
  /\ block \in Nat

(* A mounted file system knows where the parts of its disk are. *)
KnowsLayout ==
  \A k \in 1..Len(fsys) :
    LET h == fsys[k].fs
        d == disk[h.dev]
    IN  /\ h.root_dir_start = RootStart(d) /\ h.root_dir_sectors = Len(d.dir)
        /\ h.data_area_start = DataStart(d)

(* The places of a directory, in its order, that hold a file or a          *)
(* directory of this name and are not behind the end of the directory.     *)
Places(d) == (1..Len(d.dir)) \X (0..(PER_BLOCK - 1))
Before(p, q) == p[1] < q[1] \/ (p[1] = q[1] /\ p[2] <= q[2])
EntryAt(d, p) == d.dir[p[1]][p[2]]
Named(d, n) ==
  {p \in Places(d) :
     /\ EntryAt(d, p).kind \in {"file", "dir"}
     /\ _fat12_8_3to_normal(EntryAt(d, p).name) = n
     /\ \A q \in Places(d) : EntryAt(d, q).kind = "end" => ~ Before(q, p)}

(* What a path means: the first entry of that name in the file system last *)
(* mounted there.                                                          *)
Meaning(m, n) ==
  LET F == {k \in 1..Len(fsys) : fsys[k].vcovered = m}
      dev == fsys[Most(F)].fs.dev
      d == disk[dev]
      p == CHOOSE q \in Named(d, n) : \A r \in Named(d, n) : Before(q, r)
  IN  IF F = {} THEN NoMount
      ELSE IF Named(d, n) = {} THEN NoEntry
      ELSE vnode(dev, RootStart(d) + p[1] - 1, p[2], EntryAt(d, p).kind)

(* vfs_open returns the file its path means, whatever has been registered  *)
(* and mounted before, in any order and as often as the mount table has    *)
(* Room, and wherever in the directory the entry is; it fails only if      *)
(* there is none, or no memory.  The path has two components (of one       *)
(* without any see Elf), the second a name an entry can have (Proper).     *)
OpensNamedFile ==
  LET result == Meaning(path.mnt, path.name)
  IN  file # None =>
        file = result \/ (file = NoMemory /\ result \notin {NoMount, NoEntry})
=============================================================================
