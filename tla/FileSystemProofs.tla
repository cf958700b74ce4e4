-------------------------- MODULE FileSystemProofs --------------------------
(***************************************************************************)
(* Proofs about FileSystem.                                                *)
(***************************************************************************)
EXTENDS FileSystem, ListTheorems

LEMMA LeastIs ==
  ASSUME NEW S \in SUBSET Nat, NEW a \in S, \A b \in S : a <= b
  PROVE  Least(S) = a
<1> DEFINE x == Least(S)
<1>1. x \in S /\ \A b \in S : x <= b
  BY DEF Least
<1> HIDE DEF x
<1>2. x \in Nat /\ a \in Nat /\ x <= a /\ a <= x
  BY <1>1
<1>3. x = a
  BY <1>2
<1>4. QED
  BY <1>3 DEF x

LEMMA MostIs ==
  ASSUME NEW S \in SUBSET Nat, NEW a \in S, \A b \in S : a >= b
  PROVE  Most(S) = a
<1> DEFINE x == Most(S)
<1>1. x \in S /\ \A b \in S : x >= b
  BY DEF Most
<1> HIDE DEF x
<1>2. x \in Nat /\ a \in Nat /\ x >= a /\ a >= x
  BY <1>1
<1>3. x = a
  BY <1>2
<1>4. QED
  BY <1>3 DEF x

LEMMA LeastType ==
  ASSUME NEW S \in SUBSET Nat, S # {}
  PROVE  Least(S) \in S /\ \A b \in S : Least(S) <= b
<1>1. PICK a \in S : \A b \in S : a <= b
  BY LeastNumber
<1>2. QED
  BY <1>1 DEF Least

(* A set of numbers up to a bound has a greatest. *)
LEMMA MostType ==
  ASSUME NEW m \in Nat, NEW S \in SUBSET (0..m), S # {}
  PROVE  Most(S) \in S /\ \A b \in S : Most(S) >= b
<1> DEFINE T == {k \in 0..m : m - k \in S}
<1>1. T \in SUBSET Nat /\ T # {}
  <2>1. PICK b \in S : TRUE
    OBVIOUS
  <2>2. m - b \in 0..m /\ m - (m - b) = b
    OBVIOUS
  <2>3. m - b \in T
    BY <2>1, <2>2
  <2>4. T \subseteq Nat
    OBVIOUS
  <2>5. QED
    BY <2>3, <2>4
<1>2. PICK k \in T : \A j \in T : k <= j
  BY <1>1, LeastNumber
<1>3. ASSUME NEW b \in S
      PROVE  m - k >= b
  <2>1. m - b \in 0..m /\ m - (m - b) = b
    OBVIOUS
  <2>2. m - b \in T
    BY <1>3, <2>1
  <2>3. QED
    BY <1>2, <2>1, <2>2
<1>4. m - k \in S
  BY <1>2
<1>5. QED
  BY <1>3, <1>4 DEF Most

LEMMA Sizes ==
  /\ max_block_devices \in Nat /\ INIT_MPOINTS \in Nat \ {0} /\ STEP \in Nat \ {0}
  /\ PER_BLOCK \in Nat \ {0}
BY FileSystemAssumption
-----------------------------------------------------------------------------
(* The tables.  Entries of the mount table are taken in the order of the   *)
(* file systems.                                                           *)
Vfs == {[fs |-> fat12_mount(d), vcovered |-> m] : d \in Device, m \in Mount}

TableInv ==
  /\ disk \in Disks
  /\ block_devices \in Seq(Device) /\ Len(block_devices) <= max_block_devices
  /\ fsys \in Seq(Vfs)
  /\ curr_size \in 0..INIT_MPOINTS /\ Len(fsys) <= curr_size
  /\ mountpoints = [i \in 0..(INIT_MPOINTS - 1) |-> IF i < Len(fsys) THEN i + 1 ELSE 0]

LEMMA VfsFields ==
  ASSUME TableInv, NEW k \in 1..Len(fsys)
  PROVE  \E d \in Device, m \in Mount :
           fsys[k].fs = fat12_mount(d) /\ fsys[k].vcovered = m
<1>1. fsys[k] \in Vfs
  BY DEF TableInv
<1>2. PICK d \in Device, m \in Mount : fsys[k] = [fs |-> fat12_mount(d), vcovered |-> m]
  BY <1>1 DEF Vfs
<1>3. fsys[k].fs = fat12_mount(d) /\ fsys[k].vcovered = m
  BY <1>2
<1>4. QED
  BY <1>3

(* What mounting finds out about a disk. *)
LEMMA MountLayout ==
  ASSUME disk \in Disks, NEW d \in Device
  PROVE  LET h == fat12_mount(d)
         IN  /\ h.dev = d /\ h.root_dir_start = RootStart(disk[d])
             /\ h.root_dir_sectors = Len(disk[d].dir)
             /\ h.data_area_start = DataStart(disk[d])
             /\ RootStart(disk[d]) \in Nat
<1> DEFINE h == fat12_mount(d)
           bpb == disk[d].bpb
           start == (bpb.hidden_sectors % 256) + bpb.rsrvd_cnt + bpb.num_fats * bpb.sectors_per_fat
           sectors == (bpb.max_root_dir_entries * 32) \div bpb.bytes_per_sector
<1>1. DiskAsDescribed(disk[d])
  BY DiskAssumption
<1>2. /\ bpb.rsrvd_cnt \in Nat /\ bpb.num_fats \in Nat /\ bpb.sectors_per_fat \in Nat
      /\ bpb.hidden_sectors % 256 = 0 /\ sectors = Len(disk[d].dir)
  BY <1>1 DEF DiskAsDescribed
<1>3. /\ h.dev = d /\ h.root_dir_start = start /\ h.root_dir_sectors = sectors
      /\ h.data_area_start = start + sectors
  BY DEF fat12_mount
<1> HIDE DEF h, sectors
<1>4. bpb.num_fats * bpb.sectors_per_fat \in Nat
  BY <1>2
<1> DEFINE x == bpb.num_fats * bpb.sectors_per_fat
           y == bpb.rsrvd_cnt
<1>5. RootStart(disk[d]) = y + x /\ start = 0 + y + x
  BY <1>2 DEF RootStart
<1>6. x \in Nat /\ y \in Nat
  BY <1>2, <1>4
<1> HIDE DEF x, y, start
<1>7. start = RootStart(disk[d]) /\ RootStart(disk[d]) \in Nat
  BY <1>5, <1>6
<1>8. DataStart(disk[d]) = RootStart(disk[d]) + Len(disk[d].dir)
  BY DEF DataStart
<1>9. QED
  BY <1>2, <1>3, <1>7, <1>8 DEF h

(* The entries that are free are those behind the file systems. *)
LEMMA FreeAre ==
  ASSUME TableInv
  PROVE  /\ FreeEntries = Len(fsys)..(curr_size - 1)
         /\ FreeEntries # {} => Least(FreeEntries) = Len(fsys)
         /\ FreeEntries = {} => curr_size = Len(fsys)
<1>1. /\ Len(fsys) \in Nat /\ curr_size \in Nat /\ Len(fsys) <= curr_size
      /\ curr_size <= INIT_MPOINTS
      /\ mountpoints = [i \in 0..(INIT_MPOINTS - 1) |-> IF i < Len(fsys) THEN i + 1 ELSE 0]
  BY Sizes DEF TableInv
<1>2. \A i \in 0..(curr_size - 1) : mountpoints[i] = 0 <=> i >= Len(fsys)
  BY <1>1, Sizes
<1>3. FreeEntries = Len(fsys)..(curr_size - 1)
  BY <1>1, <1>2 DEF FreeEntries
<1>4. ASSUME FreeEntries # {}
      PROVE  Least(FreeEntries) = Len(fsys)
  <2> DEFINE S == Len(fsys)..(curr_size - 1)
  <2>1. S \in SUBSET Nat /\ Len(fsys) \in S /\ \A b \in S : Len(fsys) <= b
    BY <1>1, <1>3, <1>4
  <2> HIDE DEF S
  <2>2. Least(S) = Len(fsys)
    BY <2>1, LeastIs
  <2>3. QED
    BY <1>3, <2>2 DEF S
<1>5. FreeEntries = {} => curr_size = Len(fsys)
  BY <1>1, <1>3
<1>6. QED
  BY <1>3, <1>4, <1>5

(* The file systems of f mounted at m, and the table's view of them. *)
At(f, m) == {k \in 1..Len(f) : f[k].vcovered = m}

LEMMA MountedAre ==
  ASSUME TableInv, NEW m
  PROVE  /\ Mounted(m) = {} <=> At(fsys, m) = {}
         /\ At(fsys, m) # {} => /\ mountpoints[Most(Mounted(m))] = Most(At(fsys, m))
                          /\ Most(At(fsys, m)) \in At(fsys, m)
<1>1. /\ Len(fsys) \in Nat /\ curr_size \in Nat /\ Len(fsys) <= curr_size
      /\ curr_size <= INIT_MPOINTS
      /\ mountpoints = [i \in 0..(INIT_MPOINTS - 1) |-> IF i < Len(fsys) THEN i + 1 ELSE 0]
  BY Sizes DEF TableInv
<1>2. \A i \in 0..(curr_size - 1) :
        i \in 0..(INIT_MPOINTS - 1) /\ mountpoints[i] = IF i < Len(fsys) THEN i + 1 ELSE 0
  BY <1>1, Sizes
<1>3. Mounted(m) \in SUBSET (0..(curr_size - 1))
  BY DEF Mounted
<1>4. ASSUME NEW i \in Mounted(m)
      PROVE  i \in Nat /\ i + 1 \in At(fsys, m) /\ mountpoints[i] = i + 1
  <2>1. i \in 0..(curr_size - 1) /\ mountpoints[i] # 0 /\ fsys[mountpoints[i]].vcovered = m
    BY DEF Mounted
  <2>2. i < Len(fsys) /\ mountpoints[i] = i + 1
    BY <1>2, <2>1
  <2>3. i \in Nat /\ i + 1 \in 1..Len(fsys)
    BY <1>1, <2>1, <2>2
  <2>4. QED
    BY <2>1, <2>2, <2>3 DEF At
<1>5. ASSUME NEW k \in At(fsys, m)
      PROVE  k \in 1..Len(fsys) /\ k - 1 \in Mounted(m)
  <2>1. k \in 1..Len(fsys) /\ fsys[k].vcovered = m
    BY DEF At
  <2>2. k - 1 \in 0..(curr_size - 1) /\ k - 1 < Len(fsys) /\ (k - 1) + 1 = k /\ k # 0
    BY <1>1, <2>1
  <2>3. mountpoints[k - 1] = k
    BY <1>2, <2>2
  <2>4. QED
    BY <2>1, <2>2, <2>3 DEF Mounted
<1>6. Mounted(m) = {} <=> At(fsys, m) = {}
  BY <1>4, <1>5
<1>7. ASSUME At(fsys, m) # {}
      PROVE  mountpoints[Most(Mounted(m))] = Most(At(fsys, m)) /\ Most(At(fsys, m)) \in At(fsys, m)
  <2> DEFINE A == At(fsys, m)
             M == Mounted(m)
             t == Most(A)
  <2>1. A \in SUBSET (0..Len(fsys)) /\ A # {}
    BY <1>1, <1>5, <1>7
  <2> HIDE DEF A
  <2>2. t \in A /\ \A b \in A : t >= b
    BY <1>1, <2>1, MostType
  <2> HIDE DEF t, M
  <2>3. t \in 1..Len(fsys) /\ t - 1 \in M
    BY <1>5, <2>2 DEF A, M
  <2>4. ASSUME NEW b \in M
        PROVE  t - 1 >= b
    <3>1. b \in Nat /\ b + 1 \in A
      BY <1>4 DEF A, M
    <3>2. QED
      BY <1>1, <2>2, <2>3, <3>1
  <2>5. M \in SUBSET Nat
    BY <1>4 DEF M
  <2>6. Most(M) = t - 1
    <3> DEFINE u == t - 1
    <3>1. u \in M /\ \A b \in M : u >= b
      BY <2>3, <2>4
    <3> HIDE DEF u
    <3>2. Most(M) = u
      BY <2>5, <3>1, MostIs
    <3>3. QED
      BY <3>2 DEF u
  <2>7. mountpoints[t - 1] = t
    BY <1>1, <1>4, <2>3 DEF M
  <2>8. QED
    BY <2>2, <2>6, <2>7 DEF A, M, t
<1>8. QED
  BY <1>6, <1>7

-----------------------------------------------------------------------------
(* The directory.  The entries at which the search for n ends. *)
Hit(d, n, p) ==
  EntryAt(d, p).kind \in {"file", "dir"} /\ EntryAt(d, p).name = _fat12_normal_to_8_3(n)
Halt(d, n, p) == EntryAt(d, p).kind = "end" \/ Hit(d, n, p)

(* It has not ended in the first b blocks. *)
Passed(d, n, b) == \A p \in Places(d) : p[1] <= b => ~ Halt(d, n, p)

(* A name that an entry can have is compared as well in the form of the    *)
(* entries as in that of the paths.                                        *)
LEMMA HitIsNamed ==
  ASSUME NEW d, DiskAsDescribed(d), NEW n, n # <<>>, Proper(n), NEW p \in Places(d),
         EntryAt(d, p).kind \in {"file", "dir"}
  PROVE  Hit(d, n, p) <=> _fat12_8_3to_normal(EntryAt(d, p).name) = n
<1> DEFINE name == EntryAt(d, p).name
<1>1. _fat12_normal_to_8_3(_fat12_8_3to_normal(name)) = name
  BY DEF DiskAsDescribed, Places, EntryAt
<1>2. _fat12_8_3to_normal(_fat12_normal_to_8_3(n)) = n
  BY DEF Proper
<1>3. QED
  BY <1>1, <1>2 DEF Hit

LEMMA NoEmptyName ==
  ASSUME NEW d, DiskAsDescribed(d)
  PROVE  Named(d, <<>>) = {}
<1>1. SUFFICES ASSUME NEW p \in Named(d, <<>>)
               PROVE  FALSE
  OBVIOUS
<1>2. /\ p \in Places(d) /\ EntryAt(d, p).kind \in {"file", "dir"}
      /\ _fat12_8_3to_normal(EntryAt(d, p).name) = <<>>
  BY DEF Named
<1>3. p[1] \in 1..Len(d.dir) /\ p[2] \in 0..(PER_BLOCK - 1)
  BY <1>2 DEF Places
<1>4. _fat12_8_3to_normal(EntryAt(d, p).name) # <<>>
  BY <1>2, <1>3 DEF DiskAsDescribed, EntryAt
<1>5. QED
  BY <1>2, <1>4

LEMMA NamedHits ==
  ASSUME NEW d, DiskAsDescribed(d), NEW n, n # <<>>, Proper(n), NEW p \in Named(d, n)
  PROVE  /\ p \in Places(d) /\ Halt(d, n, p)
         /\ \A q \in Places(d) : EntryAt(d, q).kind = "end" => ~ Before(q, p)
<1>1. /\ p \in Places(d) /\ EntryAt(d, p).kind \in {"file", "dir"}
      /\ _fat12_8_3to_normal(EntryAt(d, p).name) = n
      /\ \A q \in Places(d) : EntryAt(d, q).kind = "end" => ~ Before(q, p)
  BY DEF Named
<1>2. Hit(d, n, p)
  BY <1>1, HitIsNamed
<1>3. QED
  BY <1>1, <1>2 DEF Halt

LEMMA NothingFound ==
  ASSUME NEW d, DiskAsDescribed(d), NEW n, n # <<>>, Proper(n), Passed(d, n, Len(d.dir))
  PROVE  Named(d, n) = {}
<1>1. SUFFICES ASSUME NEW p \in Named(d, n)
               PROVE  FALSE
  OBVIOUS
<1>2. p \in Places(d) /\ Halt(d, n, p)
  BY NamedHits
<1>3. Len(d.dir) \in Nat
  BY DEF DiskAsDescribed
<1>4. p[1] <= Len(d.dir)
  BY <1>2, <1>3 DEF Places
<1>5. QED
  BY <1>2, <1>4 DEF Passed

(* Where the search ends there is the first entry of the name, or none. *)
LEMMA FirstHalt ==
  ASSUME NEW d, DiskAsDescribed(d), NEW n, n # <<>>, Proper(n),
         NEW b \in Nat, b < Len(d.dir), Passed(d, n, b),
         NEW i \in 0..(PER_BLOCK - 1), Halt(d, n, <<b + 1, i>>),
         \A j \in 0..(PER_BLOCK - 1) : Halt(d, n, <<b + 1, j>>) => i <= j
  PROVE  LET q == <<b + 1, i>>
         IN  /\ EntryAt(d, q).kind = "end" => Named(d, n) = {}
             /\ EntryAt(d, q).kind # "end" =>
                  q \in Named(d, n) /\ \A r \in Named(d, n) : Before(q, r)
<1> DEFINE q == <<b + 1, i>>
<1>1. Len(d.dir) \in Nat /\ PER_BLOCK \in Nat
  BY Sizes DEF DiskAsDescribed
<1>2. q \in Places(d) /\ q[1] = b + 1 /\ q[2] = i
  BY <1>1 DEF Places
<1>3. ASSUME NEW r \in Places(d), Halt(d, n, r)
      PROVE  Before(q, r) /\ (Before(r, q) => r = q)
  <2>1. r[1] \in 1..Len(d.dir) /\ r[2] \in 0..(PER_BLOCK - 1) /\ r = <<r[1], r[2]>>
    BY DEF Places
  <2>2. ~ (r[1] <= b)
    BY <1>3 DEF Passed
  <2>3. CASE r[1] = b + 1
    <3>1. i <= r[2]
      BY <1>3, <2>1, <2>3
    <3>2. QED
      BY <1>1, <1>2, <2>1, <2>3, <3>1 DEF Before
  <2>4. CASE r[1] # b + 1
    BY <1>1, <1>2, <2>1, <2>2, <2>4 DEF Before
  <2>5. QED
    BY <2>3, <2>4
<1> HIDE DEF q
<1>4. ASSUME NEW r \in Named(d, n)
      PROVE  Before(q, r)
  BY <1>3, <1>4, NamedHits
<1>5. ASSUME EntryAt(d, q).kind = "end"
      PROVE  Named(d, n) = {}
  <2>1. SUFFICES ASSUME NEW r \in Named(d, n)
                 PROVE  FALSE
    OBVIOUS
  <2>2. ~ Before(q, r)
    BY <1>2, <1>5, NamedHits
  <2>3. QED
    BY <1>4, <2>2
<1>6. ASSUME EntryAt(d, q).kind # "end"
      PROVE  q \in Named(d, n)
  <2>1. Hit(d, n, q)
    BY <1>6 DEF Halt, q
  <2>2. EntryAt(d, q).kind \in {"file", "dir"}
    BY <2>1 DEF Hit
  <2>3. _fat12_8_3to_normal(EntryAt(d, q).name) = n
    BY <1>2, <2>1, <2>2, HitIsNamed
  <2>4. ASSUME NEW r \in Places(d), EntryAt(d, r).kind = "end"
        PROVE  ~ Before(r, q)
    <3>1. Halt(d, n, r)
      BY <2>4 DEF Halt
    <3>2. r # q
      BY <1>6, <2>4
    <3>3. QED
      BY <1>3, <3>1, <3>2
  <2>5. QED
    BY <1>2, <2>2, <2>3, <2>4 DEF Named
<1>7. QED
  BY <1>4, <1>5, <1>6 DEF q

(* The first entry is unique. *)
LEMMA FirstIs ==
  ASSUME NEW d, NEW n, NEW q \in Named(d, n), \A r \in Named(d, n) : Before(q, r),
         Len(d.dir) \in Nat
  PROVE  (CHOOSE p \in Named(d, n) : \A r \in Named(d, n) : Before(p, r)) = q
<1> DEFINE p == CHOOSE p \in Named(d, n) : \A r \in Named(d, n) : Before(p, r)
<1>1. p \in Named(d, n) /\ \A r \in Named(d, n) : Before(p, r)
  OBVIOUS
<1> HIDE DEF p
<1>2. p \in Places(d) /\ q \in Places(d)
  BY <1>1 DEF Named
<1>3. /\ p[1] \in Nat /\ p[2] \in Nat /\ p = <<p[1], p[2]>>
      /\ q[1] \in Nat /\ q[2] \in Nat /\ q = <<q[1], q[2]>>
  BY <1>2, Sizes DEF Places
<1>4. Before(p, q) /\ Before(q, p)
  BY <1>1
<1>5. p[1] = q[1] /\ p[2] = q[2]
  BY <1>3, <1>4 DEF Before
<1>6. p = q
  BY <1>3, <1>5
<1>7. QED
  BY <1>6 DEF p

-----------------------------------------------------------------------------
(* What a path means when the disks are dk and the file systems f. *)
MeaningIn(dk, f, m, n) ==
  LET dev == f[Most(At(f, m))].fs.dev
      d == dk[dev]
      p == CHOOSE q \in Named(d, n) : \A r \in Named(d, n) : Before(q, r)
  IN  IF At(f, m) = {} THEN NoMount
      ELSE IF Named(d, n) = {} THEN NoEntry
      ELSE vnode(dev, RootStart(d) + p[1] - 1, p[2], EntryAt(d, p).kind)

LEMMA MeaningIs ==
  ASSUME NEW m, NEW n
  PROVE  Meaning(m, n) = MeaningIn(disk, fsys, m, n)
BY DEF Meaning, MeaningIn, At

\* The node lookup makes of entry q of the root directory of disk d.
VnodeAt(dev, d, q) == vnode(dev, RootStart(d) + q[1] - 1, q[2], EntryAt(d, q).kind)

\* q is the first entry of disk d with name n.
FirstNamed(d, n, q) == q \in Named(d, n) /\ \A r \in Named(d, n) : Before(q, r)

(* An entry that is found is what is meant. *)
LEMMA FoundIsMeant ==
  ASSUME TableInv, NEW m, At(fsys, m) # {}, NEW n, NEW k, k = Most(At(fsys, m)),
         NEW dev, dev = fsys[k].fs.dev, NEW d, d = disk[dev],
         NEW q, FirstNamed(d, n, q)
  PROVE  /\ MeaningIn(disk, fsys, m, n) = VnodeAt(dev, d, q)
         /\ VnodeAt(dev, d, q) \notin {NoMount, NoEntry}
<1> DEFINE v == VnodeAt(dev, d, q)
<1>1. k \in 1..Len(fsys)
  BY MountedAre DEF At
<1>2. PICK e \in Device : fsys[k].fs = fat12_mount(e)
  BY <1>1, VfsFields
<1>3. dev = e /\ dev \in Device /\ RootStart(d) \in Nat /\ DiskAsDescribed(d)
  BY <1>2, MountLayout, DiskAssumption DEF TableInv
<1>4. Len(d.dir) \in Nat
  BY <1>3 DEF DiskAsDescribed
<1>5. (CHOOSE p \in Named(d, n) : \A r \in Named(d, n) : Before(p, r)) = q
  BY <1>4, FirstIs DEF FirstNamed
<1>6. MeaningIn(disk, fsys, m, n) = v
  BY <1>5 DEF MeaningIn, VnodeAt, FirstNamed
<1>7. q \in Places(d) /\ EntryAt(d, q).kind \in {"file", "dir"}
  BY DEF Named, FirstNamed
<1>8. q[1] \in 1..Len(d.dir) /\ q[2] \in 0..(PER_BLOCK - 1)
  BY <1>7 DEF Places
<1>9. RootStart(d) + q[1] - 1 \in Nat
  BY <1>3, <1>4, <1>8
<1>10. v \in Vnode
  BY <1>3, <1>7, <1>8, <1>9 DEF VnodeAt, vnode, Vnode
<1> HIDE DEF v
<1>11. v \notin {NoMount, NoEntry}
  BY <1>10, ResultAssumption
<1>12. QED
  BY <1>6, <1>11 DEF v

(* The search. *)
LookupInv ==
  LET d == disk[fsys[root].fs.dev]
  IN  /\ path.name # <<>> /\ Proper(path.name)
      /\ At(fsys, path.mnt) # {} /\ root = Most(At(fsys, path.mnt))
      /\ block <= Len(d.dir)
      /\ Passed(d, path.name, block)
      /\ file = None

ResultInv ==
  LET result == MeaningIn(disk, fsys, path.mnt, path.name)
  IN  file # None =>
        file = result \/ (file = NoMemory /\ result \notin {NoMount, NoEntry})

OpenInv ==
  /\ pc \in {"idle", "lookup"} /\ root \in 0..Len(fsys) /\ block \in Nat
  /\ pc = "lookup" => LookupInv
  /\ ResultInv

FsInv == TableInv /\ OpenInv

LEMMA FsInitInv == FsInit => FsInv
<1>1. SUFFICES ASSUME FsInit
               PROVE  FsInv
  OBVIOUS
<1>2. /\ disk \in Disks /\ block_devices = <<>> /\ fsys = <<>> /\ curr_size = 0
      /\ mountpoints = [i \in 0..(INIT_MPOINTS - 1) |-> 0]
      /\ pc = "idle" /\ root = 0 /\ block = 0 /\ file = None
  BY <1>1 DEF FsInit
<1>3. Len(fsys) = 0 /\ fsys \in Seq(Vfs) /\ block_devices \in Seq(Device) /\ Len(block_devices) = 0
  BY <1>2
<1>4. mountpoints = [i \in 0..(INIT_MPOINTS - 1) |-> IF i < Len(fsys) THEN i + 1 ELSE 0]
  BY <1>2, <1>3
<1>5. TableInv
  BY <1>2, <1>3, <1>4, Sizes DEF TableInv
<1>6. OpenInv
  BY <1>2, <1>3 DEF OpenInv, ResultInv
<1>7. QED
  BY <1>5, <1>6 DEF FsInv

(* A call that forgets the last open. *)
LEMMA ForgetKeeps ==
  ASSUME Forget, Len(fsys') \in Nat
  PROVE  OpenInv'
BY DEF Forget, OpenInv, ResultInv

LEMMA VfsFixed ==
  ASSUME disk' = disk
  PROVE  Vfs' = Vfs
BY DEF Vfs, fat12_mount

LEMMA TableFixed ==
  ASSUME TableInv, disk' = disk, UNCHANGED tableVars
  PROVE  TableInv'
BY VfsFixed DEF TableInv, tableVars

LEMMA RegisterKeeps ==
  ASSUME FsInv, NEW d \in Device, blkdev_register(d)
  PROVE  FsInv'
<1>1. /\ Len(block_devices) < max_block_devices /\ block_devices' = Append(block_devices, d)
      /\ Forget /\ UNCHANGED <<disk, fsys, mountpoints, curr_size>>
  BY DEF blkdev_register
<1>2. TableInv /\ block_devices \in Seq(Device) /\ Len(block_devices) \in Nat /\ Len(fsys) \in Nat
  BY DEF FsInv, TableInv
<1>3. /\ block_devices' \in Seq(Device)
      /\ Len(block_devices') = Len(block_devices) + 1
  BY <1>1, <1>2
<1>4. Len(block_devices') <= max_block_devices
  BY <1>1, <1>2, <1>3, Sizes
<1>5. TableInv'
  BY <1>1, <1>2, <1>3, <1>4, VfsFixed DEF TableInv
<1>6. QED
  BY <1>1, <1>2, <1>5, ForgetKeeps DEF FsInv

LEMMA MountKeeps ==
  ASSUME FsInv, Room, NEW d \in Device, NEW m \in Mount, vfs_mount(d, m)
  PROVE  FsInv'
<1> DEFINE N == Len(fsys)
           v == [fs |-> fat12_mount(d), vcovered |-> m]
<1>1. /\ fsys' = Append(fsys, v) /\ _add_to_mpoints(N + 1) /\ Forget
      /\ UNCHANGED <<disk, block_devices>>
  BY DEF vfs_mount
<1>2. /\ TableInv /\ fsys \in Seq(Vfs) /\ N \in Nat /\ curr_size \in Nat /\ N <= curr_size
      /\ curr_size <= INIT_MPOINTS /\ INIT_MPOINTS \in Nat /\ STEP \in Nat \ {0}
      /\ mountpoints = [i \in 0..(INIT_MPOINTS - 1) |-> IF i < N THEN i + 1 ELSE 0]
  BY Sizes DEF FsInv, TableInv
<1>3. v \in Vfs /\ Vfs' = Vfs
  BY <1>1, VfsFixed DEF Vfs
<1> HIDE DEF v
<1>4. fsys' \in Seq(Vfs) /\ Len(fsys') = N + 1
  BY <1>1, <1>2, <1>3
<1>5. /\ mountpoints' = [mountpoints EXCEPT ![N] = N + 1] /\ N < INIT_MPOINTS
      /\ curr_size' \in 0..INIT_MPOINTS /\ N + 1 <= curr_size'
  <2>1. CASE FreeEntries # {}
    <3>1. Least(FreeEntries) = N /\ N \in N..(curr_size - 1)
      BY <1>2, <2>1, FreeAre
    <3>2. mountpoints' = [mountpoints EXCEPT ![N] = N + 1] /\ curr_size' = curr_size
      BY <1>1, <2>1, <3>1 DEF _add_to_mpoints
    <3>3. QED
      BY <1>2, <3>1, <3>2
  <2>2. CASE FreeEntries = {}
    <3>1. curr_size = N
      BY <1>2, <2>2, FreeAre
    <3>2. mountpoints' = [mountpoints EXCEPT ![N] = N + 1] /\ curr_size' = curr_size + STEP
      BY <1>1, <2>2, <3>1 DEF _add_to_mpoints
    <3>3. curr_size + STEP <= INIT_MPOINTS
      BY <2>2 DEF Room
    <3>4. QED
      BY <1>2, <3>1, <3>2, <3>3
  <2>3. QED
    BY <2>1, <2>2
<1>6. mountpoints' = [i \in 0..(INIT_MPOINTS - 1) |-> IF i < N + 1 THEN i + 1 ELSE 0]
  <2>1. \A i \in 0..(INIT_MPOINTS - 1) :
          (IF i = N THEN N + 1 ELSE IF i < N THEN i + 1 ELSE 0) = IF i < N + 1 THEN i + 1 ELSE 0
    BY <1>2
  <2>2. mountpoints' = [i \in 0..(INIT_MPOINTS - 1) |->
                          IF i = N THEN N + 1 ELSE IF i < N THEN i + 1 ELSE 0]
    BY <1>2, <1>5
  <2>3. QED
    BY <2>1, <2>2
<1>7. TableInv'
  BY <1>1, <1>2, <1>3, <1>4, <1>5, <1>6 DEF TableInv
<1>8. Len(fsys') \in Nat
  BY <1>2, <1>4
<1>9. QED
  BY <1>1, <1>7, <1>8, ForgetKeeps DEF FsInv

LEMMA OpenKeeps ==
  ASSUME FsInv, NEW m \in Mount, NEW n \in Path, Proper(n), vfs_open(m, n)
  PROVE  FsInv'
<1> DEFINE A == At(fsys, m)
           k == Most(A)
           d == disk[fsys[k].fs.dev]
<1>1. /\ pc = "idle" /\ path' = [mnt |-> m, name |-> n] /\ block' = 0
      /\ root' = IF Mounted(m) = {} THEN 0 ELSE mountpoints[Most(Mounted(m))]
      /\ \/ Mounted(m) = {} /\ file' = NoMount /\ UNCHANGED pc
         \/ Mounted(m) # {} /\ n = <<>> /\ file' = NoEntry /\ UNCHANGED pc
         \/ Mounted(m) # {} /\ n # <<>> /\ file' = None /\ pc' = "lookup"
      /\ disk' = disk /\ UNCHANGED tableVars /\ fsys' = fsys
  BY DEF vfs_open, tableVars
<1>2. TableInv /\ Len(fsys) \in Nat
  BY DEF FsInv, TableInv
<1>3. TableInv'
  BY <1>1, <1>2, TableFixed
<1>4. path'.mnt = m /\ path'.name = n
  BY <1>1
<1>5. /\ Mounted(m) = {} <=> A = {}
      /\ A # {} => mountpoints[Most(Mounted(m))] = k /\ k \in A
  BY <1>2, MountedAre
<1>6. A # {} => k \in 1..Len(fsys)
  BY <1>5 DEF At
<1>7. root' \in 0..Len(fsys') /\ (A # {} => root' = k)
  BY <1>1, <1>2, <1>5, <1>6
<1>8. ASSUME A # {}
      PROVE  DiskAsDescribed(d)
  <2>1. PICK e \in Device : fsys[k].fs = fat12_mount(e)
    BY <1>2, <1>6, <1>8, VfsFields
  <2>2. fsys[k].fs.dev = e /\ disk \in Disks
    BY <1>2, <2>1, MountLayout DEF TableInv
  <2>3. QED
    BY <2>2, DiskAssumption
<1> HIDE DEF A, k, d
<1>9. CASE Mounted(m) = {} /\ file' = NoMount /\ UNCHANGED pc
  <2>1. MeaningIn(disk, fsys, m, n) = NoMount
    BY <1>5, <1>9 DEF MeaningIn, A
  <2>2. ResultInv'
    BY <1>1, <1>4, <1>9, <2>1 DEF ResultInv
  <2>3. OpenInv'
    BY <1>1, <1>7, <1>9, <2>2 DEF OpenInv
  <2>4. QED
    BY <1>3, <2>3 DEF FsInv
<1>10. CASE Mounted(m) # {} /\ n = <<>> /\ file' = NoEntry /\ UNCHANGED pc
  <2>1. A # {} /\ Named(d, n) = {}
    BY <1>5, <1>8, <1>10, NoEmptyName
  <2>2. MeaningIn(disk, fsys, m, n) = NoEntry
    BY <2>1 DEF MeaningIn, A, k, d
  <2>3. ResultInv'
    BY <1>1, <1>4, <1>10, <2>2 DEF ResultInv
  <2>4. OpenInv'
    BY <1>1, <1>7, <1>10, <2>3 DEF OpenInv
  <2>5. QED
    BY <1>3, <2>4 DEF FsInv
<1>11. CASE Mounted(m) # {} /\ n # <<>> /\ file' = None /\ pc' = "lookup"
  <2>1. A # {} /\ Len(d.dir) \in Nat
    BY <1>5, <1>8, <1>11 DEF DiskAsDescribed
  <2>2. Passed(d, n, 0)
    <3>1. \A p \in Places(d) : ~ (p[1] <= 0)
      BY <2>1 DEF Places
    <3>2. QED
      BY <3>1 DEF Passed
  <2>3. d = disk'[fsys'[root'].fs.dev] /\ root' = Most(At(fsys', path'.mnt))
        /\ At(fsys', path'.mnt) # {}
    BY <1>1, <1>4, <1>7, <2>1 DEF A, k, d
  <2>4. LookupInv'
    BY <1>1, <1>4, <1>11, <2>1, <2>2, <2>3 DEF LookupInv
  <2>5. OpenInv'
    BY <1>1, <1>7, <1>11, <2>4 DEF OpenInv, ResultInv
  <2>6. QED
    BY <1>3, <2>5 DEF FsInv
<1>12. QED
  BY <1>1, <1>9, <1>10, <1>11

(* What the search works on. *)
LEMMA LookupState ==
  ASSUME FsInv, pc = "lookup"
  PROVE  LET d == disk[fs.dev]
         IN  /\ fs = fsys[root].fs /\ LookupInv /\ TableInv /\ DiskAsDescribed(d)
             /\ fs.root_dir_sectors = Len(d.dir) /\ fs.root_dir_start = RootStart(d)
             /\ RootStart(d) \in Nat /\ Len(d.dir) \in Nat /\ block \in Nat
             /\ block < Len(d.dir) => dir_entries = d.dir[block + 1]
<1> DEFINE d == disk[fs.dev]
<1>1. TableInv /\ LookupInv /\ block \in Nat /\ fs = fsys[root].fs
  BY DEF FsInv, OpenInv, fs
<1>2. root \in 1..Len(fsys)
  BY <1>1, MountedAre DEF LookupInv, At
<1>3. PICK e \in Device : fsys[root].fs = fat12_mount(e)
  BY <1>1, <1>2, VfsFields
<1>4. /\ fs.dev = e /\ fs.root_dir_start = RootStart(d) /\ fs.root_dir_sectors = Len(d.dir)
      /\ RootStart(d) \in Nat /\ disk \in Disks
  BY <1>1, <1>3, MountLayout DEF TableInv
<1>5. DiskAsDescribed(d)
  BY <1>4, DiskAssumption
<1>6. Len(d.dir) \in Nat
  BY <1>5 DEF DiskAsDescribed
<1>7. ASSUME block < Len(d.dir)
      PROVE  dir_entries = d.dir[block + 1]
  <2> DEFINE r == RootStart(d)
  <2>1. DataStart(d) = r + Len(d.dir)
    BY DEF DataStart
  <2>2. dir_entries = BlockOf(d, r + block)
    BY <1>4 DEF dir_entries
  <2>3. r \in Nat
    BY <1>4
  <2> HIDE DEF r, d
  <2>4. r + block \in r..((r + Len(d.dir)) - 1) /\ (r + block) - r + 1 = block + 1
    BY <1>1, <1>6, <1>7, <2>3
  <2>5. QED
    BY <2>1, <2>2, <2>4 DEF BlockOf, r
<1>8. QED
  BY <1>1, <1>4, <1>5, <1>6, <1>7

(* The entries of a block at which the scan stops. *)
LEMMA StopsAre ==
  ASSUME FsInv, pc = "lookup", block < fs.root_dir_sectors, NEW i \in 0..(PER_BLOCK - 1)
  PROVE  LET d == disk[fs.dev]
         IN  /\ i \in Stops <=> Halt(d, path.name, <<block + 1, i>>)
             /\ dir_entries[i] = EntryAt(d, <<block + 1, i>>)
<1> DEFINE d == disk[fs.dev]
<1>1. dir_entries = d.dir[block + 1]
  BY LookupState
<1>2. dir_entries[i] = EntryAt(d, <<block + 1, i>>)
  BY <1>1 DEF EntryAt
<1> HIDE DEF d
<1>3. i \in Stops <=> Halt(d, path.name, <<block + 1, i>>)
  BY <1>2 DEF Stops, Matches, Halt, Hit
<1>4. QED
  BY <1>2, <1>3 DEF d

LEMMA NextBlockKeeps == FsInv /\ lookup_next_block => FsInv'
<1>1. SUFFICES ASSUME FsInv, lookup_next_block
               PROVE  FsInv'
  OBVIOUS
<1> DEFINE d == disk[fs.dev]
<1>2. /\ pc = "lookup" /\ block < fs.root_dir_sectors /\ Stops = {} /\ block' = block + 1
      /\ disk' = disk /\ UNCHANGED tableVars /\ pc' = pc /\ path' = path /\ root' = root
      /\ file' = file /\ fsys' = fsys
  BY <1>1 DEF lookup_next_block, tableVars
<1>3. /\ LookupInv /\ TableInv /\ DiskAsDescribed(d) /\ fs = fsys[root].fs
      /\ fs.root_dir_sectors = Len(d.dir) /\ Len(d.dir) \in Nat /\ block \in Nat
  BY <1>1, <1>2, LookupState
<1>4. Passed(d, path.name, block + 1)
  <2>1. SUFFICES ASSUME NEW p \in Places(d), p[1] <= block + 1
                 PROVE  ~ Halt(d, path.name, p)
    BY DEF Passed
  <2>2. p[1] \in 1..Len(d.dir) /\ p[2] \in 0..(PER_BLOCK - 1) /\ p = <<p[1], p[2]>>
    BY DEF Places
  <2>3. CASE p[1] <= block
    BY <1>3, <2>3 DEF LookupInv, Passed
  <2>4. CASE ~ (p[1] <= block)
    <3>1. p[1] = block + 1
      BY <1>3, <2>1, <2>2, <2>4
    <3>2. p = <<block + 1, p[2]>>
      BY <2>2, <3>1
    <3>3. p[2] \notin Stops
      BY <1>2
    <3>4. QED
      BY <1>1, <1>2, <2>2, <3>2, <3>3, StopsAre
  <2>5. QED
    BY <2>3, <2>4
<1>5. block + 1 <= Len(d.dir) /\ block + 1 \in Nat
  BY <1>2, <1>3
<1>6. d = disk'[fsys'[root'].fs.dev]
  BY <1>2, <1>3
<1> HIDE DEF d
<1>7. LookupInv'
  BY <1>2, <1>3, <1>4, <1>5, <1>6 DEF LookupInv
<1>8. TableInv'
  BY <1>2, <1>3, TableFixed
<1>9. ResultInv'
  BY <1>1, <1>2 DEF FsInv, OpenInv, ResultInv
<1>10. OpenInv'
  BY <1>1, <1>2, <1>5, <1>7, <1>9 DEF FsInv, OpenInv
<1>11. QED
  BY <1>8, <1>10 DEF FsInv

LEMMA ReturnKeeps ==
  ASSUME FsInv, NEW f, Return(f),
         LET result == MeaningIn(disk, fsys, path.mnt, path.name)
         IN  f = result \/ (f = NoMemory /\ result \notin {NoMount, NoEntry})
  PROVE  FsInv'
<1>1. /\ pc' = "idle" /\ file' = f /\ disk' = disk /\ UNCHANGED tableVars /\ path' = path
      /\ root' = root /\ block' = block /\ fsys' = fsys
  BY DEF Return, tableVars
<1>2. TableInv'
  BY <1>1, TableFixed DEF FsInv
<1>3. ResultInv'
  BY <1>1 DEF ResultInv
<1>4. OpenInv'
  BY <1>1, <1>3 DEF FsInv, OpenInv
<1>5. QED
  BY <1>2, <1>4 DEF FsInv

LEMMA StopKeeps == FsInv /\ lookup_stop => FsInv'
<1>1. SUFFICES ASSUME FsInv, lookup_stop
               PROVE  FsInv'
  OBVIOUS
<1> DEFINE d == disk[fs.dev]
           i == Least(Stops)
           q == <<block + 1, i>>
           n == path.name
           result == MeaningIn(disk, fsys, path.mnt, n)
<1>2. /\ pc = "lookup" /\ block < fs.root_dir_sectors /\ Stops # {}
      /\ \/ dir_entries[i].kind = "end" /\ Return(NoEntry)
         \/ /\ dir_entries[i].kind # "end"
            /\ \/ Return(vnode(fs.dev, fs.root_dir_start + block, i, dir_entries[i].kind))
               \/ Return(NoMemory)
  BY <1>1 DEF lookup_stop
<1>3. /\ LookupInv /\ TableInv /\ DiskAsDescribed(d) /\ fs = fsys[root].fs
      /\ fs.root_dir_sectors = Len(d.dir) /\ Len(d.dir) \in Nat /\ block \in Nat
      /\ fs.root_dir_start = RootStart(d) /\ RootStart(d) \in Nat
  BY <1>1, <1>2, LookupState
<1>4. /\ n # <<>> /\ Proper(n) /\ At(fsys, path.mnt) # {} /\ root = Most(At(fsys, path.mnt))
      /\ Passed(d, n, block)
  BY <1>3 DEF LookupInv
<1>5. Stops \in SUBSET (0..(PER_BLOCK - 1)) /\ Stops \in SUBSET Nat
  BY Sizes DEF Stops
<1>6. i \in Stops /\ i \in 0..(PER_BLOCK - 1) /\ \A j \in Stops : i <= j
  BY <1>2, <1>5, LeastType
<1> HIDE DEF i
<1>7. /\ Halt(d, n, q) /\ dir_entries[i] = EntryAt(d, q)
      /\ \A j \in 0..(PER_BLOCK - 1) : Halt(d, n, <<block + 1, j>>) => i <= j
  BY <1>1, <1>2, <1>6, StopsAre
<1> HIDE DEF d, n
<1>8. /\ EntryAt(d, q).kind = "end" => Named(d, n) = {}
      /\ EntryAt(d, q).kind # "end" =>
           q \in Named(d, n) /\ \A r \in Named(d, n) : Before(q, r)
  <2>1. block < Len(d.dir)
    BY <1>2, <1>3
  <2>2. QED
    BY <1>3, <1>4, <1>6, <1>7, <2>1, FirstHalt
<1>9. d = disk[fsys[root].fs.dev]
  BY <1>3 DEF d
<1>10. CASE dir_entries[i].kind = "end"
  <2>1. Named(d, n) = {}
    BY <1>7, <1>8, <1>10
  <2>2. result = NoEntry
    BY <1>4, <1>9, <2>1 DEF MeaningIn
  <2>3. Return(NoEntry)
    BY <1>2, <1>10
  <2> HIDE DEF result
  <2>4. QED
    BY <1>1, <2>2, <2>3, ReturnKeeps DEF result, n
<1>11. CASE dir_entries[i].kind # "end"
  <2>1. q \in Named(d, n) /\ \A r \in Named(d, n) : Before(q, r)
    BY <1>7, <1>8, <1>11
  <2> DEFINE v == VnodeAt(fsys[root].fs.dev, d, q)
             m == path.mnt
  <2>2. result = v /\ v \notin {NoMount, NoEntry}
    <3> HIDE DEF q, m
    <3>1. At(fsys, m) # {} /\ root = Most(At(fsys, m))
      BY <1>4 DEF m
    <3>2. TableInv
      BY <1>3
    <3>3. FirstNamed(d, n, q)
      BY <2>1 DEF FirstNamed
    <3> DEFINE dev == fsys[root].fs.dev
    <3>4. d = disk[dev]
      BY <1>9
    <3> HIDE DEF v, dev
    <3>5. /\ MeaningIn(disk, fsys, m, n) = VnodeAt(dev, d, q)
          /\ VnodeAt(dev, d, q) \notin {NoMount, NoEntry}
      BY <3>1, <3>2, <3>3, <3>4, FoundIsMeant DEF dev
    <3>6. QED
      BY <3>5 DEF m, v, dev
  <2>3. v = vnode(fs.dev, fs.root_dir_start + block, i, dir_entries[i].kind)
    <3>1. RootStart(d) + (block + 1) - 1 = RootStart(d) + block
      BY <1>3
    <3>2. q[1] = block + 1 /\ q[2] = i
      OBVIOUS
    <3>3. QED
      BY <1>3, <1>7, <3>1, <3>2 DEF VnodeAt
  <2> HIDE DEF v, result
  <2>4. Return(v) \/ Return(NoMemory)
    BY <1>2, <1>11, <2>3
  <2>5. CASE Return(v)
    BY <1>1, <2>2, <2>5, ReturnKeeps DEF result, n
  <2>6. CASE Return(NoMemory)
    BY <1>1, <2>2, <2>6, ReturnKeeps DEF result, n
  <2>7. QED
    BY <2>4, <2>5, <2>6
<1>12. QED
  BY <1>10, <1>11

LEMMA ExhaustedKeeps == FsInv /\ lookup_exhausted => FsInv'
<1>1. SUFFICES ASSUME FsInv, lookup_exhausted
               PROVE  FsInv'
  OBVIOUS
<1> DEFINE d == disk[fs.dev]
<1>2. pc = "lookup" /\ block = fs.root_dir_sectors /\ Return(NoEntry)
  BY <1>1 DEF lookup_exhausted
<1>3. /\ LookupInv /\ DiskAsDescribed(d) /\ fs = fsys[root].fs
      /\ fs.root_dir_sectors = Len(d.dir)
  BY <1>1, <1>2, LookupState
<1>4. Named(d, path.name) = {}
  BY <1>2, <1>3, NothingFound DEF LookupInv
<1>5. MeaningIn(disk, fsys, path.mnt, path.name) = NoEntry
  BY <1>3, <1>4 DEF LookupInv, MeaningIn
<1>6. QED
  BY <1>1, <1>2, <1>5, ReturnKeeps

-----------------------------------------------------------------------------
(* The mount table lists the file systems in their order, and the search   *)
(* of the directory has passed no entry at which it should have ended.     *)
THEOREM FsInvariant == FsSpec => []FsInv
<1>1. FsInv /\ [FsNext]_fsVars => FsInv'
  <2>1. SUFFICES ASSUME FsInv, [FsNext]_fsVars
                 PROVE  FsInv'
    OBVIOUS
  <2>2. CASE UNCHANGED fsVars
    <3>1. /\ disk' = disk /\ UNCHANGED tableVars /\ fsys' = fsys /\ pc' = pc /\ path' = path
          /\ root' = root /\ block' = block /\ file' = file
      BY <2>2 DEF fsVars, openVars, tableVars
    <3>2. TableInv'
      BY <2>1, <3>1, TableFixed DEF FsInv
    <3>3. OpenInv'
      BY <2>1, <3>1 DEF FsInv, OpenInv, LookupInv, ResultInv
    <3>4. QED
      BY <3>2, <3>3 DEF FsInv
  <2>3. QED
    BY <2>1, <2>2, RegisterKeeps, MountKeeps, OpenKeeps, NextBlockKeeps, StopKeeps,
       ExhaustedKeeps
       DEF FsNext
<1>2. QED
  BY FsInitInv, <1>1, PTL DEF FsSpec

(* No call writes the mount table outside its block of memory. *)
THEOREM FileSystemTypeCorrect == FsSpec => []FileSystemTypeOK
<1>1. FsInv => FileSystemTypeOK
  <2>1. SUFFICES ASSUME FsInv
                 PROVE  FileSystemTypeOK
    OBVIOUS
  <2>2. TableInv /\ OpenInv /\ Len(fsys) \in Nat
    BY <2>1 DEF FsInv, TableInv
  <2>3. mountpoints \in [0..(INIT_MPOINTS - 1) -> 0..Len(fsys)]
    BY <2>2 DEF TableInv
  <2>4. QED
    BY <2>2, <2>3 DEF TableInv, OpenInv, FileSystemTypeOK
<1>2. QED
  BY <1>1, FsInvariant, PTL

(* A mounted file system knows where the parts of its disk are. *)
THEOREM LayoutKnown == FsSpec => []KnowsLayout
<1>1. FsInv => KnowsLayout
  <2>1. SUFFICES ASSUME FsInv, NEW k \in 1..Len(fsys)
                 PROVE  LET h == fsys[k].fs
                            d == disk[h.dev]
                        IN  /\ h.root_dir_start = RootStart(d)
                            /\ h.root_dir_sectors = Len(d.dir)
                            /\ h.data_area_start = DataStart(d)
    BY DEF KnowsLayout
  <2>2. TableInv
    BY <2>1 DEF FsInv
  <2>3. PICK e \in Device : fsys[k].fs = fat12_mount(e)
    BY <2>2, VfsFields
  <2>4. QED
    BY <2>2, <2>3, MountLayout DEF TableInv
<1>2. QED
  BY <1>1, FsInvariant, PTL

(* vfs_open returns the file its path means: the first entry of the name   *)
(* in the file system mounted last at its mount point, however many file   *)
(* systems, blocks and entries there are.                                  *)
THEOREM OpenCorrect == FsSpec => []OpensNamedFile
<1>1. FsInv => OpensNamedFile
  BY MeaningIs DEF FsInv, OpenInv, ResultInv, OpensNamedFile
<1>2. QED
  BY <1>1, FsInvariant, PTL
=============================================================================
