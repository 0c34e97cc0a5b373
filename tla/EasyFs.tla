------------------------------- MODULE EasyFs -------------------------------
(***************************************************************************)
(* easyfs (easyfs/*.c): its allocation bitmaps, inodes, block maps and     *)
(* directories, on a disk that mkfs made, with crashes between any two     *)
(* writes to the disk.                                                     *)
(*                                                                         *)
(* The operators are functions of a state s: s.disk is the disk, s.ip the  *)
(* in-memory copy of each inode, s.log the disk after each bwrite of the   *)
(* call, s.panic whether a panic of the code was reached.  A block has     *)
(* BSIZE cells, each <<number, text>>: a pointer is <<b, "">>, a directory *)
(* entry <<ino, name>>; the data of files, which no property here reads,   *)
(* is left out (zero cells).  Sizes are in cells.  Block b here is block   *)
(* DATA_BLOCK + b - 1 of the device, and 0 is none.                        *)
(*                                                                         *)
(* A call is one step: the calls made while the blocks they read are in    *)
(* the buffer cache, where nothing gives up the CPU.  The inode cache has  *)
(* a slot with its page for every inode.                                   *)
(***************************************************************************)
EXTENDS Integers, Sequences, FiniteSets, SequencesExt, TLC

CONSTANTS
  NBLOCKS,   \* data blocks: TOTAL_BLOCKS - DATA_BLOCK
  NINO,      \* inode numbers the inode bitmap has a bit for
  NDIRECT,   \* 10 in the code
  BSIZE,     \* cells of a block: BSIZE / sizeof, NINDIRECT for pointers
  Names,     \* names of files and directories
  Inject,    \* the files mkfs puts in the image: names and blocks
  Files,     \* descriptors
  Offsets,   \* the blocks of a file that are read and written
  NAREA,     \* inodes the inode area has room for
  Paths,     \* the paths used: a name, or a directory and a name
  MaxCrash   \* bound: crashes

ASSUME EasyFsAssumption ==
  /\ NBLOCKS \in Nat /\ NINO \in Nat \ {0} /\ NDIRECT \in Nat \ {0}
  /\ BSIZE \in Nat \ {0}
  /\ \A i \in DOMAIN Inject : Inject[i].blocks <= NDIRECT  \* mkfs asserts it

VARIABLES
  fs,        \* s between calls
  fd,        \* the inode of each descriptor, 0 when closed
  dead,      \* history: descriptors whose file was unlinked since they were opened
  leaked,    \* history: a read allocated a block
  crashes,   \* history: how often the machine crashed
  spoiled    \* history: a crash cut an O_TRUNC, or a dead descriptor wrote

vars == <<fs, fd, dead, leaked, crashes, spoiled>>

Blks == 1 .. NBLOCKS
Inos == 1 .. NINO
SUPER_INUM == 1
SINDIRECT_INDEX == NDIRECT
DINDIRECT_INDEX == NDIRECT + 1

Zero == <<0, "">>
ZeroBlock == [c \in 0 .. BSIZE - 1 |-> Zero]
NoInode == [type |-> "none", nlinks |-> 0, size |-> 0,
            blocks |-> [j \in 0 .. DINDIRECT_INDEX |-> 0]]

bwrite(s, disk) == [s EXCEPT !.disk = disk, !.log = Append(@, disk)]
-----------------------------------------------------------------------------
(* alloc.c.  A result with a block number: addr is 0 when the disk is full. *)
Addr(s, addr) == [s |-> s, addr |-> addr]

Zeroed(s, b) == bwrite(s, [s.disk EXCEPT !.data[b] = ZeroBlock])

balloc(s) ==
  LET free == Blks \ s.disk.dbmap
  IN  IF free = {} THEN Addr(s, 0)
      ELSE Addr(Zeroed(bwrite(s, [s.disk EXCEPT !.dbmap = @ \cup {Min(free)}]), Min(free)),
                Min(free))

bfree(s, b) ==
  IF b \notin s.disk.dbmap THEN [s EXCEPT !.panic = TRUE]
  ELSE Zeroed(bwrite(s, [s.disk EXCEPT !.dbmap = @ \ {b}]), b)

(* Entry j of the inode's own blocks[], allocated in the in-memory copy only. *)
SetOwn(new, ino, j) ==
  IF new.addr = 0 THEN new
  ELSE Addr([new.s EXCEPT !.ip[ino].blocks[j] = new.addr], new.addr)

OwnBlock(s, ino, j) ==
  IF s.ip[ino].blocks[j] # 0 THEN Addr(s, s.ip[ino].blocks[j])
  ELSE SetOwn(balloc(s), ino, j)

(* Pointer c of pointer block `at`, allocated and written back. *)
SetPointer(new, b, c) ==
  IF new.addr = 0 THEN new
  ELSE Addr(bwrite(new.s, [new.s.disk EXCEPT !.data[b][c] = <<new.addr, "">>]), new.addr)

PointedBlock(at, c) ==
  IF at.addr = 0 THEN at
  ELSE IF at.s.disk.data[at.addr][c][1] # 0 THEN Addr(at.s, at.s.disk.data[at.addr][c][1])
  ELSE SetPointer(balloc(at.s), at.addr, c)

bmap(s, ino, k) ==
  LET idx == k - NDIRECT - BSIZE
  IN  IF k < NDIRECT THEN OwnBlock(s, ino, k)
      ELSE IF k < NDIRECT + BSIZE
      THEN PointedBlock(OwnBlock(s, ino, SINDIRECT_INDEX), k - NDIRECT)
      ELSE PointedBlock(PointedBlock(OwnBlock(s, ino, DINDIRECT_INDEX), idx \div BSIZE),
                        idx % BSIZE)

(* The pointers of pointer block b, and all blocks under an inode, in itrunc's order. *)
Pointers(disk, b) ==
  LET all == [c \in 1 .. BSIZE |-> disk.data[b][c - 1][1]]
  IN  IF b = 0 THEN <<>> ELSE SelectSeq(all, LAMBDA p : p # 0)

WithPointers(disk, b) == IF b = 0 THEN <<>> ELSE Append(Pointers(disk, b), b)

BlocksOf(disk, blocks) ==
  LET direct == SelectSeq([j \in 1 .. NDIRECT |-> blocks[j - 1]], LAMBDA b : b # 0)
      top == blocks[DINDIRECT_INDEX]
      under[i \in 0 .. Len(Pointers(disk, top))] ==
        IF i = 0 THEN <<>>
        ELSE under[i - 1] \o WithPointers(disk, Pointers(disk, top)[i])
  IN  direct \o WithPointers(disk, blocks[SINDIRECT_INDEX])
        \o under[Len(Pointers(disk, top))] \o (IF top = 0 THEN <<>> ELSE <<top>>)
-----------------------------------------------------------------------------
(* inode.c, fs.c.  Done: whether the function succeeded. *)
Done(s, ok) == [s |-> s, ok |-> ok]

ialloc(s) ==
  LET free == Inos \ s.disk.ibmap
  IN  IF free = {} THEN [s |-> s, ino |-> 0]
      ELSE [s |-> bwrite(s, [s.disk EXCEPT !.ibmap = @ \cup {Min(free)}]), ino |-> Min(free)]

ClearInode(s, ino) == bwrite(s, [s.disk EXCEPT !.inode[ino] = NoInode])

ifree(s, ino) == ClearInode(bwrite(s, [s.disk EXCEPT !.ibmap = @ \ {ino}]), ino)

iupdate(s, ino) == bwrite(s, [s.disk EXCEPT !.inode[ino] = s.ip[ino]])

(* easyfs_ilock, and easyfs_fill_vfs_inode of what was read: the copy is refreshed. *)
easyfs_ilock(s, ino) == [s EXCEPT !.ip[ino] = s.disk.inode[ino]]

easyfs_fill_vfs_inode(s, ino) == easyfs_ilock(s, ino)

(* n cells of value v at offset off; the size grows to off even without a block. *)
Stored(a, c, n, v) ==
  IF a.addr = 0 THEN a.s
  ELSE bwrite(a.s, [a.s.disk EXCEPT !.data[a.addr] =
         [i \in DOMAIN @ |-> IF i \in c .. c + n - 1 THEN v ELSE @[i]]])

Grown(s, ino, end) ==
  IF end > s.ip[ino].size THEN [s EXCEPT !.ip[ino].size = end] ELSE s

WriteAt(a, ino, off, n, v) ==
  LET end == IF a.addr = 0 THEN off ELSE off + n
  IN  Done(iupdate(Grown(Stored(a, off % BSIZE, n, v), ino, end), ino), a.addr # 0)

easyfs_write_inode(s, ino, off, n, v) ==
  WriteAt(bmap(s, ino, off \div BSIZE), ino, off, n, v)

(* A read of block k of a file: below the size, bmap allocates what is missing. *)
easyfs_read_inode(s, ino, k) ==
  IF k * BSIZE >= s.ip[ino].size THEN s ELSE bmap(s, ino, k).s


easyfs_itrunc(s, ino) ==
  LET freed == FoldLeft(bfree, s, BlocksOf(s.disk, s.ip[ino].blocks))
  IN  iupdate([freed EXCEPT !.ip[ino].size = 0, !.ip[ino].blocks = NoInode.blocks], ino)
-----------------------------------------------------------------------------
(* Directories (dir.c, dirlink).  What is below the size of one is mapped, so  *)
(* reading it allocates nothing: NamesLive says so.                            *)
AddrOf(disk, blocks, k) ==
  LET at(b, c) == IF b = 0 THEN 0 ELSE disk.data[b][c][1]
      idx == k - NDIRECT - BSIZE
  IN  IF k < NDIRECT THEN blocks[k]
      ELSE IF k < NDIRECT + BSIZE THEN at(blocks[SINDIRECT_INDEX], k - NDIRECT)
      ELSE at(at(blocks[DINDIRECT_INDEX], idx \div BSIZE), idx % BSIZE)

Entry(disk, dip, off) ==
  LET b == AddrOf(disk, dip.blocks, off \div BSIZE)
  IN  IF b = 0 THEN Zero ELSE disk.data[b][off % BSIZE]

Entries(disk, dip) == [off \in 0 .. dip.size - 1 |-> Entry(disk, dip, off)]

(* easyfs_vfs_lookup: the entry's inode, its copy refreshed, and its offset. *)
EntryAt(s, es, at) ==
  IF at = {} THEN [s |-> s, ino |-> 0, off |-> 0]
  ELSE [s |-> easyfs_fill_vfs_inode(s, es[Min(at)][1]), ino |-> es[Min(at)][1],
        off |-> Min(at)]

Named(es, name) == {off \in DOMAIN es : es[off][1] # 0 /\ es[off][2] = name}

easyfs_vfs_lookup(s, dir, name) ==
  LET es == Entries(s.disk, s.ip[dir])
  IN  EntryAt(s, es, IF s.ip[dir].type = "dir" THEN Named(es, name) ELSE {})

FreeOffset(es, size) ==
  LET empty == {off \in DOMAIN es : es[off][1] = 0}
  IN  IF empty = {} THEN size ELSE Min(empty)

dirlink(s, dir, name, ino) ==
  IF easyfs_vfs_lookup(s, dir, name).ino # 0
  THEN Done(easyfs_vfs_lookup(s, dir, name).s, FALSE)
  ELSE easyfs_write_inode(s, dir, FreeOffset(Entries(s.disk, s.ip[dir]), s.ip[dir].size),
                          1, <<ino, name>>)

(* A new inode of a type and one link, written to the disk. *)
NewInode(s, ino, type) ==
  iupdate([easyfs_ilock(s, ino) EXCEPT !.ip[ino].type = type, !.ip[ino].nlinks = 1], ino)

(* dirlink failed: the inode stays allocated, without links. *)
GiveUp(s, ino) == Done(iupdate([s EXCEPT !.ip[ino].nlinks = 0], ino), FALSE)

(* The next of several dirlinks, when those before it succeeded. *)
AndLink(r, dir, name, ino) == IF ~r.ok THEN r ELSE dirlink(r.s, dir, name, ino)

DirLinked(link, dir, ino) ==
  IF ~link.ok THEN GiveUp(link.s, ino)
  ELSE Done(iupdate([link.s EXCEPT !.ip[dir].nlinks = @ + 1], dir), TRUE)

MakeDir(new, dir, name) ==
  LET self == dirlink(NewInode(new.s, new.ino, "dir"), new.ino, ".", new.ino)
      both == AndLink(self, new.ino, "..", dir)
  IN  IF new.ino = 0 THEN Done(new.s, FALSE)
      ELSE DirLinked(AndLink(both, dir, name, new.ino), dir, new.ino)

MkdirNew(old, dir, name) ==
  IF old.ino # 0 THEN Done(old.s, FALSE) ELSE MakeDir(ialloc(old.s), dir, name)

easyfs_vfs_mkdir(s, dir, name) ==
  MkdirNew(easyfs_vfs_lookup(easyfs_ilock(s, dir), dir, name), dir, name)

(* easyfs_vfs_create, its inode allocated. *)
FileLinked(link, ino) ==
  IF ~link.ok THEN GiveUp(easyfs_ilock(link.s, ino), ino) ELSE link

(* Mutant: the name is linked before the inode behind it is written. *)
LinkFirst(link, ino) ==
  IF ~link.ok THEN GiveUp(link.s, ino) ELSE Done(NewInode(link.s, ino, "file"), TRUE)

MakeFileLinksFirst(new, dir, name) ==
  IF new.ino = 0 THEN Done(new.s, FALSE)
  ELSE LinkFirst(dirlink(new.s, dir, name, new.ino), new.ino)

MakeFile(new, dir, name) ==
  IF new.ino = 0 THEN Done(new.s, FALSE)
  ELSE FileLinked(dirlink(NewInode(new.s, new.ino, "file"), dir, name, new.ino), new.ino)

CreateNew(old, dir, name) ==
  IF old.ino # 0 THEN Done(old.s, FALSE) ELSE MakeFile(ialloc(old.s), dir, name)

easyfs_vfs_create(s, dir, name) ==
  CreateNew(easyfs_vfs_lookup(easyfs_ilock(s, dir), dir, name), dir, name)

(* easyfs_vfs_unlink: the entry is cleared, then the link is taken away. *)
Dropped(s, ino) ==
  IF s.ip[ino].nlinks = 0 THEN ifree(easyfs_itrunc(s, ino), ino) ELSE s

Unnamed(cut, ino) ==
  IF ~cut.ok THEN Done([cut.s EXCEPT !.panic = TRUE], FALSE)
  ELSE Done(iupdate(Dropped([cut.s EXCEPT !.ip[ino].nlinks = @ - 1], ino), ino), TRUE)

(* Mutant: the blocks and the inode are freed before the name is cleared. *)
UnlinkFreesFirst(old, dir) ==
  IF old.ino = 0 \/ old.s.ip[old.ino].type = "dir" THEN Done(old.s, FALSE)
  ELSE Done(easyfs_write_inode(
              ifree(easyfs_itrunc([old.s EXCEPT !.ip[old.ino].nlinks = @ - 1], old.ino), old.ino),
              dir, old.off, 1, Zero).s, TRUE)

UnlinkEntry(old, dir) ==
  IF old.ino = 0 \/ old.s.ip[old.ino].type = "dir" THEN Done(old.s, FALSE)
  ELSE Unnamed(easyfs_write_inode(easyfs_ilock(old.s, old.ino), dir, old.off, 1, Zero), old.ino)

easyfs_vfs_unlink(s, dir, name) ==
  UnlinkEntry(easyfs_vfs_lookup(easyfs_ilock(s, dir), dir, name), dir)
-----------------------------------------------------------------------------
(***************************************************************************)
(* The image mkfs makes: the root with ".", ".." and the injected files,   *)
(* whose blocks follow that of the root, in direct blocks.                 *)
(***************************************************************************)
FirstBlock(i) ==
  2 + FoldLeft(LAMBDA n, f : n + f.blocks, 0, SubSeq(Inject, 1, i - 1))

mkfs ==
  LET n == Len(Inject)
      end == FirstBlock(n + 1)
      root == [NoInode EXCEPT !.type = "dir", !.nlinks = 2, !.size = n + 2, !.blocks[0] = 1]
      ofFile(i) == [NoInode EXCEPT !.type = "file", !.nlinks = 1,
                                   !.size = Inject[i].blocks * BSIZE,
                      !.blocks = [j \in DOMAIN @ |-> IF j < Inject[i].blocks
                                                     THEN FirstBlock(i) + j ELSE 0]]
      entries == <<<<1, ".">>, <<1, "..">>>> \o [i \in 1 .. n |-> <<i + 1, Inject[i].name>>]
  IN  [ibmap |-> 1 .. n + 1,
       dbmap |-> 1 .. end - 1,
       inode |-> [ino \in Inos |-> IF ino = 1 THEN root
                                   ELSE IF ino <= n + 1 THEN ofFile(ino - 1) ELSE NoInode],
       data  |-> [b \in Blks |-> [c \in 0 .. BSIZE - 1 |->
                   IF b = 1 /\ c < n + 2 THEN entries[c + 1] ELSE Zero]]]

(* The state after easyfs_mount_root of a disk. *)
easyfs_mount_root(disk) == [disk |-> disk, ip |-> disk.inode, log |-> <<>>, panic |-> FALSE]

(* An in-memory copy nothing refers to is loaded again before it is used. *)
Settled(s, open) ==
  [s EXCEPT !.log = <<>>,
            !.ip = [i \in Inos |-> IF i \in open \cup {SUPER_INUM} THEN @[i]
                                   ELSE s.disk.inode[i]]]

(* The directory a path ends in, 0 when there is none; the root is not locked. *)
ParentOf(s, path) ==
  IF Len(path) = 1 THEN [s |-> s, ino |-> SUPER_INUM, off |-> 0]
  ELSE easyfs_vfs_lookup(s, SUPER_INUM, path[1])

LookIn(dir, name) == IF dir.ino = 0 THEN dir ELSE easyfs_vfs_lookup(dir.s, dir.ino, name)

vfs_lookup(s, path) == LookIn(ParentOf(s, path), Last(path))

(* A call that comes to its end, or that a crash cuts after one of its writes. *)
Return(s, open) == fs' = Settled(s, open)

Crash(s) ==
  /\ crashes < MaxCrash
  /\ crashes' = crashes + 1
  /\ \E i \in DOMAIN s.log : fs' = easyfs_mount_root(s.log[i])
  /\ fd' = [f \in Files |-> 0]
  /\ dead' = {}
  /\ UNCHANGED leaked

Open == {fd[f] : f \in Files} \ {0}

(* openat: the file looked up, or created and looked up, then truncated. *)
LookCreated(look, made, dir, name) ==
  IF ~made.ok THEN [look EXCEPT !.s = made.s] ELSE easyfs_vfs_lookup(made.s, dir, name)

CreateIn(look, dir, name) ==
  IF dir.ino = 0 \/ dir.s.ip[dir.ino].type # "dir" THEN look
  ELSE LookCreated(look, easyfs_vfs_create(dir.s, dir.ino, name), dir.ino, name)

OrCreate(look, path) ==
  IF look.ino # 0 THEN look ELSE CreateIn(look, ParentOf(look.s, path), Last(path))

Truncated(node) ==
  IF node.ino # 0 /\ node.s.ip[node.ino].type = "file"
  THEN [node EXCEPT !.s = easyfs_itrunc(node.s, node.ino)] ELSE node

Opened(path, creat, trunc) ==
  LET look == vfs_lookup(fs, path)
      node == IF creat THEN OrCreate(look, path) ELSE look
  IN  IF trunc THEN Truncated(node) ELSE node

Openat(path, creat, trunc) ==
  /\ ~spoiled
  /\ \E r \in {Opened(path, creat, trunc)} :
       LET isFile == r.ino # 0 /\ r.s.ip[r.ino].type # "dir"
           free == IF isFile THEN {f \in Files : fd[f] = 0} ELSE {}
       IN  \/ /\ free = {}
              /\ Return(r.s, Open)
              /\ UNCHANGED <<fd, dead, leaked, crashes, spoiled>>
           \/ \E f \in free :
              /\ fd' = [fd EXCEPT ![f] = r.ino]
              /\ Return(r.s, Open \cup {r.ino})
              /\ UNCHANGED <<dead, leaked, crashes, spoiled>>
           \/ Crash(r.s) /\ spoiled' = trunc

MkdirIn(dir, old, name) ==
  IF dir.s.ip[dir.ino].type # "dir" \/ old.ino # 0 THEN old.s
  ELSE easyfs_vfs_mkdir(old.s, dir.ino, name).s

Mkdirat(path) ==
  /\ ~spoiled
  /\ \E dir \in {ParentOf(fs, path)} :
       \E s \in {IF dir.ino = 0 THEN dir.s
                 ELSE MkdirIn(dir, LookIn(dir, Last(path)), Last(path))} :
         \/ Return(s, Open) /\ UNCHANGED <<fd, dead, leaked, crashes, spoiled>>
         \/ Crash(s) /\ UNCHANGED spoiled

Unlinkat(path) ==
  /\ ~spoiled
  /\ \E dir \in {ParentOf(fs, path)} : \E old \in {LookIn(dir, Last(path))} :
       /\ old.ino # 0 /\ old.s.ip[old.ino].type # "dir"
       /\ \E r \in {easyfs_vfs_unlink(old.s, dir.ino, Last(path))} :
            \/ /\ Return(r.s, Open)
               /\ dead' = dead \cup {f \in Files : fd[f] = old.ino}
               /\ UNCHANGED <<fd, leaked, crashes, spoiled>>
            \/ Crash(r.s) /\ UNCHANGED spoiled

Write(f, k) ==
  LET r == easyfs_write_inode(fs, fd[f], k * BSIZE, BSIZE, Zero)
  IN  /\ ~spoiled
      /\ fd[f] # 0
      /\ \/ Return(r.s, Open) /\ spoiled' = (f \in dead) /\ UNCHANGED <<fd, dead, leaked, crashes>>
         \/ Crash(r.s) /\ spoiled' = (f \in dead)

Read(f, k) ==
  LET s == easyfs_read_inode(fs, fd[f], k)
  IN  /\ ~spoiled
      /\ fd[f] # 0
      /\ \/ Return(s, Open) /\ leaked' = (leaked \/ s # fs) /\ UNCHANGED <<fd, dead, crashes, spoiled>>
         \/ Crash(s) /\ UNCHANGED spoiled

(* easyfs_vfs_readdir of the root: the copy of the inode it reports is refreshed. *)
Readdir(off) ==
  LET e == Entry(fs.disk, fs.ip[SUPER_INUM], off)
  IN  /\ ~spoiled
      /\ off < fs.ip[SUPER_INUM].size /\ e[1] # 0
      /\ Return(easyfs_fill_vfs_inode(fs, e[1]), Open)
      /\ UNCHANGED <<fd, dead, leaked, crashes, spoiled>>

Close(f) ==
  /\ ~spoiled
  /\ fd[f] # 0
  /\ fd' = [fd EXCEPT ![f] = 0]
  /\ dead' = dead \ {f}
  /\ Return(fs, {fd[g] : g \in Files \ {f}})
  /\ UNCHANGED <<leaked, crashes, spoiled>>

Init ==
  /\ fs = easyfs_mount_root(mkfs)
  /\ fd = [f \in Files |-> 0]
  /\ dead = {}
  /\ leaked = FALSE
  /\ crashes = 0
  /\ spoiled = FALSE

Next ==
  \/ \E path \in Paths : Mkdirat(path) \/ Unlinkat(path)
  \/ \E path \in Paths, creat, trunc \in BOOLEAN : Openat(path, creat, trunc)
  \/ \E f \in Files : Close(f) \/ \E k \in Offsets : Read(f, k) \/ Write(f, k)
  \/ \E off \in 0 .. Cardinality(Names) + 1 : Readdir(off)

Spec == Init /\ [][Next]_vars
-----------------------------------------------------------------------------
(* The directories and files that names lead to from the root. *)
Live(disk) ==
  LET named(i) == {e[1] : e \in {Entries(disk, disk.inode[i])[o] :
                                   o \in 0 .. disk.inode[i].size - 1}} \ {0}
      top == named(SUPER_INUM)
  IN  top \cup UNION {named(i) : i \in {j \in top : disk.inode[j].type = "dir"}}

Refs(disk, ino) == BlocksOf(disk, disk.inode[ino].blocks)

(***************************************************************************)
(* On the disk, at every moment a crash can leave it in, a block belongs   *)
(* to one file or directory at most, in one place, and its bit is set, so  *)
(* balloc never gives it out again (balloc, bfree, bmap, itrunc), and the  *)
(* panics "bfree: block already free" and "unlink: writei failed" are not  *)
(* reached.  A crash inside O_TRUNC, which frees blocks before iupdate,    *)
(* and a write through a descriptor whose file was unlinked, are the       *)
(* exceptions.                                                             *)
(***************************************************************************)
NoSharedBlock ==
  spoiled \/
    /\ ~fs.panic
    /\ \A i \in Live(fs.disk) : /\ IsInjective(Refs(fs.disk, i))
                                /\ ToSet(Refs(fs.disk, i)) \subseteq fs.disk.dbmap
    /\ \A i, j \in Live(fs.disk) :
         i # j => ToSet(Refs(fs.disk, i)) \cap ToSet(Refs(fs.disk, j)) = {}

(***************************************************************************)
(* On the disk, at every moment a crash can leave it in, a name leads to   *)
(* an allocated inode of a type and with links, a directory has no hole,   *)
(* and no two of its entries have one name: create, mkdir and unlink write *)
(* in that order.                                                          *)
(***************************************************************************)
NamesLive ==
  spoiled \/
    \A i \in Live(fs.disk) :
      /\ i \in fs.disk.ibmap
      /\ fs.disk.inode[i].type \in {"dir", "file"} /\ fs.disk.inode[i].nlinks > 0
      /\ fs.disk.inode[i].type = "dir" =>
           LET dip == fs.disk.inode[i]
               es == Entries(fs.disk, dip)
           IN  /\ \A o \in DOMAIN es : AddrOf(fs.disk, dip.blocks, o \div BSIZE) # 0
               /\ \A o, p \in {q \in DOMAIN es : es[q][1] # 0} : es[o][2] = es[p][2] => o = p


(***************************************************************************)
(* An allocated inode lies in the inode area, the blocks from INODE_BLOCK  *)
(* to DATA_BLOCK - 1 that mkfs lays out, as its comment counts them.       *)
(***************************************************************************)
InodesInArea == \A ino \in fs.disk.ibmap : ino < NAREA
=============================================================================
