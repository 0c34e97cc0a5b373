------------------------------- MODULE Tmpfs -------------------------------
(***************************************************************************)
(* tmpfs (tmpfs/inode.c, tmpfs/mount.c), as functions of the kernel state. *)
(*                                                                         *)
(* s.inode maps the number of every allocated tmpfs_inode to its contents: *)
(* a number outside its domain is memory that was freed.  blocks is the    *)
(* page of each block, NoBlock for one that was never written; which of    *)
(* the three levels of tmpfs_bmap holds a page makes no difference to its  *)
(* users.  child is the list of dirents, the newest first.  The size of a  *)
(* file is the end of its last block, since writes are whole blocks here.  *)
(*                                                                         *)
(* mem is how far the allocators get during a call: 0 nothing, 1 kmalloc   *)
(* only, 2 kalloc too.                                                     *)
(***************************************************************************)
EXTENDS InodeCache, Functions, TLC

CONSTANT NBLOCK   \* bound: blocks of a file

Blocks == 0 .. NBLOCK - 1
NoBlock == "none"
NoBlocks == [k \in Blocks |-> NoBlock]

EXT4_DEV == 0
TMPFS_DEV == 1
TMPFS_ROOT_INO == 1

\* tmp_root, the static inode of the root of tmpfs, is not a slot of the cache.
tmp_root == NINODES + 1

TmpfsRootSlot == [dev |-> TMPFS_DEV, ino |-> TMPFS_ROOT_INO, count |-> 1, nlinks |-> 1,
                  type |-> "dir", private_data |-> TMPFS_ROOT_INO, pd_owned |-> FALSE]

NewInode(type) == [type |-> type, nlinks |-> 1, blocks |-> NoBlocks, child |-> <<>>]

\* The kernel state after icache_init and tmpfs_init.
tmpfs_init == [slot |-> [i \in Slots \cup {tmp_root} |->
                           IF i = tmp_root THEN TmpfsRootSlot ELSE icache_init.slot[i]],
               lru  |-> icache_init.lru,
               inode |-> TMPFS_ROOT_INO :> NewInode("dir"),
               tmpfs_next_ino |-> TMPFS_ROOT_INO + 1]

kmfree(s, ino) == [s EXCEPT !.inode = Restrict(@, DOMAIN @ \ {ino})]

(* tmpfs_fill_vfs_inode: a reference to the slot of tmpfs inode ti, refreshed. *)
Filled(g, ti) ==
  IF g.ip = NoNode THEN g
  ELSE Found([g.s EXCEPT !.slot[g.ip] =
                [@ EXCEPT !.type = g.s.inode[ti].type, !.nlinks = g.s.inode[ti].nlinks,
                          !.private_data = ti, !.pd_owned = FALSE]], g.ip)

tmpfs_fill_vfs_inode(s, ino, ti) ==
  IF ti = NoData THEN Found(s, NoNode)
  ELSE Filled(get_inode(s, TMPFS_DEV, ino, FALSE, FALSE), ti)

ChildAt(s, dir, name) ==
  SelectInSeq(s.inode[s.slot[dir].private_data].child, LAMBDA de : de.name = name)

tmpfs_vfs_lookup(s, dir, name) ==
  LET k == ChildAt(s, dir, name)
      ino == s.inode[s.slot[dir].private_data].child[k].ino
  IN  IF s.slot[dir].type # "dir" \/ s.slot[dir].private_data = NoData \/ k = 0
      THEN Found(s, NoNode)
      ELSE tmpfs_fill_vfs_inode(s, ino, ino)

(* A tmpfs_inode and its dirent, the dirent first in the list of its directory. *)
Allocate(s, type) ==
  [s EXCEPT !.inode = (s.tmpfs_next_ino :> NewInode(type)) @@ @,
            !.tmpfs_next_ino = @ + 1]

Done(s, ok) == [s |-> s, ok |-> ok]

(* tmpfs_vfs_create, after its lookup of the name. *)
AddChild(old, par, name, type, mem) ==
  IF old.ip # NoNode THEN Done(put_inode(old.s, old.ip), FALSE)
  ELSE IF mem = 0 THEN Done(old.s, FALSE)
  ELSE Done([Allocate(old.s, type) EXCEPT
               !.inode[par].nlinks = IF type = "dir" THEN @ + 1 ELSE @,
               !.inode[par].child  =
                  <<[name |-> name, ino |-> old.s.tmpfs_next_ino]>> \o @], TRUE)

tmpfs_vfs_create(s, dir, name, type, mem) ==
  AddChild(tmpfs_vfs_lookup(s, dir, name), s.slot[dir].private_data, name, type, mem)

(* Slots of the cache that stand for tmpfs inode ino. *)
SlotsOf(s, ino) == {i \in Slots : s.slot[i].dev = TMPFS_DEV /\ s.slot[i].ino = ino}

(* Mutant: unlink does not ask whether the inode is open. *)
NeverOpen(s, ino) == FALSE

tmpfs_inode_open(s, ino) == \E i \in SlotsOf(s, ino) : s.slot[i].count > 0

tmpfs_sync_nlinks(s, ino) ==
  [s EXCEPT !.slot = [i \in DOMAIN @ |->
     IF i \in SlotsOf(s, ino) THEN [@[i] EXCEPT !.nlinks = s.inode[ino].nlinks] ELSE @[i]]]

DropPrivateData(s, ino) ==
  [s EXCEPT !.slot = [i \in DOMAIN @ |->
     IF i \in SlotsOf(s, ino)
     THEN [@[i] EXCEPT !.private_data = NoData, !.pd_owned = FALSE] ELSE @[i]]]

(* tmpfs_vfs_unlink: an inode some slot still refers to is freed at its last put. *)
tmpfs_vfs_unlink(s, dir, name) ==
  LET par == s.slot[dir].private_data
      k   == ChildAt(s, dir, name)
      ino == s.inode[par].child[k].ino
      cut == [s EXCEPT !.inode[ino].nlinks = @ - 1,
                       !.inode[par].child = RemoveAt(@, k)]
  IN  IF k = 0 THEN Done(s, FALSE)
      ELSE IF s.inode[ino].type = "dir" THEN Done(s, FALSE)
      ELSE IF cut.inode[ino].nlinks > 0
      THEN Done([s EXCEPT !.inode[ino].nlinks = @ - 1], TRUE)
      ELSE IF tmpfs_inode_open(s, ino) THEN Done(tmpfs_sync_nlinks(cut, ino), TRUE)
      ELSE Done(kmfree(DropPrivateData(cut, ino), ino), TRUE)

(* tmpfs_destroy_inode: the last put of an inode without links frees it. *)
tmpfs_destroy_inode(s, ip) ==
  LET sl == s.slot[ip]
      freed == IF sl.count = 1 /\ sl.nlinks = 0 /\ sl.private_data # NoData
               THEN kmfree(s, sl.private_data) ELSE s
  IN  IF ip = tmp_root THEN s ELSE put_inode(freed, ip)

tmpfs_vfs_truncate(s, ip) ==
  IF s.slot[ip].private_data = NoData THEN Done(s, FALSE)
  ELSE Done([s EXCEPT !.inode[s.slot[ip].private_data].blocks = NoBlocks], TRUE)

(* tmpfs_bmap(.., alloc = 1): the page of block k is there or can be allocated. *)
tmpfs_bmap(s, ti, k, mem) == s.inode[ti].blocks[k] # NoBlock \/ mem = 2

tmpfs_vfs_write(s, ip, k, v, mem) ==
  LET ti == s.slot[ip].private_data
  IN  IF ti = NoData THEN Done(s, FALSE)
      ELSE IF ~tmpfs_bmap(s, ti, k, mem) THEN Done(s, FALSE)
      ELSE Done([s EXCEPT !.inode[ti].blocks[k] = v], TRUE)

(* What a read of block k returns: nothing at a hole and past the end. *)
tmpfs_vfs_read(s, ip, k) ==
  LET ti == s.slot[ip].private_data
  IN  IF ti = NoData THEN NoBlock ELSE s.inode[ti].blocks[k]

(* One dirent from position off, counted in dirents; ret is that of the function. *)
tmpfs_vfs_readdir(s, ip, off) ==
  LET list == s.inode[s.slot[ip].private_data].child
  IN  IF off >= Len(list) THEN [ret |-> 0, off |-> off]
      ELSE [ret |-> 1, off |-> off + 1, name |-> list[off + 1].name]
=============================================================================
