------------------------------- MODULE Ext4 --------------------------------
(***************************************************************************)
(* The read-only ext4 reader (ext4fs/read.c, dir.c, inode.c): extents,     *)
(* directory blocks, and the inodes it puts in the cache.  Image is the    *)
(* disk: Image.inode[ino] has a size in blocks and the leaf extents of its *)
(* i_block, Image.block[b] a data block, for a directory the sequence of   *)
(* its records (at, len: where the record lies in the block, ino 0 for a   *)
(* deleted one).                                                           *)
(***************************************************************************)
EXTENDS Tmpfs

CONSTANTS
  Image,
  BSIZE     \* length of a block, in units of the records

EXT4_ROOT_INO == 2

(* The physical block of logical block k of the inode, 0 when no extent has it. *)
ext4_find_extent(ino, k) ==
  LET exts == Image.inode[ino].extents
      i == SelectInSeq(exts, LAMBDA ex : k >= ex.block /\ k < ex.block + ex.len)
  IN  IF i = 0 THEN 0 ELSE exts[i].start + (k - exts[i].block)

(* One block of a file; NoBlock at its end, "error" where no extent has it. *)
ext4_read_file(ino, k) ==
  IF k >= Image.inode[ino].size THEN NoBlock
  ELSE IF ext4_find_extent(ino, k) = 0 THEN "error"
  ELSE Image.block[ext4_find_extent(ino, k)]

(* The data blocks of each directory, extent after extent, and its records. *)
DirBlocks ==
  [ino \in {i \in DOMAIN Image.inode : Image.inode[i].type = "dir"} |->
     FlattenSeq([i \in DOMAIN Image.inode[ino].extents |->
        LET ex == Image.inode[ino].extents[i]
        IN  [j \in 1 .. ex.len |-> Image.block[ex.start + j - 1]]])]

Records == [ino \in DOMAIN DirBlocks |-> FlattenSeq(DirBlocks[ino])]

(* ext4_lookup_in_dir: the first record of that name, over all blocks. *)
ext4_lookup_in_dir(dir, name) ==
  LET recs == Records[dir]
      i == SelectInSeq(recs, LAMBDA r : r.ino # 0 /\ r.name = name)
  IN  IF i = 0 THEN [ino |-> 0] ELSE recs[i]

(***************************************************************************)
(* ext4_lookup_dir: the first live record of a block from offset off.      *)
(* Inside a record there are the zeros of its padding: no valid rec_len.   *)
(***************************************************************************)
ext4_lookup_dir(recs, off) ==
  LET i == SelectInSeq(recs, LAMBDA r : r.at >= off /\ r.ino # 0)
  IN  IF off < BSIZE /\ \A r \in ToSet(recs) : r.at # off THEN [ret |-> -1, off |-> off]
      ELSE IF i = 0 THEN [ret |-> 0, off |-> off]
      ELSE [ret |-> 1, off |-> recs[i].at + recs[i].len, name |-> recs[i].name,
            ino |-> recs[i].ino]

(* ext4_readdir_at: one record; the end of a block is reported as the end. *)
InBlock(r, b, off) ==
  CASE r.ret = 1  -> [r EXCEPT !.off = b * BSIZE + @]
    [] r.ret = 0  -> [r EXCEPT !.off = (b + 1) * BSIZE]
    [] r.ret = -1 -> [r EXCEPT !.off = off]

ext4_readdir_at(dir, off) ==
  LET b == off \div BSIZE
  IN  IF b >= Len(DirBlocks[dir]) THEN [ret |-> 0, off |-> off]
      ELSE InBlock(ext4_lookup_dir(DirBlocks[dir][b + 1], off % BSIZE), b, off)

(***************************************************************************)
(* ext4_inode_to_vfs: a reference to the slot of an ext4 inode.  Without a *)
(* slot it calls put_inode on a null pointer (s.fault); without a page the *)
(* reference it took is lost.                                              *)
(***************************************************************************)
FilledExt4(s, g, type) ==
  IF g.ip = NoNode THEN Found([s EXCEPT !.fault = TRUE], NoNode)
  ELSE IF g.s.slot[g.ip].private_data = NoData THEN Found(g.s, NoNode)
  ELSE Found([g.s EXCEPT !.slot[g.ip] = [@ EXCEPT !.nlinks = 1, !.type = type]], g.ip)

ext4_inode_to_vfs(s, ino, type, mem) ==
  IF type \notin {"dir", "file"} THEN Found(s, NoNode)
  ELSE FilledExt4(s, get_inode(s, EXT4_DEV, ino, TRUE, mem = 2), type)

ext4_vfs_lookup(s, dir, name, mem) ==
  LET r == ext4_lookup_in_dir(s.slot[dir].ino, name)
  IN  IF r.ino = 0 THEN Found(s, NoNode)
      ELSE ext4_inode_to_vfs(s, r.ino, r.type, mem)

(* ext4_namei("/") as ext4_mount_root calls it: the root, with memory to spare. *)
ext4_mount_root(s) == ext4_inode_to_vfs(s, EXT4_ROOT_INO, "dir", 2)
=============================================================================
