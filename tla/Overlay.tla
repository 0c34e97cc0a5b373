------------------------------ MODULE Overlay ------------------------------
(***************************************************************************)
(* The writable layer over ext4 (ext4fs/mix.c), as functions of the kernel *)
(* state.  s.entries is entries[]: names created under an ext4 directory   *)
(* and whiteouts over names of the image.  parent is the slot of the       *)
(* directory: the code keeps a pointer to it and no reference.  At most    *)
(* one entry in use has a given parent and name (create and unlink look    *)
(* first), so the order of a hash bucket does not matter.                  *)
(* s.uppers is uppers[]: the tmpfs copy of an ext4 file that was written.  *)
(***************************************************************************)
EXTENDS Ext4

CONSTANTS
  OVERLAY_ENTRIES,   \* 64 in the code
  UPPER_MAX          \* 64 in the code

NoEntry == [used |-> FALSE, parent |-> NoNode, name |-> "", root |-> NoNode,
            whiteout |-> FALSE]
NoUpper == [used |-> FALSE, ino |-> 0, upper |-> NoNode]

is_tmpfs(s, ip) == s.slot[ip].dev = TMPFS_DEV

(* The index of the entry of a name, 0 when there is none. *)
overlay_find(s, parent, name) ==
  SelectInSeq(s.entries, LAMBDA e : e.used /\ e.parent = parent /\ e.name = name)

overlay_add(s, root, parent, name, whiteout) ==
  LET i == SelectInSeq(s.entries, LAMBDA e : ~e.used)
  IN  IF i = 0 THEN Done(s, FALSE)
      ELSE Done([s EXCEPT !.entries[i] = [used |-> TRUE, parent |-> parent, name |-> name,
                                          root |-> root, whiteout |-> whiteout]], TRUE)

overlay_remove(s, parent, name) ==
  LET i == overlay_find(s, parent, name)
  IN  IF i = 0 THEN s
      ELSE [s EXCEPT !.entries[i] = NoEntry]

upper_find(s, ino) ==
  LET i == SelectInSeq(s.uppers, LAMBDA u : u.used /\ u.ino = ino)
  IN  IF i = 0 THEN NoNode ELSE s.uppers[i].upper

upper_add(s, ino, up) ==
  LET i == SelectInSeq(s.uppers, LAMBDA u : ~u.used)
  IN  IF i = 0 THEN Done(s, FALSE)
      ELSE Done([s EXCEPT !.uppers[i] = [used |-> TRUE, ino |-> ino, upper |-> up]], TRUE)

upper_remove(s, ino) ==
  LET i == SelectInSeq(s.uppers, LAMBDA u : u.used /\ u.ino = ino)
  IN  IF i = 0 THEN s ELSE [s EXCEPT !.uppers[i] = NoUpper]


(* A reference of its own to the tmpfs node in slot up. *)
Refill(s, up) == tmpfs_fill_vfs_inode(s, s.slot[up].ino, s.slot[up].private_data)

mix_destroy_tmpfs_node(s, up) ==
  tmpfs_destroy_inode([s EXCEPT !.slot[up].nlinks = 0], up)

(* A fresh tmpfs inode in a slot; without a slot the inode is freed again. *)
Rooted(g, ino) == IF g.ip = NoNode THEN Found(kmfree(g.s, ino), NoNode) ELSE g

mix_create_tmpfs_root(s, type, mem) ==
  IF mem = 0 THEN Found(s, NoNode)
  ELSE Rooted(tmpfs_fill_vfs_inode(Allocate(s, type), s.tmpfs_next_ino, s.tmpfs_next_ino),
              s.tmpfs_next_ino)

IsDir(s, dir) == s.slot[dir].type = "dir" /\ s.slot[dir].private_data # NoData

(* mix_vfs_lookup: ".", the overlay, then the image, or its copy. *)
PutLower(vip, lower) == Found(put_inode(vip.s, lower), vip.ip)

OrUpper(lower) ==
  LET up == upper_find(lower.s, lower.s.slot[lower.ip].ino)
  IN  IF lower.ip = NoNode \/ up = NoNode THEN lower
      ELSE PutLower(Refill(lower.s, up), lower.ip)

mix_vfs_lookup(s, dir, name, mem) ==
  LET e == overlay_find(s, dir, name)
  IN  IF ~IsDir(s, dir) THEN Found(s, NoNode)
      ELSE IF name = "." THEN get_inode(s, s.slot[dir].dev, s.slot[dir].ino, TRUE, mem = 2)
      ELSE IF e = 0 THEN OrUpper(ext4_vfs_lookup(s, dir, name, mem))
      ELSE IF s.entries[e].whiteout THEN Found(s, NoNode)
      ELSE Refill(s, s.entries[e].root)

(* mix_vfs_create: a whiteout of the name is removed before anything is allocated. *)
Added(add, root) ==
  IF add.ok THEN add ELSE Done(mix_destroy_tmpfs_node(root.s, root.ip), FALSE)

AddRoot(root, dir, name) ==
  IF root.ip = NoNode THEN Done(root.s, FALSE)
  ELSE Added(overlay_add(root.s, root.ip, dir, name, FALSE), root)

mix_vfs_create(s, dir, name, type, mem) ==
  LET e == overlay_find(s, dir, name)
  IN  IF ~IsDir(s, dir) \/ (e # 0 /\ ~s.entries[e].whiteout) THEN Done(s, FALSE)
      ELSE AddRoot(mix_create_tmpfs_root(overlay_remove(s, dir, name), type, mem), dir, name)

(* The copy of ext4 file ino, made if there is none; ip is NoNode on failure. *)
AddUpper(add, fresh) ==
  IF add.ok THEN Found(add.s, fresh.ip)
  ELSE Found(mix_destroy_tmpfs_node(fresh.s, fresh.ip), NoNode)

WithUpper(s, ino, fresh) ==
  IF upper_find(s, ino) # NoNode THEN Found(s, upper_find(s, ino))
  ELSE IF fresh.ip = NoNode THEN fresh
  ELSE AddUpper(upper_add(fresh.s, ino, fresh.ip), fresh)

TruncateUpper(up) ==
  IF up.ip = NoNode THEN Done(up.s, FALSE) ELSE tmpfs_vfs_truncate(up.s, up.ip)

mix_vfs_truncate(s, ip, mem) ==
  IF s.slot[ip].type # "file" \/ s.slot[ip].private_data = NoData THEN Done(s, FALSE)
  ELSE IF is_tmpfs(s, ip) THEN tmpfs_vfs_truncate(s, ip)
  ELSE TruncateUpper(WithUpper(s, s.slot[ip].ino, mix_create_tmpfs_root(s, "file", mem)))

(* mix_vfs_unlink of a name created in the overlay: entry i. *)
UnlinkUpper(s, dir, name, i) ==
  LET root == s.entries[i].root
      ti == s.slot[root].private_data
      cut == [s EXCEPT !.inode[ti].nlinks = @ - 1,
                       !.slot[root].nlinks = s.inode[ti].nlinks - 1]
  IN  IF s.slot[root].type = "dir" THEN Done(s, FALSE)
      ELSE IF cut.inode[ti].nlinks > 0 THEN Done(cut, TRUE)
      ELSE Done(tmpfs_destroy_inode(overlay_remove(cut, dir, name), root), TRUE)

(* mix_vfs_unlink of a name of the image: its copy goes, then a whiteout is added. *)
DropUpper(s, ino) ==
  LET up == upper_find(s, ino)
      ti == s.slot[up].private_data
  IN  IF up = NoNode THEN s
      ELSE tmpfs_destroy_inode(
             [upper_remove(s, ino) EXCEPT !.inode[ti].nlinks = @ - 1,
                                          !.slot[up].nlinks = s.inode[ti].nlinks - 1], up)

WhiteOut(lower, dir, name) ==
  IF lower.ip = NoNode THEN Done(lower.s, FALSE)
  ELSE IF lower.s.slot[lower.ip].type = "dir" THEN Done(put_inode(lower.s, lower.ip), FALSE)
  ELSE overlay_add(put_inode(DropUpper(lower.s, lower.s.slot[lower.ip].ino), lower.ip),
                   NoNode, dir, name, TRUE)

UnlinkLower(s, dir, name, mem) == WhiteOut(ext4_vfs_lookup(s, dir, name, mem), dir, name)

mix_vfs_unlink(s, dir, name, mem) ==
  LET i == SelectInSeq(s.entries, LAMBDA e : e.used /\ ~e.whiteout
                                               /\ e.parent = dir /\ e.name = name)
  IN  IF ~IsDir(s, dir) THEN Done(s, FALSE)
      ELSE IF i # 0 THEN UnlinkUpper(s, dir, name, i)
      ELSE UnlinkLower(s, dir, name, mem)

(***************************************************************************)
(* Reads and writes of an open file, which they may move from the ext4     *)
(* node to its copy: ip is the node of the file afterwards.                *)
(***************************************************************************)
Switched(vip, ip) == IF vip.ip = NoNode THEN vip ELSE PutLower(vip, ip)

Switch(s, ip, up) == Switched(Refill(s, up), ip)


ReadUpper(sw, ip, k) ==
  IF sw.ip = NoNode THEN [s |-> sw.s, ip |-> ip, val |-> "error"]
  ELSE [s |-> sw.s, ip |-> sw.ip, val |-> tmpfs_vfs_read(sw.s, sw.ip, k)]

mix_vfs_read(s, ip, k) ==
  LET up == upper_find(s, s.slot[ip].ino)
  IN  IF is_tmpfs(s, ip) THEN [s |-> s, ip |-> ip, val |-> tmpfs_vfs_read(s, ip, k)]
      ELSE IF up = NoNode
      THEN [s |-> s, ip |-> ip, val |-> ext4_read_file(s.slot[ip].ino, k)]
      ELSE ReadUpper(Switch(s, ip, up), ip, k)

(* The copying loop of mix_vfs_write: whole, or the copy is destroyed. *)
Copied(up, read, mem) ==
  IF up.ip = NoNode THEN up
  ELSE IF \E k \in Blocks : read[k] = "error" \/ (read[k] # NoBlock /\ mem < 2)
  THEN Found(mix_destroy_tmpfs_node(up.s, up.ip), NoNode)
  ELSE Found([up.s EXCEPT !.inode[up.s.slot[up.ip].private_data].blocks = read], up.ip)

CopyUp(s, ino, mem) ==
  Copied(mix_create_tmpfs_root(s, "file", mem), [k \in Blocks |-> ext4_read_file(ino, k)], mem)

(* The node of the file, and whether the write was done. *)
Wrote(d, node) == [s |-> d.s, ip |-> node, ok |-> d.ok]

WriteSwitched(sw, ip, k, v, mem) ==
  IF sw.ip = NoNode THEN Wrote(Done(sw.s, FALSE), ip)
  ELSE Wrote(tmpfs_vfs_write(sw.s, sw.ip, k, v, mem), sw.ip)

WriteUpper(up, ip, k, v, mem) ==
  IF up.ip = NoNode THEN Wrote(Done(up.s, FALSE), ip)
  ELSE WriteSwitched(Switch(up.s, ip, up.ip), ip, k, v, mem)

mix_vfs_write(s, ip, k, v, mem) ==
  IF is_tmpfs(s, ip) THEN Wrote(tmpfs_vfs_write(s, ip, k, v, mem), ip)
  ELSE IF s.slot[ip].private_data = NoData THEN Wrote(Done(s, FALSE), ip)
  ELSE WriteUpper(WithUpper(s, s.slot[ip].ino, CopyUp(s, s.slot[ip].ino, mem)), ip, k, v, mem)

(***************************************************************************)
(* mix_vfs_readdir: offsets below OVERLAY_ENTRIES scan entries[], the      *)
(* others are OVERLAY_ENTRIES plus an ext4 offset, except that at the end  *)
(* of the directory, or an error, the ext4 offset is left as it is.        *)
(***************************************************************************)
overlay_readdir_at(s, dir, off) ==
  LET i == SelectInSubSeq(s.entries, off + 1, OVERLAY_ENTRIES,
                          LAMBDA e : e.used /\ ~e.whiteout /\ e.parent = dir)
  IN  IF i = 0 THEN [ret |-> 0, off |-> off]
      ELSE [ret |-> 1, off |-> i, name |-> s.entries[i].name]


(* The loop over ext4_vfs_readdir: records an entry of the overlay covers are skipped. *)
LowerRecord(s, dir, off) ==
  LET step[o \in 0 .. Len(DirBlocks[s.slot[dir].ino]) * BSIZE] ==
        LET r == ext4_readdir_at(s.slot[dir].ino, o)
        IN  IF r.ret = 1 /\ overlay_find(s, dir, r.name) # 0 THEN step[r.off] ELSE r
  IN  step[off]

LowerOffset(r) == IF r.ret = 1 THEN [r EXCEPT !.off = OVERLAY_ENTRIES + @] ELSE r

mix_vfs_readdir(s, ip, off) ==
  IF is_tmpfs(s, ip) THEN tmpfs_vfs_readdir(s, ip, off)
  ELSE IF off < OVERLAY_ENTRIES /\ overlay_readdir_at(s, ip, off).ret = 1
  THEN overlay_readdir_at(s, ip, off)
  ELSE LowerOffset(LowerRecord(s, ip, IF off < OVERLAY_ENTRIES THEN 0 ELSE off - OVERLAY_ENTRIES))
=============================================================================
