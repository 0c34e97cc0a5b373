-------------------------------- MODULE Vfs --------------------------------
(***************************************************************************)
(* Paths, the mount table and the calls on files (vfs.c, and openat,       *)
(* mkdirat, unlinkat, fileclose and getdents64 above it), over an ext4     *)
(* root with its overlay and tmpfs mounted on /tmp.                        *)
(*                                                                         *)
(* A call is one step.  The kernel is not preempted, and tmpfs and the     *)
(* overlay never give up the CPU; only a read of the image does, when its  *)
(* block is not in the buffer cache.  The steps here are the calls made    *)
(* while the blocks of the image they need are cached.                     *)
(***************************************************************************)
EXTENDS Overlay

CONSTANTS
  Files,      \* open files
  Paths,      \* the paths used, as sequences of components
  Values,     \* what is written
  Offsets,    \* the blocks it is written to
  OpenFlags,  \* the open modes used
  MaxCount,   \* bound: references to a slot
  MaxIno      \* bound: tmpfs inodes ever created

VARIABLES
  kernel,   \* the state of the caches and file systems
  file,     \* struct file: node (NoNode: closed) and writable
  obj,      \* history: the file a descriptor was opened on
  latest    \* history: what was last written to each file

vars == <<kernel, file, obj, latest>>

vfs_root == 1
NoFile == [node |-> NoNode, writable |-> FALSE]

(* ext4_mount_root, then vfs_mount_fs("/tmp"): the only mount a path here meets. *)
Boot ==
  ext4_mount_root([slot |-> tmpfs_init.slot, lru |-> tmpfs_init.lru,
                   inode |-> tmpfs_init.inode, tmpfs_next_ino |-> tmpfs_init.tmpfs_next_ino,
                   entries |-> [i \in 1 .. OVERLAY_ENTRIES |-> NoEntry],
                   uppers |-> [i \in 1 .. UPPER_MAX |-> NoUpper],
                   fault |-> FALSE]).s

vfs_lookup_mount(parent, name) ==
  IF parent = vfs_root /\ name = "tmp" THEN tmp_root ELSE NoNode

(* The inode operations: those of tmpfs for a tmpfs node, those of the overlay else. *)
OpLookup(s, dir, name, mem) ==
  IF is_tmpfs(s, dir) THEN tmpfs_vfs_lookup(s, dir, name)
  ELSE mix_vfs_lookup(s, dir, name, mem)

OpCreate(s, dir, name, type, mem) ==
  IF is_tmpfs(s, dir) THEN tmpfs_vfs_create(s, dir, name, type, mem)
  ELSE mix_vfs_create(s, dir, name, type, mem)

OpUnlink(s, dir, name, mem) ==
  IF is_tmpfs(s, dir) THEN tmpfs_vfs_unlink(s, dir, name)
  ELSE mix_vfs_unlink(s, dir, name, mem)

vfs_iput(s, ip) ==
  IF is_tmpfs(s, ip) THEN tmpfs_destroy_inode(s, ip) ELSE put_inode(s, ip)

(***************************************************************************)
(* vfs_lookup_at: one component after the other, the mount table first.    *)
(* The reference to each directory on the way is never given back.         *)
(***************************************************************************)
Component(at, name, mem) ==
  IF at.ip = NoNode THEN at
  ELSE IF at.s.slot[at.ip].type # "dir" THEN Found(at.s, NoNode)
  ELSE IF vfs_lookup_mount(at.ip, name) # NoNode
  THEN Found(at.s, vfs_lookup_mount(at.ip, name))
  ELSE OpLookup(at.s, at.ip, name, mem)

Walk(s, start, path, mem) ==
  LET at[i \in 0 .. Len(path)] == IF i = 0 THEN Found(s, start)
                                  ELSE Component(at[i - 1], path[i], mem)
  IN  at[Len(path)]

vfs_lookup_at(s, start, path, mem) ==
  IF path = <<>> /\ start = vfs_root
  THEN Found([s EXCEPT !.slot[start].count = @ + 1], start)
  ELSE Walk(s, start, path, mem)

(* vfs_create_at: the existing node, or a new one looked up again. *)
LookCreated(made, dir, name, mem) ==
  IF ~made.ok THEN Found(made.s, NoNode) ELSE OpLookup(made.s, dir, name, mem)

OrCreated(old, dir, name, mem) ==
  IF old.s.slot[dir].type # "dir" \/ old.ip # NoNode THEN old
  ELSE LookCreated(OpCreate(old.s, dir, name, "file", mem), dir, name, mem)

CreateIn(dir, name, mem) ==
  IF dir.ip = NoNode THEN dir
  ELSE OrCreated(Component(dir, name, mem), dir.ip, name, mem)

vfs_create_at(s, start, path, mem) ==
  IF path = <<>> THEN Found(s, NoNode)
  ELSE CreateIn(Walk(s, start, Front(path), mem), Last(path), mem)

(***************************************************************************)
(* The way to the last directory in vfs_mkdir_at and vfs_unlink_at, which  *)
(* hold one reference at a time: owned is the one to give back, and ip is  *)
(* NoNode, with nothing owned, when the way ends early.                    *)
(***************************************************************************)
Release(s, owned) == IF owned = NoNode THEN s ELSE vfs_iput(s, owned)

Descend(owned, child, mine) ==
  IF child.ip = NoNode
  THEN [s |-> Release(child.s, owned), ip |-> NoNode, owned |-> NoNode]
  ELSE IF child.s.slot[child.ip].type # "dir"
  THEN [s |-> Release(Release(child.s, mine), owned), ip |-> NoNode, owned |-> NoNode]
  ELSE [s |-> Release(child.s, owned), ip |-> child.ip, owned |-> mine]

OwnedChild(at, child, name) ==
  Descend(at.owned, child, IF vfs_lookup_mount(at.ip, name) = NoNode THEN child.ip ELSE NoNode)

OwnedComponent(at, name, mem) ==
  IF at.ip = NoNode THEN at ELSE OwnedChild(at, Component(at, name, mem), name)

Parent(s, start, path, mem) ==
  LET at[i \in 0 .. Len(path) - 1] ==
        IF i = 0 THEN [s |-> s, ip |-> start, owned |-> NoNode]
        ELSE OwnedComponent(at[i - 1], path[i], mem)
  IN  at[Len(path) - 1]

MkdirIn(dir, old, name, mem) ==
  IF old.ip # NoNode THEN Release(vfs_iput(old.s, old.ip), dir.owned)
  ELSE Release(OpCreate(old.s, dir.ip, name, "dir", mem).s, dir.owned)

MkdirAt(dir, name, mem) ==
  IF dir.ip = NoNode THEN dir.s ELSE MkdirIn(dir, Component(dir, name, mem), name, mem)

vfs_mkdir_at(s, start, path, mem) ==
  IF path = <<>> THEN s ELSE MkdirAt(Parent(s, start, path, mem), Last(path), mem)

UnlinkIn(dir, old, name, mem) ==
  IF old.ip = NoNode THEN Release(old.s, dir.owned)
  ELSE IF old.s.slot[old.ip].type = "dir" THEN Release(vfs_iput(old.s, old.ip), dir.owned)
  ELSE Release(OpUnlink(vfs_iput(old.s, old.ip), dir.ip, name, mem).s, dir.owned)

UnlinkAt(dir, name, mem) ==
  IF dir.ip = NoNode THEN dir.s ELSE UnlinkIn(dir, Component(dir, name, mem), name, mem)

vfs_unlink_at(s, start, path, mem) ==
  IF path = <<>> THEN s ELSE UnlinkAt(Parent(s, start, path, mem), Last(path), mem)
-----------------------------------------------------------------------------

(* The file a node stands for: an ext4 file or its copy, or a tmpfs file. *)
ObjectOf(s, ip) ==
  LET i == SelectInSeq(s.uppers, LAMBDA u : u.used /\ u.upper = ip)
  IN  IF s.slot[ip].type = "dir" THEN 0
      ELSE IF i # 0 THEN s.uppers[i].ino ELSE s.slot[ip].ino

Bounded(s) ==
  /\ \A i \in Slots : s.slot[i].count <= MaxCount
  /\ s.tmpfs_next_ino <= MaxIno + 1

Install(s) == Bounded(s) /\ kernel' = s

(* Where a path starts: the root, or a directory some descriptor is open on. *)
Starts == {vfs_root} \cup {ip \in {file[g].node : g \in Files} \ {NoNode} :
                            kernel.slot[ip].type = "dir"}

OpTruncate(s, ip, mem) ==
  IF is_tmpfs(s, ip) THEN tmpfs_vfs_truncate(s, ip) ELSE mix_vfs_truncate(s, ip, mem)

(* The node openat looks up or creates, and that node truncated. *)
OrCreate(look, start, path, fl, mem) ==
  IF look.ip # NoNode \/ ~fl.creat THEN look ELSE vfs_create_at(look.s, start, path, mem)

Openat(start, path, fl, mem) ==
  /\ ~kernel.fault
  /\ \E node \in {OrCreate(vfs_lookup_at(kernel, start, path, mem), start, path, fl, mem)} :
     \E cut \in {IF fl.trunc /\ node.ip # NoNode THEN OpTruncate(node.s, node.ip, mem)
                ELSE Done(node.s, TRUE)} :
       LET isDir == node.s.slot[node.ip].type = "dir"
           free == {f \in Files : file[f].node = NoNode}
           id   == ObjectOf(cut.s, node.ip)
           Fails(s) == Install(s) /\ UNCHANGED <<file, obj, latest>>
       IN  IF node.ip = NoNode THEN Fails(node.s)
           ELSE IF isDir /\ fl.write THEN Fails(vfs_iput(node.s, node.ip))
           ELSE IF ~isDir /\ ~cut.ok THEN Fails(vfs_iput(cut.s, node.ip))
           ELSE IF free = {}
           THEN /\ Install(vfs_iput(cut.s, node.ip))
                /\ latest' = IF fl.trunc THEN [latest EXCEPT ![id] = NoBlocks] ELSE latest
                /\ UNCHANGED <<file, obj>>
           ELSE /\ Install(cut.s)
                /\ \E f \in free :
                     /\ file' = [file EXCEPT ![f] = [node |-> node.ip, writable |-> fl.write]]
                     /\ obj' = [obj EXCEPT ![f] = id]
                /\ latest' = IF fl.trunc THEN [latest EXCEPT ![id] = NoBlocks] ELSE latest

Mkdirat(start, path, mem) ==
  /\ ~kernel.fault
  /\ Install(vfs_mkdir_at(kernel, start, path, mem))
  /\ UNCHANGED <<file, obj, latest>>

(***************************************************************************)
(* unlinkat.  Taking down the copy of an ext4 file leaves it to those who  *)
(* have it open as a file of its own, and the ext4 file is again what the  *)
(* image has.                                                              *)
(***************************************************************************)
Unlinkat(start, path, mem) ==
  /\ ~kernel.fault
  /\ \E s \in {vfs_unlink_at(kernel, start, path, mem)} :
       LET torn == {u \in ToSet(kernel.uppers) : u.used /\ upper_find(s, u.ino) = NoNode}
           copy(u) == kernel.slot[u.upper].ino
           on(f) == {u \in torn : u.ino = obj[f] /\ u.upper = file[f].node}
       IN  /\ Install(s)
           /\ obj' = [f \in Files |-> IF on(f) = {} THEN obj[f]
                                      ELSE copy(CHOOSE u \in on(f) : TRUE)]
           /\ latest' = [o \in DOMAIN latest |->
                IF \E u \in torn : u.ino = o THEN [k \in Blocks |-> ext4_read_file(o, k)]
                ELSE IF \E u \in torn : copy(u) = o
                THEN latest[(CHOOSE u \in torn : copy(u) = o).ino]
                ELSE latest[o]]
           /\ UNCHANGED file

Close(f) ==
  /\ ~kernel.fault
  /\ file[f].node # NoNode
  /\ Install(vfs_iput(kernel, file[f].node))
  /\ file' = [file EXCEPT ![f] = NoFile]
  /\ obj' = [obj EXCEPT ![f] = 0]
  /\ UNCHANGED latest

Read(f) ==
  /\ ~kernel.fault
  /\ obj[f] # 0
  /\ \E r \in {mix_vfs_read(kernel, file[f].node, 0)} :
       /\ Install(r.s)
       /\ file' = [file EXCEPT ![f].node = r.ip]
  /\ UNCHANGED <<obj, latest>>

Write(f, k, v, mem) ==
  /\ ~kernel.fault
  /\ obj[f] # 0 /\ file[f].writable
  /\ \E w \in {mix_vfs_write(kernel, file[f].node, k, v, mem)} :
       /\ Install(w.s)
       /\ file' = [file EXCEPT ![f].node = w.ip]
       /\ latest' = IF w.ok THEN [latest EXCEPT ![obj[f]][k] = v] ELSE latest
  /\ UNCHANGED obj

Init ==
  /\ kernel = Boot
  /\ file = [f \in Files |-> NoFile]
  /\ obj = [f \in Files |-> 0]
  /\ latest = [o \in {i \in DOMAIN Image.inode : Image.inode[i].type = "file"}
                 \cup 1 .. MaxIno |->
                 IF o \in DOMAIN Image.inode /\ Image.inode[o].type = "file"
                 THEN [k \in Blocks |-> ext4_read_file(o, k)] ELSE NoBlocks]

(* A call that makes no inode behaves with mem = 0 as with mem = 1. *)
Next ==
  \/ \E path \in Paths, mem \in 0 .. 2 :
       \E start \in IF path = <<>> THEN {vfs_root} ELSE Starts :
         \/ \E fl \in {o \in OpenFlags : o.creat \/ o.trunc \/ mem > 0} :
              Openat(start, path, fl, mem)
         \/ Mkdirat(start, path, mem)
         \/ mem > 0 /\ Unlinkat(start, path, mem)
  \/ \E f \in Files : Close(f) \/ Read(f)
  \/ \E f \in Files, k \in Offsets, v \in Values, mem \in 0 .. 2 : Write(f, k, v, mem)

Spec == Init /\ [][Next]_vars
-----------------------------------------------------------------------------

(***************************************************************************)
(* The tmpfs inodes that are allocated are exactly those a directory or a  *)
(* referenced slot leads to: none is freed under a descriptor that is      *)
(* still open after its name was unlinked, and none is left behind.        *)
(***************************************************************************)
InodesOwned ==
  DOMAIN kernel.inode =
    {TMPFS_ROOT_INO}
      \cup UNION {{de.ino : de \in ToSet(kernel.inode[t].child)} : t \in DOMAIN kernel.inode}
      \cup {kernel.slot[i].private_data :
              i \in {j \in Slots : kernel.slot[j].dev = TMPFS_DEV /\ kernel.slot[j].count > 0}}


(* The names a lookup in a directory finds. *)
Visible(dir) ==
  LET lower == {r \in ToSet(Records[kernel.slot[dir].ino]) : r.ino # 0}
      own == {e \in ToSet(kernel.entries) : e.used /\ e.parent = dir}
  IN  IF is_tmpfs(kernel, dir)
      THEN {de.name : de \in ToSet(kernel.inode[kernel.slot[dir].private_data].child)}
      ELSE {e.name : e \in {e \in own : ~e.whiteout}}
             \cup ({r.name : r \in lower} \ {e.name : e \in own})

(***************************************************************************)
(* getdents64 with room for one name, from offset off: a second name that  *)
(* readdir finds is given back by restoring the offset, the end of the     *)
(* directory is not.  ret is 1 for a name, 0 for the end, -1 for an error. *)
(***************************************************************************)
AndNext(r1, r2) ==
  IF r2.ret # 1 THEN [r1 EXCEPT !.off = r2.off] @@ [last |-> r2.ret = 0]
  ELSE r1 @@ [last |-> FALSE]

FromFirst(s, ip, r1) ==
  IF r1.ret = 1 THEN AndNext(r1, mix_vfs_readdir(s, ip, r1.off)) ELSE r1 @@ [last |-> r1.ret = 0]

getdents64(s, ip, off) == FromFirst(s, ip, mix_vfs_readdir(s, ip, off))

(* The calls of a scan from offset 0 to the one that meets the end or an error. *)
Scan(s, ip) ==
  LET from[off \in 0 .. OVERLAY_ENTRIES + BSIZE + MaxIno] ==
        LET r == getdents64(s, ip, off)
        IN  <<r>> \o (IF r.last \/ r.ret # 1 THEN <<>> ELSE from[r.off])
  IN  from[0]

Listing(s, ip) ==
  LET named == SelectSeq(Scan(s, ip), LAMBDA r : r.ret = 1)
  IN  [i \in DOMAIN named |-> named[i].name]

(***************************************************************************)
(* Once a scan came to the end of a directory, the next call returns 0, as *)
(* the comment over sys_getdents64 says.  It is not so for a directory of  *)
(* the image: there the offset of the end has lost its OVERLAY_ENTRIES.    *)
(***************************************************************************)
GetdentsEnds ==
  \A ip \in Starts :
    LET end == Last(Scan(kernel, ip))
    IN  end.last => getdents64(kernel, ip, end.off).ret = 0

=============================================================================
