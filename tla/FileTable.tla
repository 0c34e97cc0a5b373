----------------------------- MODULE FileTable -----------------------------
(***************************************************************************)
(* The open-file table: ftable[] and its reference counts (file.c), the    *)
(* descriptors and file mappings of the processes, and what the last close *)
(* of a file lets go of: an end of a pipe (pipe.c) or an inode.            *)
(*                                                                         *)
(* Every pointer that owns a reference lives in ptr[<<p, s>>].  Below      *)
(* NOFILE, s is a descriptor (p->ofile[s]); then come the mappings         *)
(* (p->vm_area[].file) and last two locals of the call p is in.  A call    *)
(* that touches several files is several steps, which other processes may  *)
(* interleave: more than one CPU allows today, and what ftable_lock and    *)
(* p->lock are there for.                                                  *)
(***************************************************************************)
EXTENDS Integers, FiniteSets

CONSTANTS
  Procs,    \* process slots
  First,    \* the slot of the first process
  NFILE,    \* KERNEL_MAX_FILES, 128 in the code
  NOFILE,   \* PROCESS_MAX_OPEN_FILES, 128 in the code
  NVMA,     \* mappings of a process
  Pipes,    \* bound: blocks kmalloc has for pipes
  Nodes     \* inodes a path can lead to

ASSUME FileTableAssumption ==
  /\ First \in Procs /\ IsFiniteSet(Procs)
  /\ NFILE \in Nat /\ NOFILE \in Nat /\ NVMA \in Nat
  /\ Pipes \cap Nodes = {}

Files == 0 .. NFILE - 1
Fd == 0 .. NOFILE - 1
Vma == NOFILE .. NOFILE + NVMA - 1
RFile == NOFILE + NVMA       \* the locals read, f, newfile
WFile == NOFILE + NVMA + 1   \* the local write
Slots == 0 .. NOFILE + NVMA + 1

NoFile == -1
Null == "null"

ASSUME NullAssumption == Null \notin Pipes \cup Nodes

Types == {"FILE_NONE", "FILE_VFS_NODE", "FILE_PIPE"}
Places == {"unused", "user", "open", "fd", "alloc", "pipe", "install", "undo",
           "dup3", "fork", "new", "exec", "exit", "zombie", "io"}

VARIABLES
  ref_count, type, obj, readable, writable,   \* struct file; obj: pipe or node
  pAlloc, pRead, pWrite,    \* struct pipe: allocated, readable, writable
  icount,   \* references to each inode
  ptr,      \* the pointers to files, see above
  pc,       \* what each process is doing
  want,     \* the inode an openat holds before it has a file
  child,    \* the slot a fork is filling
  io        \* the file a read or write under way goes through

fileVars == <<ref_count, type, obj, readable, writable>>
objVars == <<pAlloc, pRead, pWrite, icount>>
callVars == <<want, child, io>>
vars == <<fileVars, objVars, ptr, pc, callVars>>

NoProc == "no process"
-----------------------------------------------------------------------------
Init ==
  /\ ref_count = [f \in Files |-> 0]
  /\ type = [f \in Files |-> "FILE_NONE"]
  /\ obj = [f \in Files |-> Null]
  /\ readable = [f \in Files |-> 0]
  /\ writable = [f \in Files |-> 0]
  /\ pAlloc = [pi \in Pipes |-> 0]
  /\ pRead = [pi \in Pipes |-> 0]
  /\ pWrite = [pi \in Pipes |-> 0]
  /\ icount = [n \in Nodes |-> 0]
  /\ ptr = [x \in Procs \X Slots |-> NoFile]
  /\ pc = [p \in Procs |-> IF p = First THEN "user" ELSE "unused"]
  /\ want = [p \in Procs |-> Null]
  /\ child = [p \in Procs |-> NoProc]
  /\ io = [p \in Procs |-> NoFile]

Goto(p, where) == pc' = [pc EXCEPT ![p] = where]
IsFree(x) == ptr[x] = NoFile
Lowest(x, S) == x \in S /\ \A y \in S : x <= y

FreeFiles == {f \in Files : ref_count[f] = 0}
FreeFds(p) == {fd \in Fd : IsFree(<<p, fd>>)}
InUse(p) == {s \in Fd \cup Vma : ~IsFree(<<p, s>>)}

(* Operators named X_Y, here and below, are faulty variants of X that the  *)
(* properties at the end are tested against; the model does not use them.  *)

filedup_NoCount(f) == f \in Files /\ ref_count[f] > 0 /\ UNCHANGED ref_count

(* filedup; with no reference left the code panics, so no step is left. *)
filedup(f) ==
  /\ f \in Files /\ ref_count[f] > 0
  /\ ref_count' = [ref_count EXCEPT ![f] = @ + 1]

(* pipe_close(pi, w) frees the pipe with its second end. *)
pipe_close(pi, w) ==
  /\ pRead' = IF w = 1 THEN pRead ELSE [pRead EXCEPT ![pi] = 0]
  /\ pWrite' = IF w = 1 THEN [pWrite EXCEPT ![pi] = 0] ELSE pWrite
  /\ pAlloc' = [pAlloc EXCEPT ![pi] = IF pRead'[pi] = 0 /\ pWrite'[pi] = 0
                                      THEN 0 ELSE @]
  /\ UNCHANGED icount

iput(n) == icount' = [icount EXCEPT ![n] = @ - 1]

(* fileclose(f), a reference that is not the last. *)
CloseShared(f) ==
  /\ f \in Files /\ ref_count[f] > 1
  /\ ref_count' = [ref_count EXCEPT ![f] = @ - 1]
  /\ UNCHANGED <<type, obj, readable, writable, objVars>>

Reset(f) ==
  /\ ref_count' = [ref_count EXCEPT ![f] = 0]
  /\ type' = [type EXCEPT ![f] = "FILE_NONE"]
  /\ obj' = [obj EXCEPT ![f] = Null]
  /\ readable' = [readable EXCEPT ![f] = 0]
  /\ writable' = [writable EXCEPT ![f] = 0]

CloseLast_ReadsClearedFlag(f) ==
  /\ f \in Files /\ ref_count[f] = 1
  /\ Reset(f)
  /\ CASE type[f] = "FILE_PIPE" -> pipe_close(obj[f], writable'[f])
       [] type[f] = "FILE_VFS_NODE" -> iput(obj[f]) /\ UNCHANGED <<pAlloc, pRead, pWrite>>
       [] type[f] = "FILE_NONE" -> UNCHANGED objVars

(* fileclose(f), the last reference: what f stood for goes as well. *)
CloseLast(f) ==
  /\ f \in Files /\ ref_count[f] = 1
  /\ Reset(f)
  /\ CASE type[f] = "FILE_PIPE" -> pipe_close(obj[f], writable[f])
       [] type[f] = "FILE_VFS_NODE" -> iput(obj[f]) /\ UNCHANGED <<pAlloc, pRead, pWrite>>
       [] type[f] = "FILE_NONE" -> UNCHANGED objVars

fileclose(f) == CloseShared(f) \/ CloseLast(f)

(* A pointer gives up its reference. *)
Drop(x) ==
  /\ ~IsFree(x)
  /\ ptr' = [ptr EXCEPT ![x] = NoFile]
  /\ fileclose(ptr[x])
-----------------------------------------------------------------------------
(* openat: the path leads to n (found or created), and n is referenced. *)
OpenLookup(p, n) ==
  /\ pc[p] = "user"
  /\ icount' = [icount EXCEPT ![n] = @ + 1]
  /\ want' = [want EXCEPT ![p] = n]
  /\ Goto(p, "open")
  /\ UNCHANGED <<fileVars, pAlloc, pRead, pWrite, ptr, child, io>>

(* openat: a directory opened for writing, a failed truncate, ENFILE. *)
OpenFail(p) ==
  /\ pc[p] = "open"
  /\ iput(want[p])
  /\ want' = [want EXCEPT ![p] = Null]
  /\ Goto(p, "user")
  /\ UNCHANGED <<fileVars, pAlloc, pRead, pWrite, ptr, child, io>>

(* openat: fd_alloc finds an entry, which takes over the inode. *)
OpenFile(p, f, r, w) ==
  /\ pc[p] = "open"
  /\ Lowest(f, FreeFiles)
  /\ r + w > 0
  /\ ref_count' = [ref_count EXCEPT ![f] = 1]
  /\ type' = [type EXCEPT ![f] = "FILE_VFS_NODE"]
  /\ obj' = [obj EXCEPT ![f] = want[p]]
  /\ readable' = [readable EXCEPT ![f] = r]
  /\ writable' = [writable EXCEPT ![f] = w]
  /\ ptr' = [ptr EXCEPT ![<<p, RFile>>] = f]
  /\ want' = [want EXCEPT ![p] = Null]
  /\ Goto(p, "fd")
  /\ UNCHANGED <<objVars, child, io>>

(* openat: alloc_fd takes the lowest free descriptor ... *)
OpenFd(p, fd) ==
  /\ pc[p] = "fd"
  /\ Lowest(fd, FreeFds(p))
  /\ ptr' = [ptr EXCEPT ![<<p, fd>>] = ptr[<<p, RFile>>], ![<<p, RFile>>] = NoFile]
  /\ Goto(p, "user")
  /\ UNCHANGED <<fileVars, objVars, callVars>>

(* ... or there is none. *)
OpenEMFILE(p) ==
  /\ pc[p] = "fd"
  /\ FreeFds(p) = {}
  /\ Drop(<<p, RFile>>)
  /\ Goto(p, "user")
  /\ UNCHANGED callVars

(* filealloc for one of the two locals. *)
filealloc(p, s, f) ==
  /\ Lowest(f, FreeFiles)
  /\ ref_count' = [ref_count EXCEPT ![f] = 1]
  /\ ptr' = [ptr EXCEPT ![<<p, s>>] = f]
  /\ UNCHANGED <<type, obj, readable, writable, objVars, callVars>>

(* pipe_alloc: a file for the read end, one for the write end, which it    *)
(* asks for also when there is none for the read end ...                   *)
PipeAllocRead(p, f) == pc[p] = "user" /\ filealloc(p, RFile, f) /\ Goto(p, "alloc")
PipeAllocWrite(p, f) == pc[p] = "alloc" /\ filealloc(p, WFile, f) /\ Goto(p, "pipe")

PipeAllocNone(p) ==
  /\ pc[p] \in {"user", "alloc"}
  /\ FreeFiles = {}
  /\ Goto(p, IF pc[p] = "user" THEN "alloc" ELSE "pipe")
  /\ UNCHANGED <<fileVars, objVars, ptr, callVars>>

(* ... and the pipe itself, bound to both. *)
PipeAllocBind(p, pi) ==
  LET r == ptr[<<p, RFile>>]
      w == ptr[<<p, WFile>>]
  IN  /\ pc[p] = "pipe" /\ NoFile \notin {r, w} /\ pAlloc[pi] = 0
      /\ pAlloc' = [pAlloc EXCEPT ![pi] = 1]
      /\ pRead' = [pRead EXCEPT ![pi] = 1]
      /\ pWrite' = [pWrite EXCEPT ![pi] = 1]
      /\ type' = [type EXCEPT ![r] = "FILE_PIPE", ![w] = "FILE_PIPE"]
      /\ obj' = [obj EXCEPT ![r] = pi, ![w] = pi]
      /\ readable' = [readable EXCEPT ![r] = 1, ![w] = 0]
      /\ writable' = [writable EXCEPT ![r] = 0, ![w] = 1]
      /\ Goto(p, "install")
      /\ UNCHANGED <<ref_count, icount, ptr, callVars>>

(* pipe_alloc: a file or the memory is missing. *)
PipeAllocFail(p) ==
  /\ pc[p] = "pipe"
  /\ Goto(p, "undo")
  /\ UNCHANGED <<fileVars, objVars, ptr, callVars>>

(* sys_pipe2: both ends get a descriptor, the lowest first. *)
Pipe2(p, fd0, fd1) ==
  /\ pc[p] = "install"
  /\ Lowest(fd0, FreeFds(p)) /\ Lowest(fd1, FreeFds(p) \ {fd0})
  /\ ptr' = [ptr EXCEPT ![<<p, fd0>>] = ptr[<<p, RFile>>],
                        ![<<p, fd1>>] = ptr[<<p, WFile>>],
                        ![<<p, RFile>>] = NoFile,
                        ![<<p, WFile>>] = NoFile]
  /\ Goto(p, "user")
  /\ UNCHANGED <<fileVars, objVars, callVars>>

(* sys_pipe2: fewer than two descriptors, or the numbers cannot be copied  *)
(* out; descriptors already taken are given back.                          *)
Pipe2Fail(p) ==
  /\ pc[p] = "install"
  /\ Goto(p, "undo")
  /\ UNCHANGED <<fileVars, objVars, ptr, callVars>>

(* The files of a failed pipe2 are closed, the read end first. *)
PipeUndoRead(p) ==
  /\ pc[p] = "undo"
  /\ Drop(<<p, RFile>>)
  /\ UNCHANGED <<pc, callVars>>

PipeUndoWrite(p) ==
  /\ pc[p] = "undo" /\ IsFree(<<p, RFile>>)
  /\ Drop(<<p, WFile>>)
  /\ UNCHANGED <<pc, callVars>>

PipeUndone(p) ==
  /\ pc[p] = "undo" /\ IsFree(<<p, RFile>>) /\ IsFree(<<p, WFile>>)
  /\ Goto(p, "user")
  /\ UNCHANGED <<fileVars, objVars, ptr, callVars>>
-----------------------------------------------------------------------------
(* sys_close *)
Close(p, fd) ==
  /\ pc[p] = "user"
  /\ Drop(<<p, fd>>)
  /\ UNCHANGED <<pc, callVars>>

(* dup_from: the lowest free descriptor from minfd on; sys_fcntl too. *)
dup_from(p, fd, minfd, newfd) ==
  /\ pc[p] = "user"
  /\ Lowest(newfd, {n \in FreeFds(p) : n >= minfd})
  /\ filedup(ptr[<<p, fd>>])
  /\ ptr' = [ptr EXCEPT ![<<p, newfd>>] = ptr[<<p, fd>>]]
  /\ UNCHANGED <<type, obj, readable, writable, objVars, pc, callVars>>

(* sys_dup3: newfd takes over the file of oldfd ... *)
Dup3(p, oldfd, newfd) ==
  /\ pc[p] = "user"
  /\ ptr[<<p, oldfd>>] # ptr[<<p, newfd>>]
  /\ filedup(ptr[<<p, oldfd>>])
  /\ ptr' = [ptr EXCEPT ![<<p, newfd>>] = ptr[<<p, oldfd>>],
                        ![<<p, RFile>>] = ptr[<<p, newfd>>]]
  /\ Goto(p, "dup3")
  /\ UNCHANGED <<type, obj, readable, writable, objVars, callVars>>

(* ... and what newfd had is closed. *)
Dup3Close(p) ==
  /\ pc[p] = "dup3"
  /\ Drop(<<p, RFile>>)
  /\ Goto(p, "user")
  /\ UNCHANGED callVars

Dup3Nothing(p) ==
  /\ pc[p] = "dup3" /\ IsFree(<<p, RFile>>)
  /\ Goto(p, "user")
  /\ UNCHANGED <<fileVars, objVars, ptr, callVars>>

(* do_mmap of a file; slots with lower numbers may be anonymous mappings. *)
Mmap(p, fd, v) ==
  /\ pc[p] = "user"
  /\ IsFree(<<p, v>>)
  /\ filedup(ptr[<<p, fd>>])
  /\ ptr' = [ptr EXCEPT ![<<p, v>>] = ptr[<<p, fd>>]]
  /\ UNCHANGED <<type, obj, readable, writable, objVars, pc, callVars>>

(* do_munmap of a whole mapping. *)
Munmap(p, v) ==
  /\ pc[p] = "user"
  /\ Drop(<<p, v>>)
  /\ UNCHANGED <<pc, callVars>>

(* A read or write, asleep in the pipe or the disk at some point: it uses  *)
(* the pointer it found in the descriptor table without a reference.       *)
IoStart(p, fd) ==
  /\ pc[p] = "user" /\ ~IsFree(<<p, fd>>)
  /\ io' = [io EXCEPT ![p] = ptr[<<p, fd>>]]
  /\ Goto(p, "io")
  /\ UNCHANGED <<fileVars, objVars, ptr, want, child>>

IoEnd(p) ==
  /\ pc[p] = "io"
  /\ io' = [io EXCEPT ![p] = NoFile]
  /\ Goto(p, "user")
  /\ UNCHANGED <<fileVars, objVars, ptr, want, child>>
-----------------------------------------------------------------------------
(* fork: alloc_process found np ... *)
ForkStart(p, np) ==
  /\ pc[p] = "user" /\ pc[np] = "unused"
  /\ child' = [child EXCEPT ![p] = np]
  /\ pc' = [pc EXCEPT ![p] = "fork", ![np] = "new"]
  /\ UNCHANGED <<fileVars, objVars, ptr, want, io>>

(* ... uvmcopy fails ... *)
ForkENOMEM(p) ==
  /\ pc[p] = "fork" /\ InUse(child[p]) = {}
  /\ pc' = [pc EXCEPT ![p] = "user", ![child[p]] = "unused"]
  /\ child' = [child EXCEPT ![p] = NoProc]
  /\ UNCHANGED <<fileVars, objVars, ptr, want, io>>

(* ... or every descriptor and every file mapping is duplicated in turn. *)
ForkDup(p, s) ==
  /\ pc[p] = "fork"
  /\ Lowest(s, InUse(p) \ InUse(child[p]))
  /\ filedup(ptr[<<p, s>>])
  /\ ptr' = [ptr EXCEPT ![<<child[p], s>>] = ptr[<<p, s>>]]
  /\ UNCHANGED <<type, obj, readable, writable, objVars, pc, callVars>>

ForkEnd(p) ==
  /\ pc[p] = "fork" /\ InUse(p) \subseteq InUse(child[p])
  /\ pc' = [pc EXCEPT ![p] = "user", ![child[p]] = "user"]
  /\ child' = [child EXCEPT ![p] = NoProc]
  /\ UNCHANGED <<fileVars, objVars, ptr, want, io>>

(* execve_kernel has committed: free_pagetable_vma closes the mappings. *)
Exec(p) ==
  /\ pc[p] = "user"
  /\ Goto(p, "exec")
  /\ UNCHANGED <<fileVars, objVars, ptr, callVars>>

ExecUnmap(p, v) ==
  /\ pc[p] = "exec"
  /\ Lowest(v, InUse(p) \cap Vma)
  /\ Drop(<<p, v>>)
  /\ UNCHANGED <<pc, callVars>>

ExecEnd(p) ==
  /\ pc[p] = "exec" /\ InUse(p) \cap Vma = {}
  /\ Goto(p, "user")
  /\ UNCHANGED <<fileVars, objVars, ptr, callVars>>

(* exit: the descriptors, then the mappings. *)
Exit(p) ==
  /\ pc[p] = "user"
  /\ Goto(p, "exit")
  /\ UNCHANGED <<fileVars, objVars, ptr, callVars>>

ExitClose(p, s) ==
  /\ pc[p] = "exit"
  /\ Lowest(s, InUse(p))
  /\ Drop(<<p, s>>)
  /\ UNCHANGED <<pc, callVars>>

ExitEnd(p) ==
  /\ pc[p] = "exit" /\ InUse(p) = {}
  /\ Goto(p, "zombie")
  /\ UNCHANGED <<fileVars, objVars, ptr, callVars>>

(* freeproc in the parent's wait4 (the first process has no parent); later *)
(* alloc_process clears ofile[] without a look.                            *)
Reap(p) ==
  /\ pc[p] = "zombie" /\ p # First
  /\ Goto(p, "unused")
  /\ ptr' = [x \in Procs \X Slots |-> IF x[1] = p /\ x[2] \in Fd THEN NoFile ELSE ptr[x]]
  /\ UNCHANGED <<fileVars, objVars, callVars>>
-----------------------------------------------------------------------------
OpenStep(p) ==
  \/ \E n \in Nodes : OpenLookup(p, n)
  \/ OpenFail(p)
  \/ \E f \in Files, r, w \in {0, 1} : OpenFile(p, f, r, w)
  \/ \E fd \in Fd : OpenFd(p, fd)
  \/ OpenEMFILE(p)

PipeStep(p) ==
  \/ \E f \in Files : PipeAllocRead(p, f) \/ PipeAllocWrite(p, f)
  \/ \E pi \in Pipes : PipeAllocBind(p, pi)
  \/ PipeAllocNone(p) \/ PipeAllocFail(p)
  \/ \E fd0, fd1 \in Fd : Pipe2(p, fd0, fd1)
  \/ Pipe2Fail(p) \/ PipeUndoRead(p) \/ PipeUndoWrite(p) \/ PipeUndone(p)

FdStep(p) ==
  \/ \E fd \in Fd : Close(p, fd) \/ IoStart(p, fd)
  \/ \E fd, minfd, newfd \in Fd : dup_from(p, fd, minfd, newfd)
  \/ \E oldfd, newfd \in Fd : Dup3(p, oldfd, newfd)
  \/ Dup3Close(p) \/ Dup3Nothing(p) \/ IoEnd(p)
  \/ \E fd \in Fd, v \in Vma : Mmap(p, fd, v)
  \/ \E v \in Vma : Munmap(p, v)

ProcStep(p) ==
  \/ \E np \in Procs : ForkStart(p, np)
  \/ ForkENOMEM(p) \/ ForkEnd(p)
  \/ \E s \in Fd \cup Vma : ForkDup(p, s) \/ ExitClose(p, s)
  \/ Exec(p) \/ ExecEnd(p) \/ \E v \in Vma : ExecUnmap(p, v)
  \/ Exit(p) \/ ExitEnd(p) \/ Reap(p)

Next == \E p \in Procs : OpenStep(p) \/ PipeStep(p) \/ FdStep(p) \/ ProcStep(p)

Spec == Init /\ [][Next]_vars
-----------------------------------------------------------------------------
TypeOK ==
  /\ ref_count \in [Files -> Nat]
  /\ type \in [Files -> Types]
  /\ obj \in [Files -> Pipes \cup Nodes \cup {Null}]
  /\ readable \in [Files -> {0, 1}] /\ writable \in [Files -> {0, 1}]
  /\ pAlloc \in [Pipes -> {0, 1}]
  /\ pRead \in [Pipes -> {0, 1}] /\ pWrite \in [Pipes -> {0, 1}]
  /\ icount \in [Nodes -> Nat]
  /\ ptr \in [Procs \X Slots -> Files \cup {NoFile}]
  /\ pc \in [Procs -> Places]
  /\ want \in [Procs -> Nodes \cup {Null}]
  /\ child \in [Procs -> Procs \cup {NoProc}]
  /\ io \in [Procs -> Files \cup {NoFile}]

Refs(f) == {x \in Procs \X Slots : ptr[x] = f}

FilesOf(o) == {f \in Files : obj[f] = o}

(* ref_count is the number of pointers to the file, whatever mix of open,  *)
(* dup, dup3, pipe2, mmap, fork, exec and exit led there, so the panics of *)
(* fileclose, filedup and dup are out of reach; an inode has one reference *)
(* for each file and each openat under way.  None leaks: what a zombie or  *)
(* a free slot once had is closed, so that the next process in the slot    *)
(* may start from cleared tables.                                          *)
RefsCounted ==
  /\ \A f \in Files : ref_count[f] = Cardinality(Refs(f))
  /\ \A n \in Nodes :
       icount[n] = Cardinality(FilesOf(n)) + Cardinality({p \in Procs : want[p] = n})
  /\ \A p \in Procs : pc[p] \in {"zombie", "unused"} => \A s \in Slots : IsFree(<<p, s>>)

(* An end of a pipe is open exactly while a file stands for it, and the    *)
(* pipe is freed with the last of them and never under one.                *)
PipeEnds ==
  \A pi \in Pipes :
    /\ pRead[pi] = 1 <=> \E f \in FilesOf(pi) : writable[f] = 0
    /\ pWrite[pi] = 1 <=> \E f \in FilesOf(pi) : writable[f] = 1
    /\ pAlloc[pi] = 1 <=> FilesOf(pi) # {}

UnderCallKept ==
  \A p \in Procs : io[p] # NoFile =>
    /\ ref_count'[io[p]] > 0
    /\ obj'[io[p]] = obj[io[p]]
    /\ obj[io[p]] \in Pipes =>
         /\ writable[io[p]] = 0 => pRead'[obj[io[p]]] = 1
         /\ writable[io[p]] = 1 => pWrite'[obj[io[p]]] = 1

(* While a read or write is under way its file stays open and its end of   *)
(* the pipe too, although the call holds no reference of its own: Pipe     *)
(* takes this for granted.                                                 *)
CallKeepsEnd == [][UnderCallKept]_vars
=============================================================================
