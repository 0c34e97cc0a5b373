# FrostVistaOS in TLA+

Specifications of the FrostVistaOS kernel, model-checked with TLC on small
instances and, where marked, proved with TLAPS for every value of the
constants.  The RISC-V build is the reference; paths are relative to the
repository.

## 1. The system and its parts

FrostVistaOS is a small Unix-like kernel.  It boots **one CPU** and is **not
preemptive**: a trap taken in kernel mode never yields, system calls run with
interrupts off, and the CPU changes hands only in `sleep`, `yield` (a timer
tick in user mode, a console read without input) and `exit`.  What makes it hard
is therefore not fine-grained data races but *stretches of code between two
points where the CPU is given up*, the device and its interrupt, and counts
that must survive every failure path.

| Part | State | Operations | What is hard | Property wanted |
|---|---|---|---|---|
| processes (`core/proc.c`, `proc_base.c`, `wait.c`) | `proc[]`, `pid`, `cpu->proc`, scan index | fork, exit, wait4, kill, scheduler, yield, sleep, wakeup | exit wakes before it is a zombie; reparenting; slot reuse; fairness of the scan | no lost exit, nobody without a parent, one reaper, no starvation |
| time (`core/sysproc.c`) | ticks, `timer_chan` | timerintr, nanosleep | tick against test-and-sleep | nanosleep ends |
| signals (`core/signal.c`) | pending, blocked, handlers, frames | send, check, sigaction, sigprocmask, sigreturn | several frames in one return; masks | a frame is returned from once, with its mask |
| pipes (`core/pipe.c`) | ring, two wrapping counters, two flags | alloc, read, write, close | wakeups among several readers and writers, wrap-around, partial copies | FIFO, no lost wakeup, ends released |
| open files (`core/file.c`, `sysfile.c`) | `ftable[]`, `ofile[]`, file mappings | open, close, dup, dup3, pipe2, fork, exec, exit, mmap | undo of half-done calls, full tables | exact reference counts |
| block cache (`fs/block_cache.c`, `core/sleeplock.c`) | buffers, LRU list, sleep locks | bget, bread, bwrite, brelse | eviction against waiters, nested locks, empty pool | one copy, nothing lost, no deadlock |
| virtio block (`driver/virtio_blk.c`) | descriptors, two rings, indices | submit, finish, interrupt | ack against completion, wrap-around, descriptor shortage | no lost completion, no leaked descriptor |
| physical pages, COW (`mm/kalloc.c`, `arch/riscv/mm/vm.c`) | free list, `refcnt[]`, page tables | kalloc, kfree, uvmcopy, faults, copyout | counts over fork failure, fault on shared pages | a page is freed with its last mapping; a write is private |
| mappings (`mm/mmap.c`) | `vm_area[]`, address ranges | mmap, munmap, fork, exec | overlap, full table | areas are disjoint |
| heap (`mm/kmalloc.c`, `mm/slab/slab.c`) | slabs on three lists | alloc, free | slab changes list while in use | an object is handed out once |
| inodes, VFS (`fs/inode_cache.c`, `vfs.c`) | cache entries, inode locks, mounts | get, put, ilock, create, unlink | reuse of an entry, stale contents | one entry per inode, loaded when locked |
| easyfs (`fs/easyfs/`) | bitmap, inode table, indirect blocks | balloc, bfree, bmap, itrunc, create, unlink | steps with released buffers in between | a block has one owner |
| terminal, UART (`fs/devtmpfs/tty.c`, `driver/uart.c`) | ring of characters, input owners | claim, release, read, interrupt, ^C | owner exits while it owns | input reaches a live owner |
| interrupts (`trap/trap.c`, `trap/mtrap.c`) | `mip`, enable bits | M- and S-mode traps | SEIP latch | no storm, no lost interrupt |
| tmpfs, devtmpfs, ext4 reader, exec, PCI/MMIO transports, boot, LoongArch port, user programs | | | | see section 7 |

How they interact: `fork`, `exec` and `exit` move references of the file table
and of pages; the file table's last close closes a pipe end or puts an inode;
pipes, sleep locks, the disk driver, `wait4` and `nanosleep` all stand on
`sleep`/`wakeup` and on the scheduler; the block cache sits between the file
systems and the driver.

## 2. Modules

| Module | Models | Abstract specification | Proofs |
|---|---|---|---|
| `Proc` | processes, scheduler, sleep/wakeup, default signals, nanosleep, timer and ^C interrupts, input owners | | `ProcProofs` |
| `Pipe` | one pipe, byte by byte | `Channel` | `PipeProofs` |
| `FileTable` | open files, descriptors, file mappings, pipe ends, inode references | | |
| `BlockCache` | block cache and its sleep locks | `BlockStore` | |
| `VirtioBlk` | request queue, device, interrupt handler | | |
| `Cow` | user pages: allocator and counts, page table entries, faults, copy-on-write, and what fork, exec, exit, wait4, brk, mmap and munmap do to them | `PrivateMemory` | |

`MC<Module>` instantiates a module for TLC; every `.cfg` belongs to the MC
module whose name it begins with.  Operators named `X_Y` are faulty variants of
the operator `X` (a dropped wakeup, a missing count); no specification uses
them.  They show that each property notices the mistake it is there for.

### Proc

`state`, `pid`, `parent`, `chan`, `sig_pending` are the fields of `struct
Process`; `curr`, `scan`, `found` are `cpu->proc` and the scheduler's locals;
`owners` is the terminal's list of input owners.  `pc` says where a process
stands: in user mode, on its way back to it (`"ret"`: the code around
`check_signal` and `usertrapret`), or in a loop that sleeps (`wait4`,
`nanosleep`, `tty`).  An action is the code from one point where the CPU can be
given up to the next, so the whole of `exit` is one action although its wakeup
comes before `ZOMBIE`.  `sleep` is one step because `p->lock` is taken before
the condition's lock is released.  Every signal has its default action here,
which is to end the process, so one signal number stands for all; handlers and
masks belong to a module of their own.  A deadline is kept as the number of ticks
that are `left`.

Bounds: `MaxPid` (pids handed out) and `MaxSleep`.

### Pipe and Channel

`nread` and `nwrite` wrap at `Word` (2^32 in the code), a multiple of the ring
size as in the code.  `lock` is `pi->lock`; its holder moves one byte per step
and any copy may fail.  Processes interleave at the lock, which is more than
one CPU allows, and the lock is what the code relies on.  `CloseRead` and
`CloseWrite` are `pipe_close` at the last close of an end; that no call is under
way through that end is what `FileTable!CallKeepsEnd` establishes.  `Channel` is
the promise: bytes come out once and in order, end-of-file only when the queue is
empty and no writer is left, EPIPE only when no reader is left.  The refinement
mapping reads the queue off the ring between the two counters.

Bound: `MaxSize` of one call.

### FileTable

All pointers that own a reference are in one function, `ptr`: descriptors,
mappings and the locals of a call that has a file in hand.  Calls that touch
several files (`pipe2` and its undo, `dup3`, `fork`, `exec`, `exit`) are several
steps, with `pc` between them, and other processes interleave.  `openat` holds
its inode in `want` until a file takes it over.  A read or write under way
(`io`) has no reference of its own, as in the code.  `filedup` and `fileclose` on
a file without references are panics in the code; the actions have no such step,
and `RefsCounted` shows that it is never missed.

Bounds: `NFILE`, `NOFILE`, `NVMA`, `Pipes`, `Nodes`, all tiny so that tables
fill up.

### BlockCache and BlockStore

`lru` is the linked list as a sequence.  `bget` is atomic (under `bcache_lock`);
`acquiresleep`, the disk transfer, `releasesleep` and the final decrement are
steps of their own.  The clients are abstracted to what they do with buffers: take
blocks in the order double indirect, indirect, bitmap or data (`bmap`, `itrunc`),
change a block and write it through at once, release.  `itrunc` also clears words
of an indirect block without writing it; the block is freed right after, so no
reader can tell.  When no buffer is free, `bget` returns 0 and `bread` uses it:
the model stops there.  `BlockStore` is the promise: a block has contents and at
most one owner, and only the owner changes it.

Bounds: `NNUM`, `NBLOCK`, `MaxHeld` (the code holds up to three).

### VirtioBlk

A buffer is named after the process whose request it is.  `next`, `addr`,
`free_desc_idx`, `buffer` and the two rings are the structures of the driver;
`devIdx`, `working`, `raise` and `isr` are the device, modelled from what the
driver relies on: it takes avail entries in order, finishes them in any order,
writes the used ring, then raises its interrupt.  Ring indices wrap at `Word`
(2^16).  The handler's acknowledgement, each used entry, its last look at the ring
and its return are separate steps, between which the device goes on.
`MCVirtioBlk!View` identifies states that differ only in ring slots outside the
live window, and in flags of processes outside a call; all of those are written
before they are read.

### Cow and PrivateMemory

`pg`, `wr`, `cow` are the leaf entries of the page tables (page, `PTE_W`,
`PTE_COW`) at `<<process, address>>`; `free` and `refcnt` are the allocator's;
`mem` is what a page holds.  An address space has the image at 0, heap pages up to
`heap_top`, and the addresses of `mmap`, one page each.  Nothing here gives up the
CPU except the read of a file page or of a program, before anything is mapped, so a
call is one step.  `mmap` areas are anonymous and writable, or of a file and
read-only; an anonymous read-only area behaves as the latter.  The stack is left out
(as the heap, but present from the start); page-table pages are not counted, and that
the allocator may fail to deliver one is `ForkENOMEM(p, np, k)`, at any page `k`.
When a fault finds no free page the process gets SIGSEGV, which is `Proc!PageFault`
and changes nothing here.

A failed fork is modelled with what it leaves behind: the pages before `k` stay
copy-on-write in the parent, page `k` loses `PTE_COW`, and `freeproc` unmaps what the
*previous* process in the slot had below `heap_top` (the layout is copied after
`uvmcopy`), so references may leak.  Counts are therefore bounded below by mappings
(`MappedNotFree`), not equal to them.  `MaxRef` bounds such leaks.

`PrivateMemory` is the promise: each process has its own memory, only a store of its
own into something it has mapped changes contents it keeps, what it maps anew is
zero or the file, and a child starts with its parent's memory.  The refinement
mapping reads a page that is not present as what its fault will bring.
`MCCow!View` leaves out the count of free pages, which `kalloc` sets.

Bounds: `NHEAP`, `NMAP`, `MaxRef`.

## 3. Runs

| Run | Instance | Shows |
|---|---|---|
| `proc_safety` | 3 slots, 4 pids, sleeps of up to 1 tick | types, `OneRunning`, `NoLostChildExit`, `ParentCanReap`, `PidsDistinct`, `SleepersReachable`, `OnlyParentReaps` |
| `proc_liveness` | 3 slots, 3 pids | `RunnableRuns`, `NanosleepEnds`, `ChildExitEndsWait` |
| `proc_init_wait` | 4 slots, 4 pids | **violated**: `WaitEndsAtChildExit` |
| `pipe_safety` | 3 symmetric processes, ring of 2, counters modulo 4, 2 byte values | types, `RingBound`, `SleepersHaveReason`, refinement of `Channel` |
| `pipe_liveness` | 2 processes, calls of up to 3 bytes | `EndsReleased`, `NotBothStuck` |
| `file_table` | 2 processes, 2 files, 2 descriptors, 1 mapping, 1 pipe, 1 inode | types, `RefsCounted`, `PipeEnds`, `InodesCounted`, `DeadHoldNothing`, `CallKeepsEnd` |
| `block_cache` | 2 processes, 2 buffers, 3 blocks, 2 contents | types, `OneCopy`, `RefsCounted`, `WrittenThrough`, `SleepersHaveReason`, refinement of `BlockStore`, `SleepersWoken` |
| `block_cache_pool` | as above | **violated**: `BreadReturns` |
| `virtio_queue` | 3 symmetric processes, 8 descriptors (two left over), indices modulo 16 | types, `DescsConserved`, `UsedIsValid`, `DoneIsMoved`, `SleepersHaveReason` |
| `virtio_liveness` | 3 processes, 7 descriptors (one left over), indices modulo 14 | `RequestsReturn` |
| `cow` | 2 processes, 3 symmetric pages, image and one heap page, one page for mmap | types, `MappedNotFree`, `WritableIsPrivate`, `LayoutCovers`, refinement of `PrivateMemory` |
| `cow_remap` | as above | **violated**: `NeverRemaps` |

Why the bounds are enough to meet the interesting cases: with three slots a
process has a parent, a sibling or child, and a slot is reused when four pids are
handed out; a grandchild left to init needs a fourth slot.  The ring fills and
empties and both counters wrap; two readers or two writers compete for the third
process's wakeup.  Two files make the table full as soon as a pipe is open.  Two
buffers for three blocks force evictions and an empty pool.  Three requests on
seven or eight descriptors make the third wait, once with one free descriptor and
once with two; the two remainders need separate instances.  Three pages for two
processes with up to three each run out all the time, and a child can be forked again
into a slot whose layout is stale.

Deadlock is not checked where the system may stop for good: all processes may
exit (`file_table`), both ends of a pipe may be closed, the null buffer ends
the block cache, and a panic ends `Cow`.

### Fairness

* `Proc`: weak fairness of the scheduler loop and of kernel code (nothing but
  interrupts stops them), strong fairness of the timer: a tick that falls into a
  stretch with interrupts off stays pending and is taken at the next point where
  they are on.  User code is not fair: a process may loop for ever.
* `Pipe`: weak fairness of a call that can go on, strong fairness of taking
  `pi->lock`, which on one CPU is always free when a process runs.
* `BlockCache`: calls and the disk go on; a client gives back the block it took
  first at some time (file-system code does not loop for ever).  There is no
  fairness of acquiring: `releasesleep` does not hand the lock over, so a newcomer
  may overtake a woken sleeper again and again.  `SleepersWoken` therefore claims
  only that a sleeper is woken.
* `VirtioBlk`: the device serves what it was told of, its interrupt is taken,
  and a woken process finishes.  Waiting for descriptors is not claimed to end, for
  the same reason as above.

## 4. Where the code and its comments disagree

* `proc_init_wait`: `exit` gives its children to `proc[0]` and then wakes only its
  own parent (`kernel/core/proc.c:358-367`).  If one of the children is already a
  zombie and `proc[0]` sleeps in `wait4`, nothing wakes it until a child of its own
  exits.  For every other process the wakeup cannot be lost (`NoLostChildExit`,
  proved).
* `block_cache_pool`: `bread` uses the null pointer `bget` returns when all buffers
  are referenced; 32 buffers serve 64 processes.
* `cow_remap`: the page-fault arm of `usertrap` does not ask whether the page is
  present.  A store to a page of a read-only mapping that was read before goes to
  `handle_vma_fault`, which maps it once more, and `mappages` panics with "remap".
  The same happens on the heap to the page at which a fork failed, if that page was
  copy-on-write: `uvmcopy` takes `PTE_COW` away without giving `PTE_W` back.

Without a run of their own: `pipe_write` returns `-EFAULT` where its comment promises
0 (`kernel/core/pipe.c:152`); `uvmfree` "completely clears" a page table, but after a
failed fork goes by the layout of the slot's previous process; read-only pages become
writable through `handle_cow_fault` after a fork.

Also, `bget`'s comment says its caller holds no buffer lock; `bmap` and `itrunc`
hold indirect blocks when they call it.  The order in which they do keeps this free
of deadlock, which is what `SleepersWoken` checks.

## 5. Proofs

`ProcProofs` proves, for every number of slots, pids, sleep lengths and every
set of signals (`ProcAssumption`): `TypeCorrect`, `MutualExclusion`,
`ChildExitNeverLost`, `NoOrphans`, `PidsUnique`, `ZombiesReapedByParent`.  The
inductive invariant `IInv` adds to the properties that

* the scheduler's index stands at the running process (`ScanAtCurr`), without
  which `sched` could leave `scan` anywhere;
* `proc[0]` is in use and has no parent (`InitKept`), so that reparenting always
  finds it and `wait4` never frees it;
* sleepers are on the channel their wakers use (`SleepersReachable`), which is
  why the wakeup in `exit` reaches a parent in `wait4`.

Each property has a step lemma with one case per action, and `StepIInv` combines
them.

`PipeProofs` proves, for every set of processes, ring size and counter width that
is a larger multiple of the ring size (`PipeAssumption`, `NoOneAssumption`):
`TypeCorrect`, `RingNeverOverrun`, `NoLostWakeup`.  `SleepersHaveReason` speaks of
states in which the lock is free; to be inductive it needs `SleepReasons`: while the
lock is held, a sleeper without a reason is about to be woken by the holder, who is
past the point of changing the ring and before its wakeup.  `LockExcludes` says
that there is one holder.

Only model-checked: the three refinements, all liveness properties (fairness is out
of the prover's reach), and everything about `FileTable`, `BlockCache`,
`VirtioBlk` and `Cow` so far.

## 6. Plan

In this order; each step is a module with its runs, then its theorems.

1. `Proc`, `Pipe`, `FileTable`, `BlockCache`, `VirtioBlk`, `Cow`: done.
2. `Signal`: masks, pending sets, handler frames, sigreturn, exec's reset.
3. `InodeCache`: get/put, reuse and loading under the inode lock; then `EasyFsAlloc`:
   bitmap and inode allocation with the buffers released between steps, bmap and
   itrunc; abstract specification: a map from files to disjoint block sets.
4. `Mmap`: areas and ranges; `Slab`: the three lists; path normalisation as a pure
   function against a reference.
5. `Tty` with the UART ring, `Seip` (M-mode forwarding), `Exec`, `Tmpfs`.
6. Proofs: `FileTable` (`RefsCounted`, `PipeEnds`), `BlockCache` (`OneCopy`,
   `RefsCounted`, `WrittenThrough`), `VirtioBlk` (`UsedIsValid`), `Cow`; the three
   refinements step by step.

## 7. Not modelled, and why

Planned parts are named above.  Not planned: boot code, trap and context-switch
assembly, interrupt controllers and transports (straight-line register sequences),
`printf` and string helpers (no state), the Rust bridge, the ext4 reader (decodes
disk structures and changes nothing), the LoongArch port (the same protocols on other
registers), `mkfs` and the user programs (clients).  Spin locks other than a pipe's
are not variables: on one CPU they only keep interrupts off, which the actions
express by being atomic.
