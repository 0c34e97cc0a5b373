----------------------------- MODULE BlockCache -----------------------------
(***************************************************************************)
(* The buffer cache (block_cache.c) over its sleeplocks (sleeplock.c) and  *)
(* over virtio_disk_rw, which here is a transfer the device makes at some  *)
(* moment between the call and its return.                                 *)
(*                                                                         *)
(* The clients are the file systems: a process takes blocks, changes one   *)
(* and writes it through before it does anything else, and gives them      *)
(* back.  One that holds a block takes another only further down: double   *)
(* indirect, indirect, then bitmap or data (bmap, itrunc); the numbers of  *)
(* Blocks stand for that order.                                            *)
(***************************************************************************)
EXTENDS Integers, Sequences, FiniteSets

CONSTANTS
  Procs,     \* processes
  NNUM,      \* number of buffers, 32 in the code
  NBLOCK,    \* bound: blocks of the disk
  Data,      \* what a block can hold
  MaxHeld    \* bound: blocks one process holds at a time

ASSUME BlockCacheAssumption ==
  /\ NNUM \in Nat \ {0} /\ NBLOCK \in Nat \ {0} /\ MaxHeld \in Nat
  /\ IsFiniteSet(Procs)

Bufs == 1 .. NNUM
Blocks == 0 .. NBLOCK - 1
NoBuf == 0
NoOne == "no one"

ASSUME NoOneAssumption == NoOne \notin Procs

Places == {"run", "acquire", "asleep", "locked", "read", "valid", "write",
           "drop", "null"}

VARIABLES
  blkno, valid, refcnt, data,   \* struct buf
  lock,     \* buf_lock: its holder, or NoOne
  lru,      \* the list, from head.next to head.prev
  disk,     \* the blocks on the disk
  pc,       \* where each process is
  at,       \* the buffer of the call it is in
  held      \* the buffers it holds between calls

bufVars == <<blkno, valid, refcnt, data, lock, lru>>
vars == <<bufVars, disk, pc, at, held>>
-----------------------------------------------------------------------------
(* binit.  The structures start as zeros, so each claims to be block 0. *)
Init ==
  /\ blkno = [b \in Bufs |-> 0]
  /\ valid = [b \in Bufs |-> 0]
  /\ refcnt = [b \in Bufs |-> 0]
  /\ data \in {[b \in Bufs |-> d] : d \in Data}
  /\ lock = [b \in Bufs |-> NoOne]
  /\ lru = [i \in Bufs |-> NNUM + 1 - i]
  /\ disk \in [Blocks -> Data]
  /\ pc = [p \in Procs |-> "run"]
  /\ at = [p \in Procs |-> NoBuf]
  /\ held = [p \in Procs |-> {}]

Goto(p, where) == pc' = [pc EXCEPT ![p] = where]

(* Operators named X_Y, here and below, are faulty variants of X that the  *)
(* properties at the end are tested against; the model does not use them.  *)
MayAsk_AnyOrder(p, k) ==
  /\ pc[p] = "run"
  /\ Cardinality(held[p]) < MaxHeld
  /\ \A b \in held[p] : blkno[b] # k

(* A client asks for block k. *)
MayAsk(p, k) ==
  /\ pc[p] = "run"
  /\ Cardinality(held[p]) < MaxHeld
  /\ \A b \in held[p] : blkno[b] < k

Hits_ValidOnly(k) == {i \in Bufs : blkno[lru[i]] = k /\ valid[lru[i]] = 1}

(* Positions of the list with block k, and those nobody references. *)
Hits(k) == {i \in Bufs : blkno[lru[i]] = k}
Unused == {i \in Bufs : refcnt[lru[i]] = 0}

(* bget, under bcache_lock: the first buffer of the list with the block ... *)
BgetHit(p, k, i) ==
  /\ MayAsk(p, k)
  /\ i \in Hits(k) /\ \A j \in Hits(k) : i <= j
  /\ refcnt' = [refcnt EXCEPT ![lru[i]] = @ + 1]
  /\ at' = [at EXCEPT ![p] = lru[i]]
  /\ Goto(p, "acquire")
  /\ UNCHANGED <<blkno, valid, data, lock, lru, disk, held>>

(* ... or the last that nobody references, for a new block; dirty is never *)
(* set ...                                                                 *)
BgetMiss(p, k, i) ==
  /\ MayAsk(p, k)
  /\ Hits(k) = {}
  /\ i \in Unused /\ \A j \in Unused : j <= i
  /\ blkno' = [blkno EXCEPT ![lru[i]] = k]
  /\ valid' = [valid EXCEPT ![lru[i]] = 0]
  /\ refcnt' = [refcnt EXCEPT ![lru[i]] = @ + 1]
  /\ at' = [at EXCEPT ![p] = lru[i]]
  /\ Goto(p, "acquire")
  /\ UNCHANGED <<data, lock, lru, disk, held>>

(* ... or none, and bread looks at a null buffer. *)
BgetNone(p, k) ==
  /\ MayAsk(p, k)
  /\ Hits(k) = {} /\ Unused = {}
  /\ Goto(p, "null")
  /\ UNCHANGED <<bufVars, disk, at, held>>

(* acquiresleep: wait while the lock is taken ... *)
AcquireSleep(p) ==
  /\ pc[p] = "acquire" /\ lock[at[p]] # NoOne
  /\ Goto(p, "asleep")
  /\ UNCHANGED <<bufVars, disk, at, held>>

Acquire_NoTest(p) ==
  /\ pc[p] = "acquire"
  /\ lock' = [lock EXCEPT ![at[p]] = p]
  /\ Goto(p, "locked")
  /\ UNCHANGED <<blkno, valid, refcnt, data, lru, disk, at, held>>

(* ... and take it. *)
Acquire(p) ==
  /\ pc[p] = "acquire" /\ lock[at[p]] = NoOne
  /\ lock' = [lock EXCEPT ![at[p]] = p]
  /\ Goto(p, "locked")
  /\ UNCHANGED <<blkno, valid, refcnt, data, lru, disk, at, held>>

Have(p) ==
  /\ held' = [held EXCEPT ![p] = @ \cup {at[p]}]
  /\ at' = [at EXCEPT ![p] = NoBuf]
  /\ Goto(p, "run")

(* bread: the buffer is valid, or it is read from the disk. *)
BreadCached(p) ==
  /\ pc[p] = "locked" /\ valid[at[p]] = 1
  /\ Have(p)
  /\ UNCHANGED <<bufVars, disk>>

BreadStart(p) ==
  /\ pc[p] = "locked" /\ valid[at[p]] = 0
  /\ Goto(p, "read")
  /\ UNCHANGED <<bufVars, disk, at, held>>

(* The device fills the buffer ... *)
DiskRead(p) ==
  /\ pc[p] = "read"
  /\ data' = [data EXCEPT ![at[p]] = disk[blkno[at[p]]]]
  /\ Goto(p, "valid")
  /\ UNCHANGED <<blkno, valid, refcnt, lock, lru, disk, at, held>>

(* ... and bread returns. *)
BreadDone(p) ==
  /\ pc[p] = "valid"
  /\ valid' = [valid EXCEPT ![at[p]] = 1]
  /\ Have(p)
  /\ UNCHANGED <<blkno, refcnt, data, lock, lru, disk>>
-----------------------------------------------------------------------------
(* A client changes a block it holds and calls bwrite ... *)
Update(p, b, d) ==
  /\ pc[p] = "run" /\ b \in held[p]
  /\ data' = [data EXCEPT ![b] = d]
  /\ at' = [at EXCEPT ![p] = b]
  /\ Goto(p, "write")
  /\ UNCHANGED <<blkno, valid, refcnt, lock, lru, disk, held>>

(* ... which returns after the device took the data. *)
DiskWrite(p) ==
  /\ pc[p] = "write"
  /\ disk' = [disk EXCEPT ![blkno[at[p]]] = data[at[p]]]
  /\ at' = [at EXCEPT ![p] = NoBuf]
  /\ Goto(p, "run")
  /\ UNCHANGED <<bufVars, held>>

Wake(b) == [p \in Procs |-> IF pc[p] = "asleep" /\ at[p] = b THEN "acquire" ELSE pc[p]]

(* brelse: releasesleep ... *)
BrelseUnlock(p, b) ==
  /\ pc[p] = "run" /\ b \in held[p]
  /\ lock' = [lock EXCEPT ![b] = NoOne]
  /\ at' = [at EXCEPT ![p] = b]
  /\ held' = [held EXCEPT ![p] = @ \ {b}]
  /\ pc' = [Wake(b) EXCEPT ![p] = "drop"]
  /\ UNCHANGED <<blkno, valid, refcnt, data, lru, disk>>

Others(b) == LET Other(c) == c # b IN SelectSeq(lru, Other)

(* ... then, under bcache_lock, one reference less; a buffer without any   *)
(* becomes the most recently used.                                         *)
BrelseDrop(p) ==
  LET b == at[p]
  IN  /\ pc[p] = "drop"
      /\ refcnt' = [refcnt EXCEPT ![b] = @ - 1]
      /\ lru' = IF refcnt[b] = 1 THEN <<b>> \o Others(b) ELSE lru
      /\ at' = [at EXCEPT ![p] = NoBuf]
      /\ Goto(p, "run")
      /\ UNCHANGED <<blkno, valid, data, lock, disk, held>>
-----------------------------------------------------------------------------
(* What runs on by itself once it began, disk included. *)
Proceed(p) ==
  \/ AcquireSleep(p) \/ Acquire(p) \/ BreadCached(p) \/ BreadStart(p) \/ DiskRead(p) \/ BreadDone(p)
  \/ DiskWrite(p) \/ BrelseDrop(p)

Ask(p) ==
  \E k \in Blocks : BgetNone(p, k) \/ \E i \in Bufs : BgetHit(p, k, i) \/ BgetMiss(p, k, i)

Release(p) == \E b \in Bufs : BrelseUnlock(p, b)
ReleaseFirst(p) ==
  \E b \in Bufs : BrelseUnlock(p, b) /\ \A c \in held[p] : blkno[b] <= blkno[c]

(* A null buffer is the end: the kernel faults. *)
Next ==
  /\ \A p \in Procs : pc[p] # "null"
  /\ \E p \in Procs :
       \/ Ask(p) \/ Proceed(p) \/ Release(p)
       \/ \E b \in Bufs, d \in Data : Update(p, b, d)

Spec == Init /\ [][Next]_vars

(* Processes run on, the disk answers, and no file system code keeps a     *)
(* buffer: the block it took first is given back at last.                  *)
FairSpec ==
  /\ Spec
  /\ \A p \in Procs : WF_vars(Proceed(p)) /\ SF_vars(ReleaseFirst(p))
-----------------------------------------------------------------------------
TypeOK ==
  /\ blkno \in [Bufs -> Blocks] /\ valid \in [Bufs -> {0, 1}]
  /\ refcnt \in [Bufs -> Nat] /\ data \in [Bufs -> Data]
  /\ lock \in [Bufs -> Procs \cup {NoOne}]
  /\ lru \in [Bufs -> Bufs]
  /\ disk \in [Blocks -> Data]
  /\ pc \in [Procs -> Places]
  /\ at \in [Procs -> Bufs \cup {NoBuf}]
  /\ held \in [Procs -> SUBSET Bufs]

Live(b) == refcnt[b] > 0 \/ valid[b] = 1

(* A block has one buffer, however its misses, evictions and the zeroed    *)
(* buffers that claim to be block 0 fall: there are no two copies of it.   *)
OneCopy == \A b, c \in Bufs : Live(b) /\ Live(c) /\ blkno[b] = blkno[c] => b = c

Users(b) == {p \in Procs : at[p] = b /\ pc[p] # "write"} \cup {p \in Procs : b \in held[p]}

(* refcnt counts who has, waits for or is about to drop the buffer, so a   *)
(* buffer in use is never given to another block.                          *)
RefsCounted == \A b \in Bufs : refcnt[b] = Cardinality(Users(b))

(* What nobody has locked is on the disk: evicting it loses nothing. *)
WrittenThrough ==
  \A b \in Bufs : valid[b] = 1 /\ lock[b] = NoOne => data[b] = disk[blkno[b]]

(* releasesleep loses no wakeup: a sleeper's lock is taken. *)
SleepersHaveReason == \A p \in Procs : pc[p] = "asleep" => lock[at[p]] # NoOne

(* The four together: what bget, brelse and bwrite keep of the buffers     *)
(* under every interleaving of the processes with the disk.                *)
CacheConsistent == OneCopy /\ RefsCounted /\ WrittenThrough /\ SleepersHaveReason

Cached(k) == {b \in Bufs : valid[b] = 1 /\ blkno[b] = k}
Content == [k \in Blocks |-> IF Cached(k) = {} THEN disk[k]
                             ELSE data[CHOOSE b \in Cached(k) : TRUE]]
Owned(p) == held[p] \cup {b \in {at[p]} : pc[p] \in {"locked", "read", "valid"}}
Owner == [k \in Blocks |-> IF \E p \in Procs : \E b \in Owned(p) : blkno[b] = k
                           THEN CHOOSE p \in Procs : \E b \in Owned(p) : blkno[b] = k
                           ELSE NoOne]

Store == INSTANCE BlockStore WITH content <- Content, owner <- Owner

(* Readers see what the last holder of the block left, through any mix of  *)
(* hits, misses, evictions and transfers, and holders exclude each other.  *)
IsBlockStore == Store!Spec

(* bread's comment: it returns "a locked buf with the contents of the      *)
(* indicated block".                                                       *)
BreadReturns == \A p \in Procs : pc[p] # "null"

(* Two processes that sleep for each other's blocks would sleep for ever:  *)
(* the order in which the file systems take blocks, and releasesleep's     *)
(* wakeup, see to it that a sleeper is woken, unless the kernel faults on  *)
(* a null buffer first.  (It may find the lock taken again: releasesleep   *)
(* does not hand it over.)                                                 *)
SleepersWoken ==
  \A p \in Procs : pc[p] = "asleep" ~> pc[p] # "asleep" \/ \E q \in Procs : pc[q] = "null"
=============================================================================
