-------------------------------- MODULE Pipe --------------------------------
(***************************************************************************)
(* One pipe (kernel/core/pipe.c) and the processes that read, write and    *)
(* close it.  pi->lock is a spinlock: its holder runs on in the model as   *)
(* in the code, byte by byte, while the others wait to acquire it.  sleep  *)
(* gives up the lock and the CPU in one step, since the process lock is    *)
(* taken before pi->lock is released.                                      *)
(***************************************************************************)
EXTENDS Integers, Sequences

CONSTANTS
  Procs,           \* processes with an open end
  Bytes,           \* what a byte can be
  PIPE_BUF_SIZE,   \* 512 in the code
  Word,            \* the counters are uint32: 2^32 in the code
  MaxSize          \* bound: the longest read or write

ASSUME PipeAssumption ==
  /\ PIPE_BUF_SIZE \in Nat \ {0}
  /\ Word \in Nat /\ Word > PIPE_BUF_SIZE
  /\ Word % PIPE_BUF_SIZE = 0
  /\ MaxSize \in Nat
  /\ Bytes # {}

NoOne == "no one"

ASSUME NoOneAssumption == NoOne \notin Procs

VARIABLES
  buf, nread, nwrite, readable, writable,   \* struct pipe
  lock,                                     \* holder of pi->lock, or NoOne
  pc,      \* where each process is
  size,    \* the size argument of its call
  i,       \* bytes moved by the call so far
  byte,    \* the last byte copied out to the process
  res      \* the outcome of its last call

pipeVars == <<buf, nread, nwrite, readable, writable>>
vars == <<pipeVars, lock, pc, size, i, byte, res>>

(* "r...": in pipe_read, "w...": in pipe_write; Acq waits for pi->lock,    *)
(* Sleep is asleep, the others hold the lock.                              *)
Places == {"idle", "rAcq", "rWait", "rSleep", "rCopy", "rEnd",
           "wAcq", "wLoop", "wSleep", "wEnd"}
Reading == {"rAcq", "rWait", "rSleep", "rCopy", "rEnd"}
Writing == {"wAcq", "wLoop", "wSleep", "wEnd"}
Holding == {"rWait", "rCopy", "rEnd", "wLoop", "wEnd"}
Outcomes == {"none", "count", "EOF", "EPIPE", "EFAULT"}

(* Operators named X_Y, here and below, are faulty variants of X that the  *)
(* properties at the end are tested against; the model does not use them.  *)

(* nwrite - nread in uint32 arithmetic *)
Used == (nwrite - nread) % Word
Empty == nread = nwrite

Full == Used >= PIPE_BUF_SIZE
-----------------------------------------------------------------------------
(* pipe_alloc: what was in the buffer's memory is arbitrary. *)
Init ==
  /\ buf \in [0 .. PIPE_BUF_SIZE - 1 -> Bytes]
  /\ nread = 0 /\ nwrite = 0
  /\ readable = 1 /\ writable = 1
  /\ lock = NoOne
  /\ pc = [p \in Procs |-> "idle"]
  /\ size = [p \in Procs |-> 0]
  /\ i = [p \in Procs |-> 0]
  /\ byte \in [Procs -> Bytes]
  /\ res = [p \in Procs |-> "none"]

Goto(p, where) == pc' = [pc EXCEPT ![p] = where]

(* acquire(&pi->lock), the first time or again on the way out of sleep. *)
Acquire(p, from, to) ==
  /\ pc[p] = from /\ lock = NoOne
  /\ lock' = p
  /\ Goto(p, to)
  /\ UNCHANGED <<pipeVars, size, i, byte, res>>

(* wakeup(&pi->nread) and wakeup(&pi->nwrite), seen by the sleepers. *)
Wake(pcs, asleep, awake) ==
  [q \in Procs |-> IF pcs[q] = asleep THEN awake ELSE pcs[q]]
WakeReaders(pcs) == Wake(pcs, "rSleep", "rAcq")
WakeWriters(pcs) == Wake(pcs, "wSleep", "wAcq")

(* A call begins: the caller holds an open file for that end. *)
ReadCall(p, n) ==
  /\ pc[p] = "idle" /\ readable = 1
  /\ Goto(p, "rAcq")
  /\ size' = [size EXCEPT ![p] = n]
  /\ res' = [res EXCEPT ![p] = "none"]
  /\ UNCHANGED <<pipeVars, lock, i, byte>>

WriteCall(p, n) ==
  /\ pc[p] = "idle" /\ writable = 1
  /\ Goto(p, "wAcq")
  /\ size' = [size EXCEPT ![p] = n]
  /\ res' = [res EXCEPT ![p] = "none"]
  /\ UNCHANGED <<pipeVars, lock, i, byte>>

(* release(&pi->lock) and return r, after wakeup where there is one; the  *)
(* locals go with the call.                                               *)
Leave(p, pcs, r) ==
  /\ lock' = NoOne
  /\ pc' = [pcs EXCEPT ![p] = "idle"]
  /\ res' = [res EXCEPT ![p] = r]
  /\ size' = [size EXCEPT ![p] = 0]
  /\ i' = [i EXCEPT ![p] = 0]
  /\ UNCHANGED <<pipeVars, byte>>
-----------------------------------------------------------------------------
ReadAcquire(p) == Acquire(p, "rAcq", "rWait")

(* pipe_read: nothing to read yet. *)
ReadSleep(p) ==
  /\ pc[p] = "rWait" /\ Empty /\ writable = 1
  /\ lock' = NoOne
  /\ Goto(p, "rSleep")
  /\ UNCHANGED <<pipeVars, size, i, byte, res>>

ReadStart_NoWait(p) ==
  /\ pc[p] = "rWait"
  /\ Goto(p, "rCopy")
  /\ UNCHANGED <<pipeVars, lock, size, i, byte, res>>

ReadStart(p) ==
  /\ pc[p] = "rWait" /\ ~(Empty /\ writable = 1)
  /\ Goto(p, "rCopy")
  /\ UNCHANGED <<pipeVars, lock, size, i, byte, res>>

(* pipe_read: one byte is copied out. *)
ReadByte(p) ==
  /\ pc[p] = "rCopy" /\ i[p] < size[p] /\ ~Empty
  /\ byte' = [byte EXCEPT ![p] = buf[nread % PIPE_BUF_SIZE]]
  /\ nread' = (nread + 1) % Word
  /\ i' = [i EXCEPT ![p] = @ + 1]
  /\ UNCHANGED <<buf, nwrite, readable, writable, lock, pc, size, res>>

(* pipe_read: copyout fails, and what was read before decides the outcome. *)
ReadFault(p) ==
  /\ pc[p] = "rCopy" /\ i[p] < size[p] /\ ~Empty
  /\ Goto(p, "rEnd")
  /\ UNCHANGED <<pipeVars, lock, size, i, byte, res>>

ReadReturn_NoWakeup(p) ==
  \/ /\ pc[p] = "rCopy" /\ (i[p] = size[p] \/ Empty)
     /\ Leave(p, pc, IF i[p] > 0 THEN "count" ELSE "EOF")
  \/ /\ pc[p] = "rEnd"
     /\ Leave(p, pc, IF i[p] > 0 THEN "count" ELSE "EFAULT")

(* pipe_read: the end, in every case with a wakeup of the writers. *)
ReadReturn(p) ==
  \/ /\ pc[p] = "rCopy" /\ (i[p] = size[p] \/ Empty)
     /\ Leave(p, WakeWriters(pc), IF i[p] > 0 THEN "count" ELSE "EOF")
  \/ /\ pc[p] = "rEnd"
     /\ Leave(p, WakeWriters(pc), IF i[p] > 0 THEN "count" ELSE "EFAULT")
-----------------------------------------------------------------------------
WriteAcquire(p) == Acquire(p, "wAcq", "wLoop")

(* pipe_write: nobody can read any more; no wakeup on this way out. *)
WriteEPIPE(p) ==
  /\ pc[p] = "wLoop" /\ i[p] < size[p] /\ readable = 0
  /\ Leave(p, pc, IF i[p] > 0 THEN "count" ELSE "EPIPE")

(* pipe_write: no room; wake the readers and sleep. *)
WriteSleep(p) ==
  /\ pc[p] = "wLoop" /\ i[p] < size[p] /\ readable = 1 /\ Full
  /\ lock' = NoOne
  /\ pc' = [WakeReaders(pc) EXCEPT ![p] = "wSleep"]
  /\ UNCHANGED <<pipeVars, size, i, byte, res>>

(* pipe_write: one byte is copied in. *)
WriteByte(p, b) ==
  /\ pc[p] = "wLoop" /\ i[p] < size[p] /\ readable = 1 /\ ~Full
  /\ buf' = [buf EXCEPT ![nwrite % PIPE_BUF_SIZE] = b]
  /\ nwrite' = (nwrite + 1) % Word
  /\ i' = [i EXCEPT ![p] = @ + 1]
  /\ UNCHANGED <<nread, readable, writable, lock, pc, size, byte, res>>

(* pipe_write: copyin fails. *)
WriteFault(p) ==
  /\ pc[p] = "wLoop" /\ i[p] < size[p] /\ readable = 1 /\ ~Full
  /\ Goto(p, "wEnd")
  /\ UNCHANGED <<pipeVars, lock, size, i, byte, res>>

(* pipe_write: the end, with a wakeup of the readers. *)
WriteReturn(p) ==
  \/ /\ pc[p] = "wLoop" /\ i[p] = size[p]
     /\ Leave(p, WakeReaders(pc), "count")
  \/ /\ pc[p] = "wEnd"
     /\ Leave(p, WakeReaders(pc), IF i[p] > 0 THEN "count" ELSE "EFAULT")
-----------------------------------------------------------------------------
(* pipe_close, under the lock: the last file of that end goes away, so no  *)
(* call through it is under way (each caller's descriptor holds the file). *)
CloseRead ==
  /\ readable = 1 /\ lock = NoOne
  /\ \A p \in Procs : pc[p] \notin Reading
  /\ readable' = 0
  /\ pc' = WakeWriters(pc)
  /\ UNCHANGED <<buf, nread, nwrite, writable, lock, size, i, byte, res>>

CloseWrite_NoWakeup ==
  /\ writable = 1 /\ lock = NoOne
  /\ \A p \in Procs : pc[p] \notin Writing
  /\ writable' = 0
  /\ UNCHANGED <<buf, nread, nwrite, readable, lock, pc, size, i, byte, res>>

CloseWrite ==
  /\ writable = 1 /\ lock = NoOne
  /\ \A p \in Procs : pc[p] \notin Writing
  /\ writable' = 0
  /\ pc' = WakeReaders(pc)
  /\ UNCHANGED <<buf, nread, nwrite, readable, lock, size, i, byte, res>>

(* Steps of a call that are under way run on by themselves. *)
Work(p) ==
  \/ ReadStart(p) \/ ReadSleep(p) \/ ReadByte(p) \/ ReadReturn(p)
  \/ WriteEPIPE(p) \/ WriteSleep(p) \/ WriteReturn(p)
  \/ \E b \in Bytes : WriteByte(p, b)

Next ==
  \/ \E p \in Procs, n \in 1 .. MaxSize : ReadCall(p, n)
  \/ \E p \in Procs, n \in 0 .. MaxSize : WriteCall(p, n)
  \/ \E p \in Procs : ReadAcquire(p) \/ WriteAcquire(p) \/ Work(p)
                      \/ ReadFault(p) \/ WriteFault(p)
  \/ CloseRead \/ CloseWrite

Spec == Init /\ [][Next]_vars

(* A process that can run does (scheduler); on one CPU nobody finds        *)
(* pi->lock taken, so acquire is not starved either.                       *)
Runs(p) == ReadAcquire(p) \/ WriteAcquire(p) \/ Work(p)

FairSpec == Spec /\ \A p \in Procs : SF_vars(Runs(p))
-----------------------------------------------------------------------------
TypeOK ==
  /\ buf \in [0 .. PIPE_BUF_SIZE - 1 -> Bytes]
  /\ nread \in 0 .. Word - 1 /\ nwrite \in 0 .. Word - 1
  /\ readable \in {0, 1} /\ writable \in {0, 1}
  /\ lock \in Procs \cup {NoOne}
  /\ pc \in [Procs -> Places]
  /\ size \in [Procs -> 0 .. MaxSize]
  /\ i \in [Procs -> 0 .. MaxSize]
  /\ byte \in [Procs -> Bytes]
  /\ res \in [Procs -> Outcomes]

(* The ring never holds more than PIPE_BUF_SIZE bytes, also when the       *)
(* 32-bit counters have wrapped around.                                    *)
RingBound == Used <= PIPE_BUF_SIZE

(* No lost wakeup: while nobody holds pi->lock, a reader sleeps only on an *)
(* empty pipe that can still be written, a writer only on a full pipe that *)
(* can still be read.                                                      *)
SleepersHaveReason ==
  lock = NoOne =>
    \A p \in Procs : /\ pc[p] = "rSleep" => Empty /\ writable = 1
                     /\ pc[p] = "wSleep" => Full /\ readable = 1

(* The bytes in the ring, oldest first. *)
Queue == [k \in 1 .. Used |-> buf[(nread + k - 1) % PIPE_BUF_SIZE]]

Ch == INSTANCE Channel WITH
        Capacity <- PIPE_BUF_SIZE, queue <- Queue, ropen <- readable, wopen <- writable

(* The ring buffer with its wrapping counters, locks and sleeps is a       *)
(* bounded FIFO queue with end-of-file and EPIPE.                          *)
IsChannel == Ch!Spec

(* pipe_close of the last descriptor of an end releases the other end: a   *)
(* read comes back once the writers are gone, with what is left or with    *)
(* end-of-file, and a writer that waits for room once the readers are.     *)
EndsReleased ==
  \A p \in Procs :
    /\ pc[p] \in Reading /\ writable = 0 ~> pc[p] \notin Reading
    /\ pc[p] \in Writing /\ readable = 0 ~> pc[p] \notin Writing
=============================================================================
