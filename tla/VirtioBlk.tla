----------------------------- MODULE VirtioBlk ------------------------------
(***************************************************************************)
(* The request queue of the block driver (virtio_blk.c): processes in      *)
(* virtio_disk_rw, the device, and the interrupt handler.  Whoever holds   *)
(* blk_lock on the one CPU runs on to its next sleep or release, so a      *)
(* process's step is what it does from one to the next; the device works   *)
(* at any time, also between the handler's steps.  A process is in at most *)
(* one call, with a buffer it has locked, so buffers are named after it.   *)
(***************************************************************************)
EXTENDS Integers, FiniteSets

CONSTANTS
  Procs,   \* processes
  NUM,     \* size of the queue, 64 in the code
  Word     \* the ring indices are uint16: 2^16 in the code

ASSUME VirtioAssumption ==
  /\ NUM \in Nat /\ NUM >= 3
  /\ Word \in Nat /\ Word > NUM /\ Word % NUM = 0
  /\ IsFiniteSet(Procs)

Descs == 0 .. NUM - 1
End == NUM      \* 0xff in the code, which is no descriptor either
NoBuf == "no buffer"

ASSUME NoBufAssumption == NoBuf \notin Procs

VARIABLES
  next, addr,              \* vq.desc: links, and the buffers of the data descriptors
  free_desc_idx,           \* head of the free list
  buffer,                  \* info[].buffer
  avail, availIdx,         \* vq.avail
  used, usedIdx,           \* vq.used
  lastUsed,                \* last_used_idx
  devIdx, working, raise,  \* the device: heads taken, being served, interrupt due
  isr,                     \* its interrupt status
  handler,                 \* where the handler is
  pc, head, done,          \* the processes; done is the buffer's
  moved                    \* 1 when the device has made the transfer of a call

descVars == <<next, addr, free_desc_idx>>
devVars == <<used, usedIdx, devIdx, working, raise, isr>>
vars == <<descVars, buffer, avail, availIdx, devVars, lastUsed, handler, pc, head, done, moved>>
-----------------------------------------------------------------------------
(* virtio_disk_init, init_free_desc_list *)
Init ==
  /\ next = [d \in Descs |-> d + 1]
  /\ addr = [d \in Descs |-> NoBuf]
  /\ free_desc_idx = 0
  /\ buffer = [d \in Descs |-> NoBuf]
  /\ avail = [k \in Descs |-> 0] /\ availIdx = 0
  /\ used = [k \in Descs |-> 0] /\ usedIdx = 0
  /\ lastUsed = 0
  /\ devIdx = 0 /\ working = {} /\ raise = 0 /\ isr = 0
  /\ handler = "off"
  /\ pc = [p \in Procs |-> "idle"]
  /\ head = [p \in Procs |-> End]
  /\ done = [p \in Procs |-> 0]
  /\ moved = [p \in Procs |-> 0]

(* A process gets blk_lock when the handler does not have it. *)
Runs(p, where) == handler = "off" /\ pc[p] \in where

Second == next[free_desc_idx]
Third == next[Second]
TwoFree == free_desc_idx # End /\ Second # End
ThreeFree == TwoFree /\ Third # End

(* virtio_disk_rw: take three descriptors, chain them and put the first in *)
(* the avail ring ...                                                      *)
Fill(p) ==
  /\ Runs(p, {"idle", "retry"}) /\ ThreeFree
  /\ free_desc_idx' = next[Third]
  /\ next' = [next EXCEPT ![Third] = End]
  /\ addr' = [addr EXCEPT ![Second] = p]
  /\ buffer' = [buffer EXCEPT ![free_desc_idx] = p]
  /\ avail' = [avail EXCEPT ![availIdx % NUM] = free_desc_idx]
  /\ head' = [head EXCEPT ![p] = free_desc_idx]
  /\ moved' = [moved EXCEPT ![p] = 0]
  /\ UNCHANGED <<devVars, lastUsed, handler>>

(* Operators named X_Y, here and below, are faulty variants of X that the  *)
(* properties at the end are tested against; the model does not use them.  *)
Submit_DoneKept(p) ==
  /\ Fill(p)
  /\ availIdx' = (availIdx + 1) % Word
  /\ pc' = [pc EXCEPT ![p] = IF done[p] = 1 THEN "woken" ELSE "asleep"]
  /\ UNCHANGED done

(* ... publish it, notify the device and sleep on the buffer. *)
Submit(p) ==
  /\ Fill(p)
  /\ availIdx' = (availIdx + 1) % Word
  /\ done' = [done EXCEPT ![p] = 0]
  /\ pc' = [pc EXCEPT ![p] = "asleep"]

(* alloc3_desc fails: what it took is put back, two descriptors in the     *)
(* other order, and the process sleeps on free_desc_idx.                   *)
SubmitNone_OnePutBack(p) ==
  /\ Runs(p, {"idle", "retry"}) /\ ~ThreeFree
  /\ free_desc_idx' = IF TwoFree THEN Second ELSE free_desc_idx
  /\ pc' = [pc EXCEPT ![p] = "starved"]
  /\ UNCHANGED <<next, addr, buffer, avail, availIdx, devVars, lastUsed, handler, head, done, moved>>

SubmitNone(p) ==
  /\ Runs(p, {"idle", "retry"}) /\ ~ThreeFree
  /\ free_desc_idx' = IF TwoFree THEN Second ELSE free_desc_idx
  /\ next' = IF TwoFree
             THEN [next EXCEPT ![free_desc_idx] = End, ![Second] = free_desc_idx]
             ELSE next
  /\ pc' = [pc EXCEPT ![p] = "starved"]
  /\ UNCHANGED <<addr, buffer, avail, availIdx, devVars, lastUsed, handler, head, done, moved>>

WakeStarved(pcs) == [q \in Procs |-> IF pcs[q] = "starved" THEN "retry" ELSE pcs[q]]

(* free_chain returns the descriptors one after the other to the free list *)
(* ...                                                                     *)
FreeChain(p) ==
  LET h == head[p]
      d == next[h]
      s == next[d]
  IN  /\ Runs(p, {"woken"}) /\ done[p] = 1
      /\ buffer' = [buffer EXCEPT ![h] = NoBuf]
      /\ next' = [next EXCEPT ![h] = free_desc_idx, ![d] = h, ![s] = d]
      /\ addr' = [addr EXCEPT ![d] = NoBuf]
      /\ free_desc_idx' = s
      /\ head' = [head EXCEPT ![p] = End]
      /\ UNCHANGED <<avail, availIdx, devVars, lastUsed, handler, done, moved>>

(* ... and wakes who waits for some; virtio_disk_rw returns. *)
Finish(p) == FreeChain(p) /\ pc' = [WakeStarved(pc) EXCEPT ![p] = "idle"]
-----------------------------------------------------------------------------
(* The device (external) takes the next published head ... *)
DevTake ==
  /\ devIdx # availIdx
  /\ working' = working \cup {avail[devIdx % NUM]}
  /\ devIdx' = (devIdx + 1) % Word
  /\ UNCHANGED <<descVars, buffer, avail, availIdx, used, usedIdx, raise, isr, lastUsed,
                 handler, pc, head, done, moved>>

(* ... makes the transfer its chain describes, in any order with others,   *)
(* reports it in the used ring ...                                         *)
DevComplete(h) ==
  /\ h \in working
  /\ working' = working \ {h}
  /\ moved' = [p \in Procs |-> IF addr[next[h]] = p THEN 1 ELSE moved[p]]
  /\ used' = [used EXCEPT ![usedIdx % NUM] = h]
  /\ usedIdx' = (usedIdx + 1) % Word
  /\ raise' = 1
  /\ UNCHANGED <<descVars, buffer, avail, availIdx, devIdx, isr, lastUsed, handler, pc, head, done>>

(* ... and then asks for an interrupt. *)
DevRaise ==
  /\ raise = 1
  /\ raise' = 0 /\ isr' = 1
  /\ UNCHANGED <<descVars, buffer, avail, availIdx, used, usedIdx, devIdx, working, lastUsed,
                 handler, pc, head, done, moved>>
-----------------------------------------------------------------------------
(* virtio_blk_irq_handler: acknowledge first ... *)
IrqAck ==
  /\ handler = "off" /\ isr = 1
  /\ isr' = 0
  /\ handler' = "loop"
  /\ UNCHANGED <<descVars, buffer, avail, availIdx, used, usedIdx, devIdx, working, raise,
                 lastUsed, pc, head, done, moved>>

WakeOwner(b) == [p \in Procs |-> IF p = b /\ pc[p] = "asleep" THEN "woken" ELSE pc[p]]

IrqUsed_Twice ==
  LET b == buffer[used[lastUsed % NUM]]
  IN  /\ handler = "loop" /\ lastUsed # usedIdx
      /\ done' = [p \in Procs |-> IF p = b THEN 1 ELSE done[p]]
      /\ pc' = WakeOwner(b)
      /\ handler' = "exit"
      /\ UNCHANGED <<descVars, buffer, avail, availIdx, devVars, lastUsed, head, moved>>

(* ... then, for every new entry of the used ring, mark the buffer done    *)
(* and wake its process ...                                                *)
IrqUsed ==
  LET b == buffer[used[lastUsed % NUM]]
  IN  /\ handler = "loop" /\ lastUsed # usedIdx
      /\ done' = [p \in Procs |-> IF p = b THEN 1 ELSE done[p]]
      /\ pc' = WakeOwner(b)
      /\ lastUsed' = (lastUsed + 1) % Word
      /\ UNCHANGED <<descVars, buffer, avail, availIdx, devVars, handler, head, moved>>

(* ... until it has seen them all ... *)
IrqExit ==
  /\ handler = "loop" /\ lastUsed = usedIdx
  /\ handler' = "exit"
  /\ UNCHANGED <<descVars, buffer, avail, availIdx, devVars, lastUsed, pc, head, done, moved>>

IrqReturn_Acks ==
  /\ handler = "exit"
  /\ handler' = "off"
  /\ isr' = 0
  /\ UNCHANGED <<descVars, buffer, avail, availIdx, used, usedIdx, devIdx, working, raise,
                 lastUsed, pc, head, done, moved>>

(* ... and release blk_lock. *)
IrqReturn ==
  /\ handler = "exit"
  /\ handler' = "off"
  /\ UNCHANGED <<descVars, buffer, avail, availIdx, devVars, lastUsed, pc, head, done, moved>>

Irq == IrqAck \/ IrqUsed \/ IrqExit \/ IrqReturn
Device == DevTake \/ DevRaise

Next ==
  \/ \E p \in Procs : Submit(p) \/ SubmitNone(p) \/ Finish(p)
  \/ Device \/ \E h \in Descs : DevComplete(h)
  \/ Irq

Spec == Init /\ [][Next]_vars

(* The device serves what it was told of, the interrupt is taken (the      *)
(* scheduler and user mode run with interrupts on) and woken processes run *)
(* once the handler is out of the way.                                     *)
FairSpec ==
  /\ Spec
  /\ WF_vars(Device) /\ WF_vars(Irq)
  /\ \A p \in Procs : /\ WF_vars(\E h \in Descs : buffer[h] = p /\ DevComplete(h))
                      /\ SF_vars(Finish(p))
-----------------------------------------------------------------------------
TypeOK ==
  /\ next \in [Descs -> Descs \cup {End}] /\ addr \in [Descs -> Procs \cup {NoBuf}]
  /\ free_desc_idx \in Descs \cup {End}
  /\ buffer \in [Descs -> Procs \cup {NoBuf}]
  /\ avail \in [Descs -> Descs] /\ used \in [Descs -> Descs]
  /\ {availIdx, usedIdx, lastUsed, devIdx} \subseteq 0 .. Word - 1
  /\ working \subseteq Descs
  /\ raise \in {0, 1} /\ isr \in {0, 1}
  /\ handler \in {"off", "loop", "exit"}
  /\ pc \in [Procs -> {"idle", "starved", "retry", "asleep", "woken"}]
  /\ head \in [Procs -> Descs \cup {End}]
  /\ done \in [Procs -> {0, 1}] /\ moved \in [Procs -> {0, 1}]

InCall == {p \in Procs : pc[p] \in {"asleep", "woken"}}
Chain(p) == {head[p], next[head[p]], next[next[head[p]]]}

(* The n-th free descriptor, from 0; End after the last. *)
FreeList ==
  LET f[n \in 0 .. NUM] ==
        IF n = 0 THEN free_desc_idx ELSE IF f[n - 1] = End THEN End ELSE next[f[n - 1]]
  IN  f
Free == {FreeList[n] : n \in 0 .. NUM} \ {End}

(* No descriptor leaks or is in two places: the free list ends, the chains *)
(* of the calls have three descriptors each, all apart, and together they  *)
(* are the queue.                                                          *)
DescsConserved ==
  /\ FreeList[NUM] = End
  /\ \A p \in InCall : Cardinality(Chain(p)) = 3 /\ Chain(p) \cap Free = {}
  /\ \A p, q \in InCall : p # q => Chain(p) \cap Chain(q) = {}
  /\ Cardinality(Free) + 3 * Cardinality(InCall) = NUM

(* What the device has reported and the handler has not seen. *)
Unseen == {used[(lastUsed + k) % NUM] : k \in 0 .. ((usedIdx - lastUsed) % Word) - 1}

(* The handler never meets its panic("invalid used descriptor"): what is   *)
(* in the used ring has a buffer, of a process that still waits.           *)
UsedIsValid == \A h \in Unseen : buffer[h] \in Procs /\ pc[buffer[h]] = "asleep"

(* virtio_disk_rw returns only after the transfer of its own buffer. *)
DoneIsMoved == \A p \in InCall : done[p] = 1 => moved[p] = 1

(* No lost wakeup: a sleeper's buffer is not done, and who sleeps for      *)
(* descriptors could not have three.                                       *)
SleepersHaveReason ==
  \A p \in Procs : /\ pc[p] = "asleep" => done[p] = 0
                   /\ pc[p] = "starved" => ~ThreeFree

(* No completion is missed between the acknowledgement, the handler's last *)
(* look at the ring and the next interrupt: a request that was submitted   *)
(* comes back.                                                             *)
RequestsReturn == \A p \in Procs : p \in InCall ~> p \notin InCall
=============================================================================
