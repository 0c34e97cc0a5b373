----------------------------- MODULE PipeProofs -----------------------------
(***************************************************************************)
(* The safety of Pipe for every set of processes, every buffer size and    *)
(* every counter width that is a larger multiple of it.                    *)
(***************************************************************************)
EXTENDS Pipe, TLAPS

(* Why a sleeper sleeps, also while somebody holds pi->lock: then the      *)
(* holder is on its way to the wakeup.                                     *)
SleepReasons ==
  \A p \in Procs :
    /\ pc[p] = "rSleep" =>
         /\ writable = 1
         /\ ~Empty => readable = 1 /\ \E h \in Procs : lock = h /\ pc[h] \in {"wLoop", "wEnd"}
    /\ pc[p] = "wSleep" =>
         /\ readable = 1
         /\ ~Full => \E h \in Procs : lock = h /\ pc[h] \in {"rCopy", "rEnd"}

(* Only the holder of pi->lock is inside the locked part of a call. *)
LockExcludes == \A p \in Procs : pc[p] \in Holding <=> lock = p

IInv == TypeOK /\ LockExcludes /\ RingBound /\ SleepReasons

(* Arithmetic modulo the counters' width. *)
LEMMA ModSmall ==
  ASSUME NEW w \in Nat, w > 0, NEW x \in 0 .. w - 1
  PROVE  x % w = x
  OBVIOUS

LEMMA ModNegative ==
  ASSUME NEW w \in Nat, w > 0, NEW x \in Int, -w <= x, x < 0
  PROVE  x % w = x + w
  OBVIOUS

LEMMA ModSelf ==
  ASSUME NEW w \in Nat, w > 0
  PROVE  w % w = 0
  OBVIOUS

LEMMA Sizes ==
  /\ PIPE_BUF_SIZE \in Nat /\ PIPE_BUF_SIZE > 0
  /\ Word \in Nat /\ Word > PIPE_BUF_SIZE
  /\ MaxSize \in Nat
  BY PipeAssumption

LEMMA ModInc ==
  ASSUME NEW x \in 0 .. Word - 1
  PROVE  (x + 1) % Word = IF x + 1 = Word THEN 0 ELSE x + 1
<1>1. CASE x + 1 = Word
  BY <1>1, ModSelf, Sizes
<1>2. CASE x + 1 # Word
  <2>1. x + 1 \in 0 .. Word - 1
    BY <1>2, Sizes
  <2> QED BY <1>2, <2>1, ModSmall, Sizes
<1> QED BY <1>1, <1>2

Distance(r, w) == IF w >= r THEN w - r ELSE w - r + Word

LEMMA ModDistance ==
  ASSUME NEW r \in 0 .. Word - 1, NEW w \in 0 .. Word - 1
  PROVE  (w - r) % Word = Distance(r, w)
<1>1. CASE w >= r
  <2>1. w - r \in 0 .. Word - 1
    BY <1>1, Sizes
  <2> QED BY <1>1, <2>1, ModSmall, Sizes DEF Distance
<1>2. CASE w < r
  <2>1. w - r \in Int /\ -Word <= w - r /\ w - r < 0
    BY <1>2, Sizes
  <2> QED BY <1>2, <2>1, ModNegative, Sizes DEF Distance
<1> QED BY <1>1, <1>2

LEMMA IncStays ==
  ASSUME NEW x \in 0 .. Word - 1
  PROVE  (x + 1) % Word \in 0 .. Word - 1
  BY ModInc, Sizes

LEMMA Slot ==
  ASSUME NEW x \in 0 .. Word - 1
  PROVE  x % PIPE_BUF_SIZE \in 0 .. PIPE_BUF_SIZE - 1
  BY Sizes

LEMMA OneMore ==
  ASSUME NEW f \in [Procs -> 0 .. MaxSize], NEW p \in Procs, NEW n \in 0 .. MaxSize,
         f[p] < n
  PROVE  [f EXCEPT ![p] = @ + 1] \in [Procs -> 0 .. MaxSize]
<1>1. f[p] + 1 \in 0 .. MaxSize
  BY Sizes
<1> QED BY <1>1

USE NoOneAssumption

(* The steps of Next, with the two ways out of each call put together. *)
LEMMA NextCases ==
  ASSUME Next
  PROVE  \/ \E p \in Procs, n \in 1 .. MaxSize : ReadCall(p, n)
         \/ \E p \in Procs, n \in 0 .. MaxSize : WriteCall(p, n)
         \/ \E p \in Procs : ReadAcquire(p)
         \/ \E p \in Procs : WriteAcquire(p)
         \/ \E p \in Procs : ReadStart(p)
         \/ \E p \in Procs : ReadSleep(p)
         \/ \E p \in Procs : ReadByte(p)
         \/ \E p \in Procs : ReadFault(p)
         \/ \E p \in Procs, r \in Outcomes :
              pc[p] \in {"rCopy", "rEnd"} /\ Leave(p, WakeWriters(pc), r)
         \/ \E p \in Procs, r \in Outcomes :
              pc[p] = "wLoop" /\ readable = 0 /\ Leave(p, pc, r)
         \/ \E p \in Procs : WriteSleep(p)
         \/ \E p \in Procs, b \in Bytes : WriteByte(p, b)
         \/ \E p \in Procs : WriteFault(p)
         \/ \E p \in Procs, r \in Outcomes :
              pc[p] \in {"wLoop", "wEnd"} /\ Leave(p, WakeReaders(pc), r)
         \/ CloseRead
         \/ CloseWrite
<1>1. ASSUME NEW p \in Procs, ReadReturn(p)
      PROVE  \E r \in Outcomes :
               pc[p] \in {"rCopy", "rEnd"} /\ Leave(p, WakeWriters(pc), r)
  BY <1>1 DEF ReadReturn, Outcomes
<1>2. ASSUME NEW p \in Procs, WriteReturn(p)
      PROVE  \E r \in Outcomes :
               pc[p] \in {"wLoop", "wEnd"} /\ Leave(p, WakeReaders(pc), r)
  BY <1>2 DEF WriteReturn, Outcomes
<1>3. ASSUME NEW p \in Procs, WriteEPIPE(p)
      PROVE  \E r \in Outcomes : pc[p] = "wLoop" /\ readable = 0 /\ Leave(p, pc, r)
  BY <1>3 DEF WriteEPIPE, Outcomes
<1> QED BY <1>1, <1>2, <1>3 DEF Next, Work

(* Every step keeps the types. *)
LEMMA TypeStep ==
  ASSUME TypeOK, Next
  PROVE  TypeOK'
<1> USE DEF TypeOK, Places, Outcomes
<1>1. ASSUME NEW p \in Procs, NEW n \in 1 .. MaxSize, ReadCall(p, n)
     PROVE  TypeOK'
  <2>1. n \in 0 .. MaxSize
    BY Sizes
  <2> QED BY <1>1, <2>1 DEF ReadCall, Goto, pipeVars
<1>2. ASSUME NEW p \in Procs, NEW n \in 0 .. MaxSize, WriteCall(p, n)
     PROVE  TypeOK'
  BY <1>2 DEF WriteCall, Goto, pipeVars
<1>3. ASSUME NEW p \in Procs, ReadAcquire(p)
     PROVE  TypeOK'
  BY <1>3 DEF ReadAcquire, Acquire, Goto, pipeVars
<1>4. ASSUME NEW p \in Procs, WriteAcquire(p)
     PROVE  TypeOK'
  BY <1>4 DEF WriteAcquire, Acquire, Goto, pipeVars
<1>5. ASSUME NEW p \in Procs, ReadStart(p)
     PROVE  TypeOK'
  BY <1>5 DEF ReadStart, Goto, pipeVars
<1>6. ASSUME NEW p \in Procs, ReadSleep(p)
     PROVE  TypeOK'
  BY <1>6 DEF ReadSleep, Goto, pipeVars
<1>7. ASSUME NEW p \in Procs, ReadByte(p)
     PROVE  TypeOK'
  <2>1. nread' \in 0 .. Word - 1
    BY <1>7, IncStays DEF ReadByte
  <2>2. byte' \in [Procs -> Bytes]
    BY <1>7, Slot DEF ReadByte
  <2>3. i' \in [Procs -> 0 .. MaxSize]
    BY <1>7, OneMore DEF ReadByte
  <2> QED BY <1>7, <2>1, <2>2, <2>3 DEF ReadByte
<1>8. ASSUME NEW p \in Procs, ReadFault(p)
     PROVE  TypeOK'
  BY <1>8 DEF ReadFault, Goto, pipeVars
<1>9. ASSUME NEW p \in Procs, NEW r \in Outcomes, pc[p] \in {"rCopy", "rEnd"},
             Leave(p, WakeWriters(pc), r)
     PROVE  TypeOK'
  <2>1. 0 \in 0 .. MaxSize
    BY Sizes
  <2>2. size' \in [Procs -> 0 .. MaxSize] /\ i' \in [Procs -> 0 .. MaxSize]
    BY <1>9, <2>1 DEF Leave
  <2>3. pc' \in [Procs -> Places]
    BY <1>9 DEF Leave, WakeWriters, Wake
  <2>4. lock' \in Procs \cup {NoOne} /\ res' \in [Procs -> Outcomes]
    BY <1>9 DEF Leave
  <2>5. UNCHANGED <<buf, nread, nwrite, readable, writable, byte>>
    BY <1>9 DEF Leave, pipeVars
  <2> QED BY <2>2, <2>3, <2>4, <2>5
<1>10. ASSUME NEW p \in Procs, NEW r \in Outcomes, pc[p] = "wLoop", readable = 0,
             Leave(p, pc, r)
     PROVE  TypeOK'
  <2>1. 0 \in 0 .. MaxSize
    BY Sizes
  <2>2. size' \in [Procs -> 0 .. MaxSize] /\ i' \in [Procs -> 0 .. MaxSize]
    BY <1>10, <2>1 DEF Leave
  <2>3. pc' \in [Procs -> Places]
    BY <1>10 DEF Leave
  <2>4. lock' \in Procs \cup {NoOne} /\ res' \in [Procs -> Outcomes]
    BY <1>10 DEF Leave
  <2>5. UNCHANGED <<buf, nread, nwrite, readable, writable, byte>>
    BY <1>10 DEF Leave, pipeVars
  <2> QED BY <2>2, <2>3, <2>4, <2>5
<1>11. ASSUME NEW p \in Procs, WriteSleep(p)
     PROVE  TypeOK'
  BY <1>11 DEF WriteSleep, WakeReaders, Wake, pipeVars
<1>12. ASSUME NEW p \in Procs, NEW b \in Bytes, WriteByte(p, b)
     PROVE  TypeOK'
  <2>1. nwrite' \in 0 .. Word - 1
    BY <1>12, IncStays DEF WriteByte
  <2>2. buf' \in [0 .. PIPE_BUF_SIZE - 1 -> Bytes]
    BY <1>12, Slot DEF WriteByte
  <2>3. i' \in [Procs -> 0 .. MaxSize]
    BY <1>12, OneMore DEF WriteByte
  <2> QED BY <1>12, <2>1, <2>2, <2>3 DEF WriteByte
<1>13. ASSUME NEW p \in Procs, WriteFault(p)
     PROVE  TypeOK'
  BY <1>13 DEF WriteFault, Goto, pipeVars
<1>14. ASSUME NEW p \in Procs, NEW r \in Outcomes, pc[p] \in {"wLoop", "wEnd"},
             Leave(p, WakeReaders(pc), r)
     PROVE  TypeOK'
  <2>1. 0 \in 0 .. MaxSize
    BY Sizes
  <2>2. size' \in [Procs -> 0 .. MaxSize] /\ i' \in [Procs -> 0 .. MaxSize]
    BY <1>14, <2>1 DEF Leave
  <2>3. pc' \in [Procs -> Places]
    BY <1>14 DEF Leave, WakeReaders, Wake
  <2>4. lock' \in Procs \cup {NoOne} /\ res' \in [Procs -> Outcomes]
    BY <1>14 DEF Leave
  <2>5. UNCHANGED <<buf, nread, nwrite, readable, writable, byte>>
    BY <1>14 DEF Leave, pipeVars
  <2> QED BY <2>2, <2>3, <2>4, <2>5
<1>15. ASSUME CloseRead
     PROVE  TypeOK'
  BY <1>15 DEF CloseRead, WakeWriters, Wake, pipeVars
<1>16. ASSUME CloseWrite
     PROVE  TypeOK'
  BY <1>16 DEF CloseWrite, WakeReaders, Wake, pipeVars
<1> HIDE DEF TypeOK, Places, Outcomes
<1> QED BY <1>1, <1>2, <1>3, <1>4, <1>5, <1>6, <1>7, <1>8, <1>9, <1>10, <1>11,
  <1>12, <1>13, <1>14, <1>15, <1>16, NextCases

(* acquire lets in one process at a time. *)
LEMMA LockStep ==
  ASSUME TypeOK, LockExcludes, Next
  PROVE  LockExcludes'
<1> USE DEF TypeOK, LockExcludes, Holding
<1>1. ASSUME NEW p \in Procs, NEW n \in 1 .. MaxSize, ReadCall(p, n)
     PROVE  LockExcludes'
  BY <1>1 DEF ReadCall, Goto, pipeVars
<1>2. ASSUME NEW p \in Procs, NEW n \in 0 .. MaxSize, WriteCall(p, n)
     PROVE  LockExcludes'
  BY <1>2 DEF WriteCall, Goto, pipeVars
<1>3. ASSUME NEW p \in Procs, ReadAcquire(p)
     PROVE  LockExcludes'
  BY <1>3 DEF ReadAcquire, Acquire, Goto, pipeVars
<1>4. ASSUME NEW p \in Procs, WriteAcquire(p)
     PROVE  LockExcludes'
  BY <1>4 DEF WriteAcquire, Acquire, Goto, pipeVars
<1>5. ASSUME NEW p \in Procs, ReadStart(p)
     PROVE  LockExcludes'
  BY <1>5 DEF ReadStart, Goto, pipeVars
<1>6. ASSUME NEW p \in Procs, ReadSleep(p)
     PROVE  LockExcludes'
  BY <1>6 DEF ReadSleep, Goto, pipeVars
<1>7. ASSUME NEW p \in Procs, ReadByte(p)
     PROVE  LockExcludes'
  BY <1>7 DEF ReadByte, pipeVars
<1>8. ASSUME NEW p \in Procs, ReadFault(p)
     PROVE  LockExcludes'
  BY <1>8 DEF ReadFault, Goto, pipeVars
<1>9. ASSUME NEW p \in Procs, NEW r \in Outcomes, pc[p] \in {"rCopy", "rEnd"},
             Leave(p, WakeWriters(pc), r)
     PROVE  LockExcludes'
  BY <1>9 DEF Leave, WakeWriters, Wake, pipeVars
<1>10. ASSUME NEW p \in Procs, NEW r \in Outcomes, pc[p] = "wLoop", readable = 0,
             Leave(p, pc, r)
     PROVE  LockExcludes'
  BY <1>10 DEF Leave, pipeVars
<1>11. ASSUME NEW p \in Procs, WriteSleep(p)
     PROVE  LockExcludes'
  BY <1>11 DEF WriteSleep, WakeReaders, Wake, pipeVars
<1>12. ASSUME NEW p \in Procs, NEW b \in Bytes, WriteByte(p, b)
     PROVE  LockExcludes'
  BY <1>12 DEF WriteByte, pipeVars
<1>13. ASSUME NEW p \in Procs, WriteFault(p)
     PROVE  LockExcludes'
  BY <1>13 DEF WriteFault, Goto, pipeVars
<1>14. ASSUME NEW p \in Procs, NEW r \in Outcomes, pc[p] \in {"wLoop", "wEnd"},
             Leave(p, WakeReaders(pc), r)
     PROVE  LockExcludes'
  BY <1>14 DEF Leave, WakeReaders, Wake, pipeVars
<1>15. ASSUME CloseRead
     PROVE  LockExcludes'
  BY <1>15 DEF CloseRead, WakeWriters, Wake, pipeVars
<1>16. ASSUME CloseWrite
     PROVE  LockExcludes'
  BY <1>16 DEF CloseWrite, WakeReaders, Wake, pipeVars
<1> HIDE DEF TypeOK, LockExcludes, Holding
<1> QED BY <1>1, <1>2, <1>3, <1>4, <1>5, <1>6, <1>7, <1>8, <1>9, <1>10, <1>11,
  <1>12, <1>13, <1>14, <1>15, <1>16, NextCases

LEMMA UsedKept ==
  ASSUME RingBound, UNCHANGED <<nread, nwrite>>
  PROVE  RingBound'
  BY DEF RingBound, Used

(* A byte is added only below the bound, and counters wrap together. *)
LEMMA RingStep ==
  ASSUME TypeOK, TypeOK', RingBound, Next
  PROVE  RingBound'
<1>r. /\ nread \in 0 .. Word - 1 /\ nwrite \in 0 .. Word - 1
      /\ nread' \in 0 .. Word - 1 /\ nwrite' \in 0 .. Word - 1
  BY DEF TypeOK
<1>d. /\ Distance(nread, nwrite) <= PIPE_BUF_SIZE
      /\ Distance(nread', nwrite') <= PIPE_BUF_SIZE => RingBound'
  BY <1>r, ModDistance DEF RingBound, Used
<1>1. ASSUME NEW p \in Procs, NEW n \in 1 .. MaxSize, ReadCall(p, n)
     PROVE  RingBound'
  BY <1>1, UsedKept DEF ReadCall, Goto, pipeVars
<1>2. ASSUME NEW p \in Procs, NEW n \in 0 .. MaxSize, WriteCall(p, n)
     PROVE  RingBound'
  BY <1>2, UsedKept DEF WriteCall, Goto, pipeVars
<1>3. ASSUME NEW p \in Procs, ReadAcquire(p)
     PROVE  RingBound'
  BY <1>3, UsedKept DEF ReadAcquire, Acquire, Goto, pipeVars
<1>4. ASSUME NEW p \in Procs, WriteAcquire(p)
     PROVE  RingBound'
  BY <1>4, UsedKept DEF WriteAcquire, Acquire, Goto, pipeVars
<1>5. ASSUME NEW p \in Procs, ReadStart(p)
     PROVE  RingBound'
  BY <1>5, UsedKept DEF ReadStart, Goto, pipeVars
<1>6. ASSUME NEW p \in Procs, ReadSleep(p)
     PROVE  RingBound'
  BY <1>6, UsedKept DEF ReadSleep, Goto, pipeVars
<1>7. ASSUME NEW p \in Procs, ReadByte(p)
     PROVE  RingBound'
  <2>1. nread' = IF nread + 1 = Word THEN 0 ELSE nread + 1
    BY <1>7, <1>r, ModInc DEF ReadByte
  <2>2. nwrite' = nwrite /\ nread # nwrite
    BY <1>7 DEF ReadByte, Empty
  <2>3. Distance(nread', nwrite') <= Distance(nread, nwrite)
    BY <1>r, <2>1, <2>2, Sizes DEF Distance
  <2>4. Distance(nread, nwrite) \in Int /\ Distance(nread', nwrite') \in Int
    BY <1>r, Sizes DEF Distance
  <2> QED BY <1>d, <2>3, <2>4, Sizes
<1>8. ASSUME NEW p \in Procs, ReadFault(p)
     PROVE  RingBound'
  BY <1>8, UsedKept DEF ReadFault, Goto, pipeVars
<1>9. ASSUME NEW p \in Procs, NEW r \in Outcomes, pc[p] \in {"rCopy", "rEnd"},
             Leave(p, WakeWriters(pc), r)
     PROVE  RingBound'
  BY <1>9, UsedKept DEF Leave, WakeWriters, Wake, pipeVars
<1>10. ASSUME NEW p \in Procs, NEW r \in Outcomes, pc[p] = "wLoop", readable = 0,
             Leave(p, pc, r)
     PROVE  RingBound'
  BY <1>10, UsedKept DEF Leave, pipeVars
<1>11. ASSUME NEW p \in Procs, WriteSleep(p)
     PROVE  RingBound'
  BY <1>11, UsedKept DEF WriteSleep, WakeReaders, Wake, pipeVars
<1>12. ASSUME NEW p \in Procs, NEW b \in Bytes, WriteByte(p, b)
     PROVE  RingBound'
  <2>1. nwrite' = IF nwrite + 1 = Word THEN 0 ELSE nwrite + 1
    BY <1>12, <1>r, ModInc DEF WriteByte
  <2>2. nread' = nread /\ ~Full
    BY <1>12 DEF WriteByte
  <2>3. Distance(nread, nwrite) < PIPE_BUF_SIZE
    BY <1>r, <2>2, ModDistance, Sizes DEF Full, Used, Distance
  <2>4. Distance(nread', nwrite') <= PIPE_BUF_SIZE
    BY <1>r, <2>1, <2>2, <2>3, Sizes DEF Distance
  <2> QED BY <1>d, <2>4
<1>13. ASSUME NEW p \in Procs, WriteFault(p)
     PROVE  RingBound'
  BY <1>13, UsedKept DEF WriteFault, Goto, pipeVars
<1>14. ASSUME NEW p \in Procs, NEW r \in Outcomes, pc[p] \in {"wLoop", "wEnd"},
             Leave(p, WakeReaders(pc), r)
     PROVE  RingBound'
  BY <1>14, UsedKept DEF Leave, WakeReaders, Wake, pipeVars
<1>15. ASSUME CloseRead
     PROVE  RingBound'
  BY <1>15, UsedKept DEF CloseRead, WakeWriters, Wake, pipeVars
<1>16. ASSUME CloseWrite
     PROVE  RingBound'
  BY <1>16, UsedKept DEF CloseWrite, WakeReaders, Wake, pipeVars
<1> QED BY <1>1, <1>2, <1>3, <1>4, <1>5, <1>6, <1>7, <1>8, <1>9, <1>10, <1>11,
  <1>12, <1>13, <1>14, <1>15, <1>16, NextCases

(* The holder of pi->lock wakes whom it gave a reason to run. *)
LEMMA SleepStep ==
  ASSUME TypeOK, LockExcludes, SleepReasons, Next
  PROVE  SleepReasons'
<1> USE DEF TypeOK, LockExcludes, Holding, SleepReasons, Empty, Full, Used
<1>1. ASSUME NEW p \in Procs, NEW n \in 1 .. MaxSize, ReadCall(p, n)
     PROVE  SleepReasons'
  BY <1>1 DEF ReadCall, Goto, pipeVars
<1>2. ASSUME NEW p \in Procs, NEW n \in 0 .. MaxSize, WriteCall(p, n)
     PROVE  SleepReasons'
  BY <1>2 DEF WriteCall, Goto, pipeVars
<1>3. ASSUME NEW p \in Procs, ReadAcquire(p)
     PROVE  SleepReasons'
  BY <1>3 DEF ReadAcquire, Acquire, Goto, pipeVars
<1>4. ASSUME NEW p \in Procs, WriteAcquire(p)
     PROVE  SleepReasons'
  BY <1>4 DEF WriteAcquire, Acquire, Goto, pipeVars
<1>5. ASSUME NEW p \in Procs, ReadStart(p)
     PROVE  SleepReasons'
  BY <1>5 DEF ReadStart, Goto, pipeVars
<1>6. ASSUME NEW p \in Procs, ReadSleep(p)
     PROVE  SleepReasons'
  BY <1>6 DEF ReadSleep, Goto, pipeVars
<1>7. ASSUME NEW p \in Procs, ReadByte(p)
     PROVE  SleepReasons'
  BY <1>7 DEF ReadByte, pipeVars
<1>8. ASSUME NEW p \in Procs, ReadFault(p)
     PROVE  SleepReasons'
  BY <1>8 DEF ReadFault, Goto, pipeVars
<1>9. ASSUME NEW p \in Procs, NEW r \in Outcomes, pc[p] \in {"rCopy", "rEnd"},
             Leave(p, WakeWriters(pc), r)
     PROVE  SleepReasons'
  BY <1>9 DEF Leave, WakeWriters, Wake, pipeVars
<1>10. ASSUME NEW p \in Procs, NEW r \in Outcomes, pc[p] = "wLoop", readable = 0,
             Leave(p, pc, r)
     PROVE  SleepReasons'
  BY <1>10 DEF Leave, pipeVars
<1>11. ASSUME NEW p \in Procs, WriteSleep(p)
     PROVE  SleepReasons'
  BY <1>11 DEF WriteSleep, WakeReaders, Wake, pipeVars
<1>12. ASSUME NEW p \in Procs, NEW b \in Bytes, WriteByte(p, b)
     PROVE  SleepReasons'
  BY <1>12 DEF WriteByte, pipeVars
<1>13. ASSUME NEW p \in Procs, WriteFault(p)
     PROVE  SleepReasons'
  BY <1>13 DEF WriteFault, Goto, pipeVars
<1>14. ASSUME NEW p \in Procs, NEW r \in Outcomes, pc[p] \in {"wLoop", "wEnd"},
             Leave(p, WakeReaders(pc), r)
     PROVE  SleepReasons'
  BY <1>14 DEF Leave, WakeReaders, Wake, pipeVars
<1>15. ASSUME CloseRead
     PROVE  SleepReasons'
  BY <1>15 DEF CloseRead, WakeWriters, Wake, pipeVars
<1>16. ASSUME CloseWrite
     PROVE  SleepReasons'
  BY <1>16 DEF CloseWrite, WakeReaders, Wake, pipeVars
<1> HIDE DEF TypeOK, LockExcludes, Holding, SleepReasons, Empty, Full, Used
<1> QED BY <1>1, <1>2, <1>3, <1>4, <1>5, <1>6, <1>7, <1>8, <1>9, <1>10, <1>11,
  <1>12, <1>13, <1>14, <1>15, <1>16, NextCases

LEMMA InitIInv == Init => IInv
<1> SUFFICES ASSUME Init PROVE IInv
  OBVIOUS
<1>1. TypeOK
  <2>1. /\ size \in [Procs -> 0 .. MaxSize] /\ i \in [Procs -> 0 .. MaxSize]
        /\ nread \in 0 .. Word - 1 /\ nwrite \in 0 .. Word - 1
    BY Sizes DEF Init
  <2>2. pc \in [Procs -> Places] /\ res \in [Procs -> Outcomes]
    BY DEF Init, Places, Outcomes
  <2>3. /\ buf \in [0 .. PIPE_BUF_SIZE - 1 -> Bytes] /\ byte \in [Procs -> Bytes]
        /\ readable \in {0, 1} /\ writable \in {0, 1}
        /\ lock \in Procs \cup {NoOne}
    BY DEF Init
  <2> QED BY <2>1, <2>2, <2>3 DEF TypeOK
<1>2. lock = NoOne /\ pc = [p \in Procs |-> "idle"]
  BY DEF Init
<1>3. LockExcludes /\ SleepReasons
  BY <1>2 DEF LockExcludes, Holding, SleepReasons
<1>4. RingBound
  BY ModSmall, Sizes DEF Init, RingBound, Used
<1> QED BY <1>1, <1>3, <1>4 DEF IInv

LEMMA StepIInv == IInv /\ [Next]_vars => IInv'
<1>1. ASSUME IInv, Next PROVE IInv'
  BY <1>1, TypeStep, LockStep, RingStep, SleepStep DEF IInv
<1>2. ASSUME IInv, UNCHANGED vars PROVE IInv'
  BY <1>2 DEF IInv, TypeOK, LockExcludes, RingBound, SleepReasons, Empty, Full, Used,
     vars, pipeVars
<1> QED BY <1>1, <1>2

LEMMA IInvariant == Spec => []IInv
  BY InitIInv, StepIInv, PTL DEF Spec

(* The counters, flags and locals of pipe.c keep their ranges. *)
THEOREM TypeCorrect == Spec => []TypeOK
  BY IInvariant, PTL DEF IInv

(* pipe_write never overruns the ring, whatever the counters' width. *)
THEOREM RingNeverOverrun == Spec => []RingBound
  BY IInvariant, PTL DEF IInv

(* pipe_read, pipe_write and pipe_close lose no wakeup. *)
THEOREM NoLostWakeup == Spec => []SleepersHaveReason
<1>1. IInv => SleepersHaveReason
  BY DEF IInv, SleepReasons, SleepersHaveReason
<1> QED BY <1>1, IInvariant, PTL
=============================================================================
