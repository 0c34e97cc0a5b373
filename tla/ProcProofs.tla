----------------------------- MODULE ProcProofs -----------------------------
(***************************************************************************)
(* The safety of Proc for every number of slots, every bound on pids and   *)
(* sleeps and every set of signals.                                        *)
(***************************************************************************)
EXTENDS Proc, TLAPS

(* While a process has the CPU the scheduler stands at its slot. *)
ScanAtCurr == curr # NoProc => scan = curr

(* proc[0] is never freed, having no parent to reap it. *)
InitKept == state[InitSlot] # "UNUSED" /\ parent[InitSlot] = NoProc

IInv ==
  /\ TypeOK
  /\ OneRunning
  /\ ScanAtCurr
  /\ InitKept
  /\ SleepersReachable
  /\ ParentCanReap
  /\ PidsDistinct
  /\ NoLostChildExit

USE ProcAssumption DEF Slots, InitSlot, NoProc, NoChan, TimerChan, AnyChild, WNOHANG,
  Pids, States, Places

LEMMA SchedType ==
  ASSUME TypeOK, ScanAtCurr, NEW p \in Slots, curr = p, sched
  PROVE  /\ curr' \in Slots \cup {NoProc}
         /\ scan' \in 0 .. NPROC + 1
         /\ found' \in {0, 1}
  BY DEF TypeOK, ScanAtCurr, sched

LEMMA WakeupType ==
  ASSUME TypeOK, NEW c
  PROVE  wakeup(c) \in [Slots -> States]
  BY DEF TypeOK, wakeup

LEMMA TickType ==
  ASSUME TypeOK, Tick
  PROVE  left' \in [Slots -> 0 .. MaxSleep]
  BY DEF TypeOK, Tick

LEMMA SignalType ==
  ASSUME TypeOK, NEW Q, NEW sig \in Sigs, signal_send(Q, sig)
  PROVE  sig_pending' \in [Slots -> SUBSET Sigs] /\ state' \in [Slots -> States]
<1>1. sig_pending' \in [Slots -> SUBSET Sigs]
  BY DEF TypeOK, signal_send
<1>2. \A r \in Slots : wakeup(chan[r])[r] \in States
  BY WakeupType
<1>3. state' \in [Slots -> States]
  BY <1>2 DEF TypeOK, signal_send
<1> QED BY <1>1, <1>3

LEMMA WfiType ==
  ASSUME TypeOK, LeaveWfi
  PROVE  scan' \in 0 .. NPROC + 1
  BY DEF TypeOK, LeaveWfi

(* Every step keeps the types.  ScanAtCurr is what bounds the scan index. *)
LEMMA TypeStep ==
  ASSUME TypeOK, ScanAtCurr, Next
  PROVE  TypeOK'
<1>1. ASSUME SchedRun
     PROVE  TypeOK'
  <2>1. scan \in Slots
    BY <1>1 DEF SchedRun, TypeOK
  <2> QED BY <1>1, <2>1, Zenon DEF SchedRun, TypeOK, callVars
<1>2. ASSUME SchedSkip
     PROVE  TypeOK'
  <2>1. scan' \in 0 .. NPROC + 1
    BY <1>2 DEF SchedSkip, TypeOK
  <2>2. UNCHANGED <<procVars, callVars, owners, nextpid, curr, found>>
    BY <1>2 DEF SchedSkip
  <2> QED BY <2>1, <2>2, SMTT(30) DEF TypeOK, procVars, callVars
<1>3. ASSUME SchedAgain
     PROVE  TypeOK'
  BY <1>3 DEF SchedAgain, TypeOK, procVars, callVars
<1>4. ASSUME SchedWfi
     PROVE  TypeOK'
  BY <1>4 DEF SchedWfi, TypeOK, procVars, callVars
<1>5. ASSUME TimerKernel
     PROVE  TypeOK'
  BY <1>5, WakeupType, TickType, WfiType, Zenon DEF TimerKernel, TypeOK
<1>6. ASSUME CtrlCKernel
     PROVE  TypeOK'
  BY <1>6, SignalType, WfiType, Zenon DEF CtrlCKernel, terminal_release_input, TypeOK, callVars
<1>7. ASSUME NEW p \in Slots, UserTrapRet(p)
     PROVE  TypeOK'
  BY <1>7, SMTT(30) DEF UserTrapRet, InKernel, TypeOK, callVars, schedVars
<1>8. ASSUME NEW p \in Slots, NEW c \in Slots, Wait4Reap(p, c)
     PROVE  TypeOK'
  <2>1. warg' \in [Slots -> [pid : {AnyChild} \cup Pids, options : {0, WNOHANG}]]
    BY <1>8 DEF Wait4Reap, Wait4Returns, NoWait, TypeOK
  <2>2. sig_pending' \in [Slots -> SUBSET Sigs]
    BY <1>8 DEF Wait4Reap, freeproc, TypeOK
  <2>3. /\ state' \in [Slots -> States]
        /\ pid' \in [Slots -> Pids]
        /\ parent' \in [Slots -> Slots \cup {NoProc}]
    BY <1>8 DEF Wait4Reap, freeproc, TypeOK
  <2> QED BY <1>8, <2>1, <2>2, <2>3, Zenon
          DEF Wait4Reap, Wait4Returns, Return, Awake, TypeOK, schedVars
<1>9. ASSUME NEW p \in Slots, Wait4NoReap(p)
     PROVE  TypeOK'
  BY <1>9, Zenon DEF Wait4NoReap, InKernel, Wait4Returns, Return, Awake, NoWait,
     TypeOK, schedVars
<1>10. ASSUME NEW p \in Slots, Wait4Sleep(p)
     PROVE  TypeOK'
  BY <1>10, SchedType, Zenon DEF Wait4Sleep, sleep, InKernel, TypeOK, callVars
<1>11. ASSUME NEW p \in Slots, NanosleepEnd(p)
     PROVE  TypeOK'
  <2>1. left' \in [Slots -> 0 .. MaxSleep]
    BY <1>11 DEF NanosleepEnd, TypeOK
  <2> QED BY <1>11, <2>1, Zenon DEF NanosleepEnd, Return, Awake, TypeOK, schedVars
<1>12. ASSUME NEW p \in Slots, NanosleepSleep(p)
     PROVE  TypeOK'
  BY <1>12, SchedType, Zenon DEF NanosleepSleep, sleep, InKernel, TypeOK, callVars
<1>13. ASSUME NEW p \in Slots, TtyGot(p)
     PROVE  TypeOK'
  BY <1>13, Zenon DEF TtyGot, InKernel, Return, TypeOK, callVars, schedVars
<1>14. ASSUME NEW p \in Slots, TtyYield(p)
     PROVE  TypeOK'
  BY <1>14, SchedType, Zenon DEF TtyYield, InKernel, TypeOK, callVars
<1>15. ASSUME NEW p \in Slots, ForkEAGAIN(p)
     PROVE  TypeOK'
  BY <1>15, SMTT(30) DEF ForkEAGAIN, InUser, Return, TypeOK, callVars, schedVars
<1>16. ASSUME NEW p \in Slots, ForkENOMEM(p)
     PROVE  TypeOK'
  <2>1. nextpid' \in 2 .. MaxPid + 1
    BY <1>16 DEF ForkENOMEM, get_pid, TypeOK
  <2> QED BY <1>16, <2>1, Zenon DEF ForkENOMEM, Return, TypeOK, callVars, schedVars
<1>17. ASSUME NEW p \in Slots, NEW np \in Slots, Fork(p, np)
     PROVE  TypeOK'
  <2>1. pid' \in [Slots -> Pids] /\ nextpid' \in 2 .. MaxPid + 1
    BY <1>17, SMTT(30) DEF Fork, get_pid, TypeOK
  <2>2. /\ state' \in [Slots -> States]
        /\ parent' \in [Slots -> Slots \cup {NoProc}]
        /\ pc' \in [Slots -> Places]
    BY <1>17, Zenon DEF Fork, TypeOK
  <2>3. sig_pending' \in [Slots -> SUBSET Sigs]
    BY <1>17, SMTT(30) DEF Fork, TypeOK
  <2> QED BY <1>17, <2>1, <2>2, <2>3, Zenon DEF Fork, TypeOK, callVars, schedVars
<1>18. ASSUME NEW p \in Slots, NEW which \in {AnyChild} \cup (1 .. MaxPid),
             NEW options \in {0, WNOHANG}, SysWait4(p, which, options)
     PROVE  TypeOK'
  <2>1. [pid |-> which, options |-> options]
          \in [pid : {AnyChild} \cup Pids, options : {0, WNOHANG}]
    OBVIOUS
  <2>2. warg' \in [Slots -> [pid : {AnyChild} \cup Pids, options : {0, WNOHANG}]]
    BY <1>18, <2>1 DEF SysWait4, TypeOK
  <2> QED BY <1>18, <2>2, Zenon DEF SysWait4, TypeOK, schedVars
<1>19. ASSUME NEW p \in Slots, NEW target \in 1 .. MaxPid, NEW sig \in Sigs,
             Kill(p, target, sig)
     PROVE  TypeOK'
  BY <1>19, Zenon DEF Kill, InUser, Return, signal_send, wakeup, TypeOK, callVars,
     schedVars
<1>20. ASSUME NEW p \in Slots, PageFault(p)
     PROVE  TypeOK'
  BY <1>20, Zenon DEF PageFault, InUser, Return, TypeOK, callVars, schedVars
<1>21. ASSUME NEW p \in Slots, NEW ticks \in 0 .. MaxSleep,
             SysNanosleep(p, ticks)
     PROVE  TypeOK'
  BY <1>21, Zenon DEF SysNanosleep, InUser, TypeOK, schedVars
<1>22. ASSUME NEW p \in Slots, NEW target \in 1 .. MaxPid, ClaimInput(p, target)
     PROVE  TypeOK'
  BY <1>22, Zenon DEF ClaimInput, Return, WithPid, TypeOK, callVars, schedVars
<1>23. ASSUME NEW p \in Slots, SysReadTty(p)
     PROVE  TypeOK'
  BY <1>23, Zenon DEF SysReadTty, InUser, TypeOK, callVars, schedVars
<1>24. ASSUME NEW p \in Slots, TimerUser(p)
     PROVE  TypeOK'
  <2>1. state' \in [Slots -> States]
    BY <1>24, WakeupType DEF TimerUser
  <2> QED BY <1>24, <2>1, TickType, SchedType, Zenon DEF TimerUser, InUser, Return, TypeOK
<1>25. ASSUME NEW p \in Slots, CtrlCUser(p)
     PROVE  TypeOK'
  BY <1>25, SignalType, Zenon DEF CtrlCUser, terminal_release_input, Return, TypeOK, callVars
<1>26. ASSUME NEW p \in Slots, curr = p, exit(p)
     PROVE  TypeOK'
  <2>1. state' \in [Slots -> States]
    BY <1>26, WakeupType DEF exit
  <2>2. parent' \in [Slots -> Slots \cup {NoProc}]
    BY <1>26 DEF exit, TypeOK
  <2>3. pc' \in [Slots -> Places] /\ owners' \subseteq Slots
    BY <1>26, SMTT(30) DEF exit, TypeOK
  <2> QED BY <1>26, <2>1, <2>2, <2>3, SchedType, Zenon DEF exit, TypeOK, callVars
<1> QED BY <1>1, <1>2, <1>3, <1>4, <1>5, <1>6, <1>7, <1>8, <1>9, <1>10, <1>11,
  <1>12, <1>13, <1>14, <1>15, <1>16, <1>17, <1>18, <1>19, <1>20, <1>21, <1>22,
  <1>23, <1>24, <1>25, <1>26
  DEF Next, Scheduler, KernelStep, UserStep, SignalExit, Exit, InUser, InKernel

(* One process runs at a time, and proc[0] stays. *)
LEMMA RunStep ==
  ASSUME TypeOK, ScanAtCurr, OneRunning, InitKept, Next
  PROVE  OneRunning' /\ ScanAtCurr' /\ InitKept'
<1> USE DEF TypeOK, OneRunning, ScanAtCurr, InitKept
<1>1. ASSUME SchedRun
     PROVE  OneRunning' /\ ScanAtCurr' /\ InitKept'
  BY <1>1 DEF SchedRun, callVars
<1>2. ASSUME SchedSkip
     PROVE  OneRunning' /\ ScanAtCurr' /\ InitKept'
  BY <1>2 DEF SchedSkip, procVars, callVars
<1>3. ASSUME SchedAgain
     PROVE  OneRunning' /\ ScanAtCurr' /\ InitKept'
  BY <1>3 DEF SchedAgain, procVars, callVars
<1>4. ASSUME SchedWfi
     PROVE  OneRunning' /\ ScanAtCurr' /\ InitKept'
  BY <1>4 DEF SchedWfi, procVars, callVars
<1>5. ASSUME TimerKernel
     PROVE  OneRunning' /\ ScanAtCurr' /\ InitKept'
  BY <1>5 DEF TimerKernel, SchedInterruptible, wakeup
<1>6. ASSUME CtrlCKernel
     PROVE  OneRunning' /\ ScanAtCurr' /\ InitKept'
  BY <1>6, SMTT(30) DEF CtrlCKernel, SchedInterruptible, terminal_release_input,
     signal_send, wakeup, callVars
<1>7. ASSUME NEW p \in Slots, UserTrapRet(p)
     PROVE  OneRunning' /\ ScanAtCurr' /\ InitKept'
  BY <1>7 DEF UserTrapRet, InKernel, callVars, schedVars
<1>8. ASSUME NEW p \in Slots, NEW c \in Slots, Wait4Reap(p, c)
     PROVE  OneRunning' /\ ScanAtCurr' /\ InitKept'
  BY <1>8 DEF Wait4Reap, InKernel, Wait4Returns, Return, Awake, freeproc,
     Zombies, Children, schedVars
<1>9. ASSUME NEW p \in Slots, Wait4NoReap(p)
     PROVE  OneRunning' /\ ScanAtCurr' /\ InitKept'
  BY <1>9 DEF Wait4NoReap, InKernel, Wait4Returns, Return, Awake, schedVars
<1>10. ASSUME NEW p \in Slots, Wait4Sleep(p)
     PROVE  OneRunning' /\ ScanAtCurr' /\ InitKept'
  BY <1>10 DEF Wait4Sleep, InKernel, sleep, sched, callVars
<1>11. ASSUME NEW p \in Slots, NanosleepEnd(p)
     PROVE  OneRunning' /\ ScanAtCurr' /\ InitKept'
  BY <1>11 DEF NanosleepEnd, InKernel, Return, Awake, schedVars
<1>12. ASSUME NEW p \in Slots, NanosleepSleep(p)
     PROVE  OneRunning' /\ ScanAtCurr' /\ InitKept'
  BY <1>12 DEF NanosleepSleep, InKernel, sleep, sched, callVars
<1>13. ASSUME NEW p \in Slots, TtyGot(p)
     PROVE  OneRunning' /\ ScanAtCurr' /\ InitKept'
  BY <1>13 DEF TtyGot, InKernel, Return, callVars, schedVars
<1>14. ASSUME NEW p \in Slots, TtyYield(p)
     PROVE  OneRunning' /\ ScanAtCurr' /\ InitKept'
  BY <1>14 DEF TtyYield, InKernel, sched, callVars
<1>15. ASSUME NEW p \in Slots, ForkEAGAIN(p)
     PROVE  OneRunning' /\ ScanAtCurr' /\ InitKept'
  BY <1>15 DEF ForkEAGAIN, InUser, Return, callVars, schedVars
<1>16. ASSUME NEW p \in Slots, ForkENOMEM(p)
     PROVE  OneRunning' /\ ScanAtCurr' /\ InitKept'
  BY <1>16 DEF ForkENOMEM, InUser, Return, get_pid, callVars, schedVars
<1>17. ASSUME NEW p \in Slots, NEW np \in Slots, Fork(p, np)
     PROVE  OneRunning' /\ ScanAtCurr' /\ InitKept'
  BY <1>17, SMTT(30) DEF Fork, InUser, alloc_process, get_pid, Free, callVars, schedVars
<1>18. ASSUME NEW p \in Slots, NEW which \in {AnyChild} \cup (1 .. MaxPid),
             NEW options \in {0, WNOHANG}, SysWait4(p, which, options)
     PROVE  OneRunning' /\ ScanAtCurr' /\ InitKept'
  BY <1>18 DEF SysWait4, InUser, schedVars
<1>19. ASSUME NEW p \in Slots, NEW target \in 1 .. MaxPid, NEW sig \in Sigs,
             Kill(p, target, sig)
     PROVE  OneRunning' /\ ScanAtCurr' /\ InitKept'
  BY <1>19 DEF Kill, InUser, Return, signal_send, wakeup, callVars, schedVars
<1>20. ASSUME NEW p \in Slots, PageFault(p)
     PROVE  OneRunning' /\ ScanAtCurr' /\ InitKept'
  BY <1>20 DEF PageFault, InUser, Return, callVars, schedVars
<1>21. ASSUME NEW p \in Slots, NEW ticks \in 0 .. MaxSleep,
             SysNanosleep(p, ticks)
     PROVE  OneRunning' /\ ScanAtCurr' /\ InitKept'
  BY <1>21 DEF SysNanosleep, InUser, schedVars
<1>22. ASSUME NEW p \in Slots, NEW target \in 1 .. MaxPid, ClaimInput(p, target)
     PROVE  OneRunning' /\ ScanAtCurr' /\ InitKept'
  BY <1>22 DEF ClaimInput, InUser, Return, callVars, schedVars
<1>23. ASSUME NEW p \in Slots, SysReadTty(p)
     PROVE  OneRunning' /\ ScanAtCurr' /\ InitKept'
  BY <1>23 DEF SysReadTty, InUser, callVars, schedVars
<1>24. ASSUME NEW p \in Slots, TimerUser(p)
     PROVE  OneRunning' /\ ScanAtCurr' /\ InitKept'
  BY <1>24 DEF TimerUser, InUser, Return, sched, wakeup
<1>25. ASSUME NEW p \in Slots, CtrlCUser(p)
     PROVE  OneRunning' /\ ScanAtCurr' /\ InitKept'
  BY <1>25, SMTT(30) DEF CtrlCUser, InUser, terminal_release_input, signal_send, Return,
     wakeup, callVars
<1>26. ASSUME NEW p \in Slots, curr = p, exit(p)
     PROVE  OneRunning' /\ ScanAtCurr' /\ InitKept'
  BY <1>26 DEF exit, sched, wakeup, callVars
<1> HIDE DEF TypeOK, OneRunning, ScanAtCurr, InitKept
<1> QED BY <1>1, <1>2, <1>3, <1>4, <1>5, <1>6, <1>7, <1>8, <1>9, <1>10, <1>11,
  <1>12, <1>13, <1>14, <1>15, <1>16, <1>17, <1>18, <1>19, <1>20, <1>21, <1>22,
  <1>23, <1>24, <1>25, <1>26
  DEF Next, Scheduler, KernelStep, UserStep, SignalExit, Exit, InUser, InKernel

(* Nobody falls asleep on another channel, and wakers clear no channel. *)
LEMMA SleepersStep ==
  ASSUME TypeOK, OneRunning, SleepersReachable, Next
  PROVE  SleepersReachable'
<1> USE DEF TypeOK, OneRunning, SleepersReachable
<1>1. ASSUME SchedRun
     PROVE  SleepersReachable'
  BY <1>1 DEF SchedRun, callVars
<1>2. ASSUME SchedSkip
     PROVE  SleepersReachable'
  BY <1>2 DEF SchedSkip, procVars, callVars
<1>3. ASSUME SchedAgain
     PROVE  SleepersReachable'
  BY <1>3 DEF SchedAgain, procVars, callVars
<1>4. ASSUME SchedWfi
     PROVE  SleepersReachable'
  BY <1>4 DEF SchedWfi, procVars, callVars
<1>5. ASSUME TimerKernel
     PROVE  SleepersReachable'
  BY <1>5 DEF TimerKernel, SchedInterruptible, wakeup
<1>6. ASSUME CtrlCKernel
     PROVE  SleepersReachable'
  BY <1>6 DEF CtrlCKernel, SchedInterruptible, terminal_release_input,
     signal_send, wakeup, callVars
<1>7. ASSUME NEW p \in Slots, UserTrapRet(p)
     PROVE  SleepersReachable'
  BY <1>7 DEF UserTrapRet, InKernel, callVars, schedVars
<1>8. ASSUME NEW p \in Slots, NEW c \in Slots, Wait4Reap(p, c)
     PROVE  SleepersReachable'
  BY <1>8, SMTT(30) DEF Wait4Reap, InKernel, Wait4Returns, Return, Awake, freeproc,
     schedVars
<1>9. ASSUME NEW p \in Slots, Wait4NoReap(p)
     PROVE  SleepersReachable'
  BY <1>9 DEF Wait4NoReap, InKernel, Wait4Returns, Return, Awake, schedVars
<1>10. ASSUME NEW p \in Slots, Wait4Sleep(p)
     PROVE  SleepersReachable'
  BY <1>10 DEF Wait4Sleep, InKernel, sleep, sched, callVars
<1>11. ASSUME NEW p \in Slots, NanosleepEnd(p)
     PROVE  SleepersReachable'
  BY <1>11 DEF NanosleepEnd, InKernel, Return, Awake, schedVars
<1>12. ASSUME NEW p \in Slots, NanosleepSleep(p)
     PROVE  SleepersReachable'
  BY <1>12 DEF NanosleepSleep, InKernel, sleep, sched, callVars
<1>13. ASSUME NEW p \in Slots, TtyGot(p)
     PROVE  SleepersReachable'
  BY <1>13 DEF TtyGot, InKernel, Return, callVars, schedVars
<1>14. ASSUME NEW p \in Slots, TtyYield(p)
     PROVE  SleepersReachable'
  BY <1>14 DEF TtyYield, InKernel, sched, callVars
<1>15. ASSUME NEW p \in Slots, ForkEAGAIN(p)
     PROVE  SleepersReachable'
  BY <1>15 DEF ForkEAGAIN, InUser, Return, callVars, schedVars
<1>16. ASSUME NEW p \in Slots, ForkENOMEM(p)
     PROVE  SleepersReachable'
  BY <1>16 DEF ForkENOMEM, InUser, Return, get_pid, callVars, schedVars
<1>17. ASSUME NEW p \in Slots, NEW np \in Slots, Fork(p, np)
     PROVE  SleepersReachable'
  BY <1>17, SMTT(30) DEF Fork, InUser, alloc_process, get_pid, Free, callVars, schedVars
<1>18. ASSUME NEW p \in Slots, NEW which \in {AnyChild} \cup (1 .. MaxPid),
             NEW options \in {0, WNOHANG}, SysWait4(p, which, options)
     PROVE  SleepersReachable'
  BY <1>18 DEF SysWait4, InUser, schedVars
<1>19. ASSUME NEW p \in Slots, NEW target \in 1 .. MaxPid, NEW sig \in Sigs,
             Kill(p, target, sig)
     PROVE  SleepersReachable'
  BY <1>19 DEF Kill, InUser, Return, signal_send, wakeup, callVars, schedVars
<1>20. ASSUME NEW p \in Slots, PageFault(p)
     PROVE  SleepersReachable'
  BY <1>20 DEF PageFault, InUser, Return, callVars, schedVars
<1>21. ASSUME NEW p \in Slots, NEW ticks \in 0 .. MaxSleep,
             SysNanosleep(p, ticks)
     PROVE  SleepersReachable'
  BY <1>21 DEF SysNanosleep, InUser, schedVars
<1>22. ASSUME NEW p \in Slots, NEW target \in 1 .. MaxPid, ClaimInput(p, target)
     PROVE  SleepersReachable'
  BY <1>22 DEF ClaimInput, InUser, Return, callVars, schedVars
<1>23. ASSUME NEW p \in Slots, SysReadTty(p)
     PROVE  SleepersReachable'
  BY <1>23 DEF SysReadTty, InUser, callVars, schedVars
<1>24. ASSUME NEW p \in Slots, TimerUser(p)
     PROVE  SleepersReachable'
  BY <1>24 DEF TimerUser, InUser, Return, sched, wakeup
<1>25. ASSUME NEW p \in Slots, CtrlCUser(p)
     PROVE  SleepersReachable'
  BY <1>25 DEF CtrlCUser, InUser, terminal_release_input, signal_send, Return,
     wakeup, callVars
<1>26. ASSUME NEW p \in Slots, curr = p, exit(p)
     PROVE  SleepersReachable'
  BY <1>26, SMTT(30) DEF exit, sched, wakeup, callVars
<1> HIDE DEF TypeOK, OneRunning, SleepersReachable
<1> QED BY <1>1, <1>2, <1>3, <1>4, <1>5, <1>6, <1>7, <1>8, <1>9, <1>10, <1>11,
  <1>12, <1>13, <1>14, <1>15, <1>16, <1>17, <1>18, <1>19, <1>20, <1>21, <1>22,
  <1>23, <1>24, <1>25, <1>26
  DEF Next, Scheduler, KernelStep, UserStep, SignalExit, Exit, InUser, InKernel

(* Reparenting on exit, and reaping of zombies only, keep every parent in use. *)
LEMMA ParentStep ==
  ASSUME TypeOK, OneRunning, InitKept, ParentCanReap, Next
  PROVE  ParentCanReap'
<1> USE DEF TypeOK, OneRunning, InitKept, ParentCanReap
<1>1. ASSUME SchedRun
     PROVE  ParentCanReap'
  BY <1>1 DEF SchedRun, callVars
<1>2. ASSUME SchedSkip
     PROVE  ParentCanReap'
  BY <1>2 DEF SchedSkip, procVars, callVars
<1>3. ASSUME SchedAgain
     PROVE  ParentCanReap'
  BY <1>3 DEF SchedAgain, procVars, callVars
<1>4. ASSUME SchedWfi
     PROVE  ParentCanReap'
  BY <1>4 DEF SchedWfi, procVars, callVars
<1>5. ASSUME TimerKernel
     PROVE  ParentCanReap'
  BY <1>5 DEF TimerKernel, SchedInterruptible, wakeup
<1>6. ASSUME CtrlCKernel
     PROVE  ParentCanReap'
  BY <1>6, Zenon DEF CtrlCKernel, SchedInterruptible, terminal_release_input,
     signal_send, wakeup, callVars
<1>7. ASSUME NEW p \in Slots, UserTrapRet(p)
     PROVE  ParentCanReap'
  BY <1>7 DEF UserTrapRet, InKernel, callVars, schedVars
<1>8. ASSUME NEW p \in Slots, NEW c \in Slots, Wait4Reap(p, c)
     PROVE  ParentCanReap'
  <2>1. state[c] = "ZOMBIE" /\ c # InitSlot
    BY <1>8 DEF Wait4Reap, Zombies, Children, InitKept
  <2>2. \A q \in Slots \ {InitSlot} : state[q] # "UNUSED" => parent[q] # c
    BY <2>1 DEF ParentCanReap
  <2> QED BY <1>8, <2>1, <2>2 DEF Wait4Reap, freeproc, ParentCanReap, TypeOK
<1>9. ASSUME NEW p \in Slots, Wait4NoReap(p)
     PROVE  ParentCanReap'
  BY <1>9 DEF Wait4NoReap, InKernel, Wait4Returns, Return, Awake, schedVars
<1>10. ASSUME NEW p \in Slots, Wait4Sleep(p)
     PROVE  ParentCanReap'
  BY <1>10 DEF Wait4Sleep, InKernel, sleep, sched, callVars
<1>11. ASSUME NEW p \in Slots, NanosleepEnd(p)
     PROVE  ParentCanReap'
  BY <1>11 DEF NanosleepEnd, InKernel, Return, Awake, schedVars
<1>12. ASSUME NEW p \in Slots, NanosleepSleep(p)
     PROVE  ParentCanReap'
  BY <1>12 DEF NanosleepSleep, InKernel, sleep, sched, callVars
<1>13. ASSUME NEW p \in Slots, TtyGot(p)
     PROVE  ParentCanReap'
  BY <1>13 DEF TtyGot, InKernel, Return, callVars, schedVars
<1>14. ASSUME NEW p \in Slots, TtyYield(p)
     PROVE  ParentCanReap'
  BY <1>14 DEF TtyYield, InKernel, sched, callVars
<1>15. ASSUME NEW p \in Slots, ForkEAGAIN(p)
     PROVE  ParentCanReap'
  BY <1>15 DEF ForkEAGAIN, InUser, Return, callVars, schedVars
<1>16. ASSUME NEW p \in Slots, ForkENOMEM(p)
     PROVE  ParentCanReap'
  BY <1>16 DEF ForkENOMEM, InUser, Return, get_pid, callVars, schedVars
<1>17. ASSUME NEW p \in Slots, NEW np \in Slots, Fork(p, np)
     PROVE  ParentCanReap'
  BY <1>17, Zenon DEF Fork, InUser, alloc_process, get_pid, Free, callVars, schedVars
<1>18. ASSUME NEW p \in Slots, NEW which \in {AnyChild} \cup (1 .. MaxPid),
             NEW options \in {0, WNOHANG}, SysWait4(p, which, options)
     PROVE  ParentCanReap'
  BY <1>18 DEF SysWait4, InUser, schedVars
<1>19. ASSUME NEW p \in Slots, NEW target \in 1 .. MaxPid, NEW sig \in Sigs,
             Kill(p, target, sig)
     PROVE  ParentCanReap'
  BY <1>19, Zenon DEF Kill, InUser, Return, signal_send, wakeup, callVars, schedVars
<1>20. ASSUME NEW p \in Slots, PageFault(p)
     PROVE  ParentCanReap'
  BY <1>20 DEF PageFault, InUser, Return, callVars, schedVars
<1>21. ASSUME NEW p \in Slots, NEW ticks \in 0 .. MaxSleep,
             SysNanosleep(p, ticks)
     PROVE  ParentCanReap'
  BY <1>21 DEF SysNanosleep, InUser, schedVars
<1>22. ASSUME NEW p \in Slots, NEW target \in 1 .. MaxPid, ClaimInput(p, target)
     PROVE  ParentCanReap'
  BY <1>22 DEF ClaimInput, InUser, Return, callVars, schedVars
<1>23. ASSUME NEW p \in Slots, SysReadTty(p)
     PROVE  ParentCanReap'
  BY <1>23 DEF SysReadTty, InUser, callVars, schedVars
<1>24. ASSUME NEW p \in Slots, TimerUser(p)
     PROVE  ParentCanReap'
  BY <1>24, SMTT(30) DEF TimerUser, InUser, Return, sched, wakeup
<1>25. ASSUME NEW p \in Slots, CtrlCUser(p)
     PROVE  ParentCanReap'
  BY <1>25, Zenon DEF CtrlCUser, InUser, terminal_release_input, signal_send, Return,
     wakeup, callVars
<1>26. ASSUME NEW p \in Slots, curr = p, exit(p)
     PROVE  ParentCanReap'
  <2> HIDE DEF TypeOK, OneRunning, InitKept, ParentCanReap
  <2> SUFFICES ASSUME NEW q \in Slots \ {InitSlot}, state'[q] # "UNUSED"
               PROVE  /\ parent'[q] \in Slots \ {q}
                      /\ state'[parent'[q]] # "UNUSED"
                      /\ state'[parent'[q]] = "ZOMBIE" => parent'[q] = InitSlot
    BY DEF ParentCanReap
  <2>1. state[q] # "UNUSED"
    BY <1>26, SMTT(30) DEF exit, wakeup, TypeOK, OneRunning
  <2>2. \A r \in Slots : r # p =>
          /\ state[r] # "UNUSED" => state'[r] # "UNUSED"
          /\ state'[r] = "ZOMBIE" => state[r] = "ZOMBIE"
    BY <1>26, SMTT(30) DEF exit, wakeup, TypeOK
  <2>3. state'[p] = "ZOMBIE"
    BY <1>26 DEF exit, wakeup, TypeOK
  <2>4. CASE parent[q] = p
    <3>1. parent'[q] = InitSlot
      BY <1>26, <2>4 DEF exit
    <3>2. InitSlot \in Slots \ {q} /\ state'[InitSlot] # "UNUSED"
      BY <2>2, <2>3 DEF InitKept, TypeOK
    <3> QED BY <3>1, <3>2
  <2>5. CASE parent[q] # p
    <3>1. parent'[q] = parent[q]
      BY <1>26, <2>5 DEF exit
    <3>2. parent[q] \in Slots \ {q, p} /\ state[parent[q]] # "UNUSED"
      BY <2>1, <2>5 DEF ParentCanReap
    <3>3. state[parent[q]] = "ZOMBIE" => parent[q] = InitSlot
      BY <2>1 DEF ParentCanReap
    <3>4. /\ state'[parent[q]] # "UNUSED"
          /\ state'[parent[q]] = "ZOMBIE" => state[parent[q]] = "ZOMBIE"
      BY <2>2, <3>2, SMTT(30) DEF TypeOK
    <3> QED BY <3>1, <3>2, <3>3, <3>4
  <2> QED BY <2>4, <2>5
<1> HIDE DEF TypeOK, OneRunning, InitKept, ParentCanReap
<1> QED BY SMTT(30), <1>1, <1>2, <1>3, <1>4, <1>5, <1>6, <1>7, <1>8, <1>9, <1>10, <1>11,
  <1>12, <1>13, <1>14, <1>15, <1>16, <1>17, <1>18, <1>19, <1>20, <1>21, <1>22,
  <1>23, <1>24, <1>25, <1>26
  DEF Next, Scheduler, KernelStep, UserStep, SignalExit, Exit, InUser, InKernel

(* A new process gets a pid above all those in use. *)
LEMMA PidStep ==
  ASSUME TypeOK, OneRunning, PidsDistinct, Next
  PROVE  PidsDistinct'
<1> USE DEF TypeOK, OneRunning, PidsDistinct
<1>1. ASSUME SchedRun
     PROVE  PidsDistinct'
  BY <1>1 DEF SchedRun, callVars
<1>2. ASSUME SchedSkip
     PROVE  PidsDistinct'
  BY <1>2 DEF SchedSkip, procVars, callVars
<1>3. ASSUME SchedAgain
     PROVE  PidsDistinct'
  BY <1>3 DEF SchedAgain, procVars, callVars
<1>4. ASSUME SchedWfi
     PROVE  PidsDistinct'
  BY <1>4 DEF SchedWfi, procVars, callVars
<1>5. ASSUME TimerKernel
     PROVE  PidsDistinct'
  BY <1>5 DEF TimerKernel, SchedInterruptible, wakeup
<1>6. ASSUME CtrlCKernel
     PROVE  PidsDistinct'
  BY <1>6, Zenon DEF CtrlCKernel, SchedInterruptible, terminal_release_input,
     signal_send, wakeup, callVars
<1>7. ASSUME NEW p \in Slots, UserTrapRet(p)
     PROVE  PidsDistinct'
  BY <1>7 DEF UserTrapRet, InKernel, callVars, schedVars
<1>8. ASSUME NEW p \in Slots, NEW c \in Slots, Wait4Reap(p, c)
     PROVE  PidsDistinct'
  BY <1>8 DEF Wait4Reap, InKernel, Wait4Returns, Return, Awake, freeproc,
     schedVars
<1>9. ASSUME NEW p \in Slots, Wait4NoReap(p)
     PROVE  PidsDistinct'
  BY <1>9 DEF Wait4NoReap, InKernel, Wait4Returns, Return, Awake, schedVars
<1>10. ASSUME NEW p \in Slots, Wait4Sleep(p)
     PROVE  PidsDistinct'
  BY <1>10 DEF Wait4Sleep, InKernel, sleep, sched, callVars
<1>11. ASSUME NEW p \in Slots, NanosleepEnd(p)
     PROVE  PidsDistinct'
  BY <1>11 DEF NanosleepEnd, InKernel, Return, Awake, schedVars
<1>12. ASSUME NEW p \in Slots, NanosleepSleep(p)
     PROVE  PidsDistinct'
  BY <1>12 DEF NanosleepSleep, InKernel, sleep, sched, callVars
<1>13. ASSUME NEW p \in Slots, TtyGot(p)
     PROVE  PidsDistinct'
  BY <1>13 DEF TtyGot, InKernel, Return, callVars, schedVars
<1>14. ASSUME NEW p \in Slots, TtyYield(p)
     PROVE  PidsDistinct'
  BY <1>14 DEF TtyYield, InKernel, sched, callVars
<1>15. ASSUME NEW p \in Slots, ForkEAGAIN(p)
     PROVE  PidsDistinct'
  BY <1>15 DEF ForkEAGAIN, InUser, Return, callVars, schedVars
<1>16. ASSUME NEW p \in Slots, ForkENOMEM(p)
     PROVE  PidsDistinct'
  BY <1>16, SMTT(30) DEF ForkENOMEM, InUser, Return, get_pid, callVars, schedVars
<1>17. ASSUME NEW p \in Slots, NEW np \in Slots, Fork(p, np)
     PROVE  PidsDistinct'
  <2> HIDE DEF TypeOK, OneRunning, PidsDistinct
  <2>1. nextpid' = nextpid + 1 /\ nextpid \in Nat /\ nextpid >= 2
    BY <1>17 DEF Fork, get_pid, TypeOK
  <2>2. /\ pid'[np] = nextpid
        /\ \A q \in Slots \ {np} : pid'[q] = pid[q] /\ state'[q] = state[q]
    BY <1>17 DEF Fork, TypeOK
  <2>3. \A q \in Slots : state[q] # "UNUSED" => pid[q] \in 1 .. nextpid - 1
    BY DEF PidsDistinct
  <2>4. ASSUME NEW q \in Slots, NEW r \in Slots, state'[q] # "UNUSED"
        PROVE  /\ pid'[q] \in 1 .. nextpid' - 1
               /\ state'[r] # "UNUSED" /\ pid'[q] = pid'[r] => q = r
    <3>1. CASE q = np
      BY <2>1, <2>2, <2>3, <3>1
    <3>2. CASE q # np /\ r = np
      BY <2>1, <2>2, <2>3, <2>4, <3>2
    <3>3. CASE q # np /\ r # np
      BY <2>1, <2>2, <2>3, <2>4, <3>3 DEF PidsDistinct
    <3> QED BY <3>1, <3>2, <3>3
  <2> QED BY <2>4 DEF PidsDistinct
<1>18. ASSUME NEW p \in Slots, NEW which \in {AnyChild} \cup (1 .. MaxPid),
             NEW options \in {0, WNOHANG}, SysWait4(p, which, options)
     PROVE  PidsDistinct'
  BY <1>18, SMTT(30) DEF SysWait4, InUser, schedVars
<1>19. ASSUME NEW p \in Slots, NEW target \in 1 .. MaxPid, NEW sig \in Sigs,
             Kill(p, target, sig)
     PROVE  PidsDistinct'
  BY <1>19, SMTT(30) DEF Kill, InUser, Return, signal_send, wakeup, callVars, schedVars
<1>20. ASSUME NEW p \in Slots, PageFault(p)
     PROVE  PidsDistinct'
  BY <1>20 DEF PageFault, InUser, Return, callVars, schedVars
<1>21. ASSUME NEW p \in Slots, NEW ticks \in 0 .. MaxSleep,
             SysNanosleep(p, ticks)
     PROVE  PidsDistinct'
  BY <1>21 DEF SysNanosleep, InUser, schedVars
<1>22. ASSUME NEW p \in Slots, NEW target \in 1 .. MaxPid, ClaimInput(p, target)
     PROVE  PidsDistinct'
  BY <1>22 DEF ClaimInput, InUser, Return, callVars, schedVars
<1>23. ASSUME NEW p \in Slots, SysReadTty(p)
     PROVE  PidsDistinct'
  BY <1>23 DEF SysReadTty, InUser, callVars, schedVars
<1>24. ASSUME NEW p \in Slots, TimerUser(p)
     PROVE  PidsDistinct'
  BY <1>24, Zenon DEF TimerUser, InUser, Return, sched, wakeup
<1>25. ASSUME NEW p \in Slots, CtrlCUser(p)
     PROVE  PidsDistinct'
  BY <1>25, Zenon DEF CtrlCUser, InUser, terminal_release_input, signal_send, Return,
     wakeup, callVars
<1>26. ASSUME NEW p \in Slots, curr = p, exit(p)
     PROVE  PidsDistinct'
  BY <1>26, Zenon DEF exit, sched, wakeup, callVars
<1> HIDE DEF TypeOK, OneRunning, PidsDistinct
<1> QED BY <1>1, <1>2, <1>3, <1>4, <1>5, <1>6, <1>7, <1>8, <1>9, <1>10, <1>11,
  <1>12, <1>13, <1>14, <1>15, <1>16, <1>17, <1>18, <1>19, <1>20, <1>21, <1>22,
  <1>23, <1>24, <1>25, <1>26
  DEF Next, Scheduler, KernelStep, UserStep, SignalExit, Exit, InUser, InKernel

(* What most steps do for NoLostChildExit: nobody newly sleeps in wait4, and   *)
(* no zombie is new or gets a new parent other than init.                      *)
WaitersKept ==
  \A q \in Slots : state'[q] = "SLEEPING" /\ pc'[q] = "wait4" =>
    state[q] = "SLEEPING" /\ pc[q] = "wait4" /\ warg'[q] = warg[q]

ZombiesKept ==
  \A c \in Slots : state'[c] = "ZOMBIE" =>
    state[c] = "ZOMBIE" /\ pid'[c] = pid[c] /\ parent'[c] \in {parent[c], InitSlot}

LEMMA NoLostFrame ==
  ASSUME NoLostChildExit, WaitersKept, ZombiesKept
  PROVE  NoLostChildExit'
  BY DEF NoLostChildExit, WaitersKept, ZombiesKept, Zombies, Children

(* exit is the step at risk: the parent it leaves a zombie to, if asleep in   *)
(* wait4, sleeps on the very channel that exit wakes.                          *)
LEMMA NoLostStep ==
  ASSUME TypeOK, OneRunning, SleepersReachable, NoLostChildExit, Next
  PROVE  NoLostChildExit'
<1>1. ASSUME SchedRun
     PROVE  NoLostChildExit'
  <2> WaitersKept /\ ZombiesKept
    BY <1>1 DEF WaitersKept, ZombiesKept, TypeOK, OneRunning, SchedRun, callVars
  <2> QED BY NoLostFrame
<1>2. ASSUME SchedSkip
     PROVE  NoLostChildExit'
  <2> WaitersKept /\ ZombiesKept
    BY <1>2 DEF WaitersKept, ZombiesKept, TypeOK, OneRunning, SchedSkip, procVars,
       callVars
  <2> QED BY NoLostFrame
<1>3. ASSUME SchedAgain
     PROVE  NoLostChildExit'
  <2> WaitersKept /\ ZombiesKept
    BY <1>3 DEF WaitersKept, ZombiesKept, TypeOK, OneRunning, SchedAgain,
       procVars, callVars
  <2> QED BY NoLostFrame
<1>4. ASSUME SchedWfi
     PROVE  NoLostChildExit'
  <2> WaitersKept /\ ZombiesKept
    BY <1>4 DEF WaitersKept, ZombiesKept, TypeOK, OneRunning, SchedWfi, procVars,
       callVars
  <2> QED BY NoLostFrame
<1>5. ASSUME TimerKernel
     PROVE  NoLostChildExit'
  <2> WaitersKept /\ ZombiesKept
    BY <1>5, SMTT(30) DEF WaitersKept, ZombiesKept, TypeOK, OneRunning, TimerKernel,
       SchedInterruptible, wakeup
  <2> QED BY NoLostFrame
<1>6. ASSUME CtrlCKernel
     PROVE  NoLostChildExit'
  <2> WaitersKept /\ ZombiesKept
    BY <1>6, SMTT(30) DEF WaitersKept, ZombiesKept, TypeOK, OneRunning, CtrlCKernel,
       SchedInterruptible, terminal_release_input, signal_send, wakeup,
       callVars
  <2> QED BY NoLostFrame
<1>7. ASSUME NEW p \in Slots, UserTrapRet(p)
     PROVE  NoLostChildExit'
  <2> WaitersKept /\ ZombiesKept
    BY <1>7 DEF WaitersKept, ZombiesKept, TypeOK, OneRunning, UserTrapRet,
       InKernel, callVars, schedVars
  <2> QED BY NoLostFrame
<1>8. ASSUME NEW p \in Slots, NEW c \in Slots, Wait4Reap(p, c)
     PROVE  NoLostChildExit'
  <2> WaitersKept /\ ZombiesKept
    BY <1>8, SMTT(30) DEF WaitersKept, ZombiesKept, TypeOK, OneRunning, Wait4Reap, InKernel,
       Wait4Returns, Return, Awake, freeproc, schedVars
  <2> QED BY NoLostFrame
<1>9. ASSUME NEW p \in Slots, Wait4NoReap(p)
     PROVE  NoLostChildExit'
  <2> WaitersKept /\ ZombiesKept
    BY <1>9 DEF WaitersKept, ZombiesKept, TypeOK, OneRunning, Wait4NoReap,
       InKernel, Wait4Returns, Return, Awake, schedVars
  <2> QED BY NoLostFrame
<1>10. ASSUME NEW p \in Slots, Wait4Sleep(p)
     PROVE  NoLostChildExit'
  <2>1. /\ \A q \in Slots \ {p} : state'[q] = state[q]
        /\ state'[p] = "SLEEPING"
        /\ UNCHANGED <<pid, parent, pc, warg>>
        /\ Zombies(p) = {}
    BY <1>10 DEF Wait4Sleep, sleep, callVars, TypeOK
  <2>2. \A q \in Slots : Zombies(q)' \subseteq Zombies(q)
    BY <2>1 DEF Zombies, Children
  <2> QED BY <2>1, <2>2 DEF NoLostChildExit
<1>11. ASSUME NEW p \in Slots, NanosleepEnd(p)
     PROVE  NoLostChildExit'
  <2> WaitersKept /\ ZombiesKept
    BY <1>11 DEF WaitersKept, ZombiesKept, TypeOK, OneRunning, NanosleepEnd,
       InKernel, Return, Awake, schedVars
  <2> QED BY NoLostFrame
<1>12. ASSUME NEW p \in Slots, NanosleepSleep(p)
     PROVE  NoLostChildExit'
  <2> WaitersKept /\ ZombiesKept
    BY <1>12 DEF WaitersKept, ZombiesKept, TypeOK, OneRunning, NanosleepSleep,
       InKernel, sleep, sched, callVars
  <2> QED BY NoLostFrame
<1>13. ASSUME NEW p \in Slots, TtyGot(p)
     PROVE  NoLostChildExit'
  <2> WaitersKept /\ ZombiesKept
    BY <1>13 DEF WaitersKept, ZombiesKept, TypeOK, OneRunning, TtyGot, InKernel,
       Return, callVars, schedVars
  <2> QED BY NoLostFrame
<1>14. ASSUME NEW p \in Slots, TtyYield(p)
     PROVE  NoLostChildExit'
  <2> WaitersKept /\ ZombiesKept
    BY <1>14 DEF WaitersKept, ZombiesKept, TypeOK, OneRunning, TtyYield, InKernel,
       sched, callVars
  <2> QED BY NoLostFrame
<1>15. ASSUME NEW p \in Slots, ForkEAGAIN(p)
     PROVE  NoLostChildExit'
  <2> WaitersKept /\ ZombiesKept
    BY <1>15 DEF WaitersKept, ZombiesKept, TypeOK, OneRunning, ForkEAGAIN, InUser,
       Return, callVars, schedVars
  <2> QED BY NoLostFrame
<1>16. ASSUME NEW p \in Slots, ForkENOMEM(p)
     PROVE  NoLostChildExit'
  <2> WaitersKept /\ ZombiesKept
    BY <1>16 DEF WaitersKept, ZombiesKept, TypeOK, OneRunning, ForkENOMEM, InUser,
       Return, get_pid, callVars, schedVars
  <2> QED BY NoLostFrame
<1>17. ASSUME NEW p \in Slots, NEW np \in Slots, Fork(p, np)
     PROVE  NoLostChildExit'
  <2> WaitersKept /\ ZombiesKept
    BY <1>17, SMTT(30) DEF WaitersKept, ZombiesKept, TypeOK, OneRunning, Fork, InUser,
       alloc_process, get_pid, Free, callVars, schedVars
  <2> QED BY NoLostFrame
<1>18. ASSUME NEW p \in Slots, NEW which \in {AnyChild} \cup (1 .. MaxPid),
             NEW options \in {0, WNOHANG}, SysWait4(p, which, options)
     PROVE  NoLostChildExit'
  <2> WaitersKept /\ ZombiesKept
    BY <1>18, SMTT(30) DEF WaitersKept, ZombiesKept, TypeOK, OneRunning, SysWait4, InUser,
       schedVars
  <2> QED BY NoLostFrame
<1>19. ASSUME NEW p \in Slots, NEW target \in 1 .. MaxPid, NEW sig \in Sigs,
             Kill(p, target, sig)
     PROVE  NoLostChildExit'
  <2> WaitersKept /\ ZombiesKept
    BY <1>19, SMTT(30) DEF WaitersKept, ZombiesKept, TypeOK, OneRunning, Kill, InUser,
       Return, signal_send, wakeup, callVars, schedVars
  <2> QED BY NoLostFrame
<1>20. ASSUME NEW p \in Slots, PageFault(p)
     PROVE  NoLostChildExit'
  <2> WaitersKept /\ ZombiesKept
    BY <1>20 DEF WaitersKept, ZombiesKept, TypeOK, OneRunning, PageFault, InUser,
       Return, callVars, schedVars
  <2> QED BY NoLostFrame
<1>21. ASSUME NEW p \in Slots, NEW ticks \in 0 .. MaxSleep,
             SysNanosleep(p, ticks)
     PROVE  NoLostChildExit'
  <2> WaitersKept /\ ZombiesKept
    BY <1>21 DEF WaitersKept, ZombiesKept, TypeOK, OneRunning, SysNanosleep,
       InUser, schedVars
  <2> QED BY NoLostFrame
<1>22. ASSUME NEW p \in Slots, NEW target \in 1 .. MaxPid, ClaimInput(p, target)
     PROVE  NoLostChildExit'
  <2> WaitersKept /\ ZombiesKept
    BY <1>22 DEF WaitersKept, ZombiesKept, TypeOK, OneRunning, ClaimInput, InUser,
       Return, callVars, schedVars
  <2> QED BY NoLostFrame
<1>23. ASSUME NEW p \in Slots, SysReadTty(p)
     PROVE  NoLostChildExit'
  <2> WaitersKept /\ ZombiesKept
    BY <1>23 DEF WaitersKept, ZombiesKept, TypeOK, OneRunning, SysReadTty, InUser,
       callVars, schedVars
  <2> QED BY NoLostFrame
<1>24. ASSUME NEW p \in Slots, TimerUser(p)
     PROVE  NoLostChildExit'
  <2> WaitersKept /\ ZombiesKept
    BY <1>24, SMTT(30) DEF WaitersKept, ZombiesKept, TypeOK, OneRunning, TimerUser, InUser,
       Return, sched, wakeup
  <2> QED BY NoLostFrame
<1>25. ASSUME NEW p \in Slots, CtrlCUser(p)
     PROVE  NoLostChildExit'
  <2> WaitersKept /\ ZombiesKept
    BY <1>25, SMTT(30) DEF WaitersKept, ZombiesKept, TypeOK, OneRunning, CtrlCUser, InUser,
       terminal_release_input, signal_send, Return, wakeup, callVars
  <2> QED BY NoLostFrame
<1>26. ASSUME NEW p \in Slots, curr = p, exit(p)
     PROVE  NoLostChildExit'
  <2> SUFFICES ASSUME NEW q \in Slots \ {InitSlot}, NEW c \in Slots \ {q},
                      state'[q] = "SLEEPING", pc'[q] = "wait4",
                      parent'[c] = q, warg'[q].pid \in {AnyChild, pid'[c]},
                      state'[c] = "ZOMBIE"
               PROVE  FALSE
    BY DEF NoLostChildExit, Zombies, Children
  <2>1. /\ state[q] = "SLEEPING" /\ pc[q] = "wait4" /\ q # p
        /\ warg'[q] = warg[q] /\ pid'[c] = pid[c]
    BY <1>26 DEF exit, wakeup, callVars, TypeOK
  <2>2. parent[c] = q
    BY <1>26, <2>1 DEF exit, TypeOK
  <2>3. CASE c = p
    <3>1. chan[q] = q
      BY <2>1 DEF SleepersReachable
    <3>2. parent'[p] = q
      BY <2>3, SMTT(30)
    <3>3. state'[q] = "RUNNABLE"
      BY <1>26, <2>1, <3>1, <3>2 DEF exit, wakeup, TypeOK
    <3> QED BY <3>3
  <2>4. CASE c # p
    <3>1. state[c] = "ZOMBIE"
      BY <1>26, <2>4, SMTT(30) DEF exit, wakeup, TypeOK
    <3> QED BY <2>1, <2>2, <3>1, SMTT(30) DEF NoLostChildExit, Zombies, Children
  <2> QED BY <2>3, <2>4
<1> QED BY <1>1, <1>2, <1>3, <1>4, <1>5, <1>6, <1>7, <1>8, <1>9, <1>10, <1>11,
  <1>12, <1>13, <1>14, <1>15, <1>16, <1>17, <1>18, <1>19, <1>20, <1>21, <1>22,
  <1>23, <1>24, <1>25, <1>26
  DEF Next, Scheduler, KernelStep, UserStep, SignalExit, Exit, InUser, InKernel

(* Only wait4 takes a slot out of ZOMBIE. *)
LEMMA ReapStep ==
  ASSUME TypeOK, OneRunning, Next
  PROVE  ReapedByParent
<1> USE DEF TypeOK, OneRunning, ReapedByParent
<1>1. ASSUME SchedRun
     PROVE  ReapedByParent
  BY <1>1 DEF SchedRun, callVars
<1>2. ASSUME SchedSkip
     PROVE  ReapedByParent
  BY <1>2 DEF SchedSkip, procVars, callVars
<1>3. ASSUME SchedAgain
     PROVE  ReapedByParent
  BY <1>3 DEF SchedAgain, procVars, callVars
<1>4. ASSUME SchedWfi
     PROVE  ReapedByParent
  BY <1>4 DEF SchedWfi, procVars, callVars
<1>5. ASSUME TimerKernel
     PROVE  ReapedByParent
  BY <1>5 DEF TimerKernel, SchedInterruptible, wakeup
<1>6. ASSUME CtrlCKernel
     PROVE  ReapedByParent
  BY <1>6 DEF CtrlCKernel, SchedInterruptible, terminal_release_input,
     signal_send, wakeup, callVars
<1>7. ASSUME NEW p \in Slots, UserTrapRet(p)
     PROVE  ReapedByParent
  BY <1>7, SMTT(30) DEF UserTrapRet, InKernel, callVars, schedVars
<1>8. ASSUME NEW p \in Slots, NEW c \in Slots, Wait4Reap(p, c)
     PROVE  ReapedByParent
  BY <1>8 DEF Wait4Reap, InKernel, Wait4Returns, Return, Awake, freeproc,
     Zombies, Children, schedVars
<1>9. ASSUME NEW p \in Slots, Wait4NoReap(p)
     PROVE  ReapedByParent
  BY <1>9 DEF Wait4NoReap, InKernel, Wait4Returns, Return, Awake, schedVars
<1>10. ASSUME NEW p \in Slots, Wait4Sleep(p)
     PROVE  ReapedByParent
  BY <1>10 DEF Wait4Sleep, InKernel, sleep, sched, callVars
<1>11. ASSUME NEW p \in Slots, NanosleepEnd(p)
     PROVE  ReapedByParent
  BY <1>11 DEF NanosleepEnd, InKernel, Return, Awake, schedVars
<1>12. ASSUME NEW p \in Slots, NanosleepSleep(p)
     PROVE  ReapedByParent
  BY <1>12 DEF NanosleepSleep, InKernel, sleep, sched, callVars
<1>13. ASSUME NEW p \in Slots, TtyGot(p)
     PROVE  ReapedByParent
  BY <1>13 DEF TtyGot, InKernel, Return, callVars, schedVars
<1>14. ASSUME NEW p \in Slots, TtyYield(p)
     PROVE  ReapedByParent
  BY <1>14 DEF TtyYield, InKernel, sched, callVars
<1>15. ASSUME NEW p \in Slots, ForkEAGAIN(p)
     PROVE  ReapedByParent
  BY <1>15 DEF ForkEAGAIN, InUser, Return, callVars, schedVars
<1>16. ASSUME NEW p \in Slots, ForkENOMEM(p)
     PROVE  ReapedByParent
  BY <1>16, SMTT(30) DEF ForkENOMEM, InUser, Return, get_pid, callVars, schedVars
<1>17. ASSUME NEW p \in Slots, NEW np \in Slots, Fork(p, np)
     PROVE  ReapedByParent
  BY <1>17, SMTT(30) DEF Fork, InUser, alloc_process, get_pid, Free, callVars, schedVars
<1>18. ASSUME NEW p \in Slots, NEW which \in {AnyChild} \cup (1 .. MaxPid),
             NEW options \in {0, WNOHANG}, SysWait4(p, which, options)
     PROVE  ReapedByParent
  BY <1>18, SMTT(30) DEF SysWait4, InUser, schedVars
<1>19. ASSUME NEW p \in Slots, NEW target \in 1 .. MaxPid, NEW sig \in Sigs,
             Kill(p, target, sig)
     PROVE  ReapedByParent
  BY <1>19 DEF Kill, InUser, Return, signal_send, wakeup, callVars, schedVars
<1>20. ASSUME NEW p \in Slots, PageFault(p)
     PROVE  ReapedByParent
  BY <1>20 DEF PageFault, InUser, Return, callVars, schedVars
<1>21. ASSUME NEW p \in Slots, NEW ticks \in 0 .. MaxSleep,
             SysNanosleep(p, ticks)
     PROVE  ReapedByParent
  BY <1>21 DEF SysNanosleep, InUser, schedVars
<1>22. ASSUME NEW p \in Slots, NEW target \in 1 .. MaxPid, ClaimInput(p, target)
     PROVE  ReapedByParent
  BY <1>22 DEF ClaimInput, InUser, Return, callVars, schedVars
<1>23. ASSUME NEW p \in Slots, SysReadTty(p)
     PROVE  ReapedByParent
  BY <1>23 DEF SysReadTty, InUser, callVars, schedVars
<1>24. ASSUME NEW p \in Slots, TimerUser(p)
     PROVE  ReapedByParent
  BY <1>24, SMTT(30) DEF TimerUser, InUser, Return, sched, wakeup
<1>25. ASSUME NEW p \in Slots, CtrlCUser(p)
     PROVE  ReapedByParent
  BY <1>25, SMTT(30) DEF CtrlCUser, InUser, terminal_release_input, signal_send, Return,
     wakeup, callVars
<1>26. ASSUME NEW p \in Slots, curr = p, exit(p)
     PROVE  ReapedByParent
  BY <1>26 DEF exit, sched, wakeup, callVars
<1> HIDE DEF TypeOK, OneRunning, ReapedByParent
<1> QED BY SMTT(30), <1>1, <1>2, <1>3, <1>4, <1>5, <1>6, <1>7, <1>8, <1>9, <1>10, <1>11,
  <1>12, <1>13, <1>14, <1>15, <1>16, <1>17, <1>18, <1>19, <1>20, <1>21, <1>22,
  <1>23, <1>24, <1>25, <1>26
  DEF Next, Scheduler, KernelStep, UserStep, SignalExit, Exit, InUser, InKernel

(* What Init and every step give. *)
LEMMA InitIInv == Init => IInv
<1> SUFFICES ASSUME Init PROVE IInv
  OBVIOUS
<1>1. TypeOK
  BY DEF Init, TypeOK, NoWait
<1>2. OneRunning /\ ScanAtCurr /\ InitKept /\ SleepersReachable
  BY DEF Init, OneRunning, ScanAtCurr, InitKept, SleepersReachable
<1>3. ParentCanReap /\ PidsDistinct /\ NoLostChildExit
  BY DEF Init, ParentCanReap, PidsDistinct, NoLostChildExit
<1> QED BY <1>1, <1>2, <1>3 DEF IInv

LEMMA StepIInv == IInv /\ [Next]_vars => IInv'
<1>1. ASSUME IInv, Next PROVE IInv'
  BY <1>1, TypeStep, RunStep, SleepersStep, ParentStep, PidStep, NoLostStep DEF IInv
<1>2. ASSUME IInv, UNCHANGED vars PROVE IInv'
  <2> USE <1>2 DEF IInv, vars, procVars, callVars, schedVars
  <2>1. TypeOK'
    BY SMTT(30) DEF TypeOK
  <2>2. OneRunning' /\ ScanAtCurr' /\ InitKept' /\ SleepersReachable'
    BY DEF OneRunning, ScanAtCurr, InitKept, SleepersReachable
  <2>3. ParentCanReap'
    BY DEF ParentCanReap
  <2>4. PidsDistinct'
    BY DEF PidsDistinct
  <2>5. NoLostChildExit'
    BY DEF NoLostChildExit, Zombies, Children
  <2> QED BY <2>1, <2>2, <2>3, <2>4, <2>5, SMTT(30)
<1> QED BY <1>1, <1>2

LEMMA IInvariant == Spec => []IInv
  BY InitIInv, StepIInv, PTL DEF Spec

(* Every variable of struct Process, the scheduler and the terminal keeps its  *)
(* type; in particular the scan index never leaves proc[] while a process is   *)
(* running.                                                                    *)
THEOREM TypeCorrect == Spec => []TypeOK
  BY IInvariant, PTL DEF IInv

(* scheduler() and sched() never let two processes run.                        *)
THEOREM MutualExclusion == Spec => []OneRunning
  BY IInvariant, PTL DEF IInv

(* exit() never loses the wakeup of a parent that waits: no process but init   *)
(* sleeps in wait4 beside a zombie it waits for.                               *)
THEOREM ChildExitNeverLost == Spec => []NoLostChildExit
  BY IInvariant, PTL DEF IInv

(* exit() and wait4() together leave no process whose parent slot is free.     *)
THEOREM NoOrphans == Spec => []ParentCanReap
  BY IInvariant, PTL DEF IInv

(* get_pid() under fork() and freeproc() never gives two processes one pid.    *)
THEOREM PidsUnique == Spec => []PidsDistinct
  BY IInvariant, PTL DEF IInv

(* No wakeup, signal or stranger takes a process out of ZOMBIE: only its       *)
(* parent's wait4 does, and only to UNUSED.                                    *)
THEOREM ZombiesReapedByParent == Spec => OnlyParentReaps
<1>1. IInv /\ [Next]_vars => [ReapedByParent]_vars
  BY ReapStep DEF IInv
<1> QED BY <1>1, IInvariant, PTL DEF Spec, OnlyParentReaps
=============================================================================
