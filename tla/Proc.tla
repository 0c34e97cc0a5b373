-------------------------------- MODULE Proc --------------------------------
(***************************************************************************)
(* Process lifecycle, scheduling, sleep and wakeup on the one CPU the      *)
(* kernel boots: proc.c, proc_base.c, wait.c, the signal path of a process *)
(* that keeps every default action, sys_nanosleep, the timer interrupt and *)
(* the list of terminal input owners (tty.c).                              *)
(*                                                                         *)
(* The kernel is not preemptive: a trap taken in the kernel never yields,  *)
(* so between two points where a process gives up the CPU (sleep, yield,   *)
(* exit) nothing else runs.  One action is one such stretch of code, and   *)
(* while curr is in the kernel (pc[curr] # "user") only curr can act.      *)
(***************************************************************************)
EXTENDS Integers, FiniteSets

CONSTANTS
  NPROC,      \* size of proc[]
  MaxPid,     \* bound: the last pid that get_pid() hands out in a run
  MaxSleep,   \* bound: the longest nanosleep, in timer ticks
  MaxOwners,  \* bound: processes that own the terminal's input at a time
  Sigs,       \* signals sent with kill(); all keep SIG_DFL and none is blocked
  SIGINT,     \* what ^C on the console sends
  SIGSEGV     \* what an unrecoverable page fault leaves pending

ASSUME ProcAssumption ==
  /\ NPROC \in Nat \ {0}
  /\ MaxPid \in Nat \ {0}
  /\ MaxSleep \in Nat /\ MaxOwners \in Nat
  /\ {SIGINT, SIGSEGV} \subseteq Sigs

Slots == 0 .. NPROC - 1
InitSlot == 0
NoProc == -1
NoChan == -1          \* p->chan = 0
TimerChan == -2       \* &timer_chan
AnyChild == -1        \* wait4(-1, ...)
WNOHANG == 1
Pids == 0 .. MaxPid   \* 0 in a slot that is not in use

States == {"UNUSED", "RUNNABLE", "RUNNING", "SLEEPING", "ZOMBIE"}
Places == {"none", "ret", "user", "wait4", "nanosleep", "tty"}

VARIABLES
  state, pid, parent, chan, sig_pending,   \* struct Process
  pc,        \* where the process stands; "ret" is the way back to user mode
  warg,      \* wait4's pid and options
  left,      \* ticks to the deadline of nanosleep
  owners,    \* tty.input_owner[0 .. input_owner_idx]; order is never used
  nextpid,   \* the global `pid'
  curr,      \* get_cpu()->proc
  scan,      \* the scheduler's loop index; NPROC, past it; NPROC + 1, in wfi
  found      \* the scheduler's `found'

procVars == <<state, pid, parent, chan, sig_pending, pc>>
callVars == <<warg, left>>
schedVars == <<curr, scan, found>>
vars == <<procVars, callVars, owners, nextpid, schedVars>>

NoWait == [pid |-> AnyChild, options |-> 0]
-----------------------------------------------------------------------------
(* procinit and user_init: slot 0 holds the first process, ready to run.   *)
Init ==
  /\ state = [p \in Slots |-> IF p = InitSlot THEN "RUNNABLE" ELSE "UNUSED"]
  /\ pid = [p \in Slots |-> IF p = InitSlot THEN 1 ELSE 0]
  /\ parent = [p \in Slots |-> NoProc]
  /\ chan = [p \in Slots |-> NoChan]
  /\ sig_pending = [p \in Slots |-> {}]
  /\ pc = [p \in Slots |-> IF p = InitSlot THEN "ret" ELSE "none"]
  /\ warg = [p \in Slots |-> NoWait]
  /\ left = [p \in Slots |-> 0]
  /\ owners = {}
  /\ nextpid = 2
  /\ curr = NoProc
  /\ scan = 0
  /\ found = 0

(* wakeup(c): every sleeper on c but the caller becomes RUNNABLE. *)
wakeup(c) ==
  [q \in Slots |-> IF q # curr /\ chan[q] = c /\ state[q] = "SLEEPING"
                   THEN "RUNNABLE" ELSE state[q]]

(* Operators named X_Y, here and below, are faulty variants of X that the  *)
(* properties at the end are tested against; the model does not use them.  *)
sched_FromSlot0 == curr' = NoProc /\ scan' = 0 /\ UNCHANGED found

(* sched(): back in scheduler(), which moves on to the next slot. *)
sched == curr' = NoProc /\ scan' = scan + 1 /\ UNCHANGED found

(* sleep(c, lk) up to the switch; lk plays no part on one CPU. *)
sleep(p, c) ==
  /\ state' = [state EXCEPT ![p] = "SLEEPING"]
  /\ chan' = [chan EXCEPT ![p] = c]
  /\ sched

(* The rest of sleep(), when the process runs again. *)
Awake(p) == chan' = [chan EXCEPT ![p] = NoChan]

InUser(p) == curr = p /\ pc[p] = "user"
InKernel(p, where) == curr = p /\ pc[p] = where
Return(p) == pc' = [pc EXCEPT ![p] = "ret"]

Free == {q \in Slots : state[q] = "UNUSED"}
-----------------------------------------------------------------------------
(* scheduler(), one slot of the scan: switch to a RUNNABLE process ... *)
SchedRun ==
  /\ curr = NoProc /\ scan < NPROC
  /\ state[scan] = "RUNNABLE"
  /\ state' = [state EXCEPT ![scan] = "RUNNING"]
  /\ curr' = scan
  /\ found' = 1
  /\ UNCHANGED <<pid, parent, chan, sig_pending, pc, callVars, owners, nextpid, scan>>

(* ... or pass over the slot. *)
SchedSkip ==
  /\ curr = NoProc /\ scan < NPROC
  /\ state[scan] # "RUNNABLE"
  /\ scan' = scan + 1
  /\ UNCHANGED <<procVars, callVars, owners, nextpid, curr, found>>

(* scheduler(), after a scan: start over, or wait for an interrupt first. *)
SchedAgain ==
  /\ curr = NoProc /\ scan = NPROC /\ found = 1
  /\ scan' = 0 /\ found' = 0
  /\ UNCHANGED <<procVars, callVars, owners, nextpid, curr>>

SchedWfi ==
  /\ curr = NoProc /\ scan = NPROC /\ found = 0
  /\ scan' = NPROC + 1
  /\ UNCHANGED <<procVars, callVars, owners, nextpid, curr, found>>

(* Interrupts are on in the scheduler until a process of this pass ran. *)
SchedInterruptible == curr = NoProc /\ found = 0
LeaveWfi == scan' = IF scan = NPROC + 1 THEN 0 ELSE scan

(* timerintr(): time went by, and the sleepers of timer_chan wake up. *)
Tick == left' = [q \in Slots |-> IF left[q] > 0 THEN left[q] - 1 ELSE 0]

(* Timer interrupt in user mode: timerintr() and then yield(). *)
TimerUser(p) ==
  /\ InUser(p)
  /\ Tick
  /\ state' = [wakeup(TimerChan) EXCEPT ![p] = "RUNNABLE"]
  /\ Return(p)
  /\ sched
  /\ UNCHANGED <<pid, parent, chan, sig_pending, warg, owners, nextpid>>

TimerKernel_NoWakeup ==
  /\ SchedInterruptible
  /\ Tick
  /\ LeaveWfi
  /\ UNCHANGED <<procVars, warg, owners, nextpid, curr, found>>

(* Timer interrupt in the scheduler: timerintr() only. *)
TimerKernel ==
  /\ SchedInterruptible
  /\ Tick
  /\ state' = wakeup(TimerChan)
  /\ LeaveWfi
  /\ UNCHANGED <<pid, parent, chan, sig_pending, pc, warg, owners, nextpid,
                 curr, found>>

(* signal_send(q, sig) for each q of Q: pending, and a wakeup(q) if q      *)
(* sleeps, which only reaches sleepers on the process structure itself.    *)
signal_send(Q, sig) ==
  /\ sig_pending' = [q \in Slots |-> IF q \in Q THEN sig_pending[q] \cup {sig}
                                                ELSE sig_pending[q]]
  /\ state' = [r \in Slots |->
                 IF \E q \in Q : state[q] = "SLEEPING" /\ chan[r] = q
                 THEN wakeup(chan[r])[r] ELSE state[r]]

(* terminal_release_input(): ^C goes to every owner, then none is left. *)
terminal_release_input ==
  /\ signal_send(owners, SIGINT)
  /\ owners' = {}
  /\ UNCHANGED <<pid, parent, chan, callVars, nextpid, curr, found>>

CtrlCUser(p) ==
  /\ InUser(p)
  /\ terminal_release_input
  /\ Return(p)
  /\ UNCHANGED scan

CtrlCKernel ==
  /\ SchedInterruptible
  /\ terminal_release_input
  /\ LeaveWfi
  /\ UNCHANGED pc
-----------------------------------------------------------------------------
(* alloc_process: the first UNUSED slot, if there is one. *)
alloc_process(np) == np \in Free /\ \A q \in Free : np <= q

(* get_pid(): the pid handed out is nextpid. *)
get_pid == nextpid' = nextpid + 1

(* fork(): without a free slot, EAGAIN. *)
ForkEAGAIN(p) ==
  /\ InUser(p)
  /\ Free = {}
  /\ Return(p)
  /\ UNCHANGED <<state, pid, parent, chan, sig_pending, callVars, owners, nextpid,
                 schedVars>>

(* fork(): a failing uvmcopy gives the slot back, but not the pid. *)
ForkENOMEM(p) ==
  /\ InUser(p)
  /\ Free # {} /\ nextpid <= MaxPid
  /\ get_pid
  /\ Return(p)
  /\ UNCHANGED <<state, pid, parent, chan, sig_pending, callVars, owners, schedVars>>

(* fork(): the child is RUNNABLE, and its first step is usertrapret. *)
Fork(p, np) ==
  /\ InUser(p)
  /\ alloc_process(np) /\ nextpid <= MaxPid
  /\ get_pid
  /\ state' = [state EXCEPT ![np] = "RUNNABLE"]
  /\ pid' = [pid EXCEPT ![np] = nextpid]
  /\ parent' = [parent EXCEPT ![np] = p]
  /\ sig_pending' = [sig_pending EXCEPT ![np] = sig_pending[p]]
  /\ pc' = [pc EXCEPT ![p] = "ret", ![np] = "ret"]
  /\ UNCHANGED <<chan, callVars, owners, schedVars>>

exit_NoWakeup(p) ==
  /\ owners' = owners \ {p}
  /\ parent' = [q \in Slots |-> IF parent[q] = p THEN InitSlot ELSE parent[q]]
  /\ state' = [state EXCEPT ![p] = "ZOMBIE"]
  /\ pc' = [pc EXCEPT ![p] = "none"]
  /\ sched
  /\ UNCHANGED <<pid, chan, sig_pending, callVars, nextpid>>

exit_NoReparent(p) ==
  /\ owners' = owners \ {p}
  /\ state' = [wakeup(parent[p]) EXCEPT ![p] = "ZOMBIE"]
  /\ pc' = [pc EXCEPT ![p] = "none"]
  /\ sched
  /\ UNCHANGED <<pid, parent, chan, sig_pending, callVars, nextpid>>

(* exit(): forget the terminal, hand the children to proc[0], wake the     *)
(* parent, become a ZOMBIE and switch away for good.                       *)
exit(p) ==
  /\ owners' = owners \ {p}
  /\ parent' = [q \in Slots |-> IF parent[q] = p THEN InitSlot ELSE parent[q]]
  /\ state' = [wakeup(parent'[p]) EXCEPT ![p] = "ZOMBIE"]
  /\ pc' = [pc EXCEPT ![p] = "none"]
  /\ sched
  /\ UNCHANGED <<pid, chan, sig_pending, callVars, nextpid>>

Exit(p) == InUser(p) /\ exit(p)

(* usertrapret(): check_signal ends a process with a pending signal, since *)
(* every action is the default one ...                                     *)
SignalExit(p) ==
  /\ InKernel(p, "ret")
  /\ sig_pending[p] # {}
  /\ exit(p)

(* ... and lets any other return to user mode. *)
UserTrapRet(p) ==
  /\ InKernel(p, "ret")
  /\ sig_pending[p] = {}
  /\ pc' = [pc EXCEPT ![p] = "user"]
  /\ UNCHANGED <<state, pid, parent, chan, sig_pending, callVars, owners, nextpid,
                 schedVars>>

(* sys_wait4: the arguments; rejected ones return without a change. *)
SysWait4(p, which, options) ==
  /\ InUser(p)
  /\ pc' = [pc EXCEPT ![p] = "wait4"]
  /\ warg' = [warg EXCEPT ![p] = [pid |-> which, options |-> options]]
  /\ UNCHANGED <<state, pid, parent, chan, sig_pending, left, owners, nextpid,
                 schedVars>>

Children_AnyParent(p) == {c \in Slots \ {p} : warg[p].pid \in {AnyChild, pid[c]}}

Children(p) ==
  {c \in Slots \ {p} : parent[c] = p /\ warg[p].pid \in {AnyChild, pid[c]}}
Zombies(p) == {c \in Children(p) : state[c] = "ZOMBIE"}

(* freeproc(c).  The signals go with the slot: alloc_process clears them. *)
freeproc(c) ==
  /\ sig_pending' = [sig_pending EXCEPT ![c] = {}]
  /\ state' = [state EXCEPT ![c] = "UNUSED"]
  /\ pid' = [pid EXCEPT ![c] = 0]
  /\ parent' = [parent EXCEPT ![c] = NoProc]

Wait4Returns(p) ==
  /\ Return(p) /\ Awake(p)
  /\ warg' = [warg EXCEPT ![p] = NoWait]
  /\ UNCHANGED <<left, owners, nextpid, schedVars>>

(* wait4(), a pass over proc[] that frees the first matching zombie. *)
Wait4Reap(p, c) ==
  /\ InKernel(p, "wait4")
  /\ c \in Zombies(p) /\ \A d \in Zombies(p) : c <= d
  /\ freeproc(c)
  /\ Wait4Returns(p)

(* wait4(), a pass that returns without: the status of a zombie cannot be  *)
(* copied out, there is no matching child, or WNOHANG was given.           *)
Wait4NoReap(p) ==
  /\ InKernel(p, "wait4")
  /\ Zombies(p) # {} \/ Children(p) = {} \/ warg[p].options = WNOHANG
  /\ Wait4Returns(p)
  /\ UNCHANGED <<state, pid, parent, sig_pending>>

(* wait4(), a pass that ends asleep on the own process structure. *)
Wait4Sleep(p) ==
  /\ InKernel(p, "wait4")
  /\ Zombies(p) = {} /\ Children(p) # {} /\ warg[p].options # WNOHANG
  /\ sleep(p, p)
  /\ UNCHANGED <<pid, parent, sig_pending, pc, callVars, owners, nextpid>>

(* The first slot in use with that pid, zombies included; {} if none. *)
WithPid(target) ==
  LET match == {q \in Slots : pid[q] = target /\ state[q] # "UNUSED"}
  IN  {q \in match : \A r \in match : q <= r}

(* kill(); signal 0 and an unknown pid change nothing. *)
Kill(p, target, sig) ==
  /\ InUser(p)
  /\ signal_send(WithPid(target), sig)
  /\ Return(p)
  /\ UNCHANGED <<pid, parent, chan, callVars, owners, nextpid, schedVars>>

(* usertrap(), a page fault that nothing resolves. *)
PageFault(p) ==
  /\ InUser(p)
  /\ sig_pending' = [sig_pending EXCEPT ![p] = @ \cup {SIGSEGV}]
  /\ Return(p)
  /\ UNCHANGED <<state, pid, parent, chan, callVars, owners, nextpid, schedVars>>

(* sys_nanosleep, up to the loop. *)
SysNanosleep(p, ticks) ==
  /\ InUser(p)
  /\ pc' = [pc EXCEPT ![p] = "nanosleep"]
  /\ left' = [left EXCEPT ![p] = ticks]
  /\ UNCHANGED <<state, pid, parent, chan, sig_pending, warg, owners, nextpid,
                 schedVars>>

(* The loop of sys_nanosleep ends, at the deadline or with EINTR ... *)
NanosleepEnd(p) ==
  /\ InKernel(p, "nanosleep")
  /\ left[p] = 0 \/ sig_pending[p] # {}
  /\ Return(p) /\ Awake(p)
  /\ left' = [left EXCEPT ![p] = 0]
  /\ UNCHANGED <<state, pid, parent, sig_pending, warg, owners, nextpid, schedVars>>

(* ... or sleeps to the next tick. *)
NanosleepSleep(p) ==
  /\ InKernel(p, "nanosleep")
  /\ left[p] > 0 /\ sig_pending[p] = {}
  /\ sleep(p, TimerChan)
  /\ UNCHANGED <<pid, parent, sig_pending, pc, callVars, owners, nextpid>>

(* terminal_claim_input(target): the slot joins the owners; NPROC places *)
(* are enough, since no slot is entered twice.                            *)
ClaimInput(p, target) ==
  /\ InUser(p)
  /\ owners' = owners \cup WithPid(target)
  /\ Cardinality(owners') <= MaxOwners
  /\ Return(p)
  /\ UNCHANGED <<state, pid, parent, chan, sig_pending, callVars, nextpid, schedVars>>

(* read() of the console starts to poll for a character. *)
SysReadTty(p) ==
  /\ InUser(p)
  /\ pc' = [pc EXCEPT ![p] = "tty"]
  /\ UNCHANGED <<state, pid, parent, chan, sig_pending, callVars, owners, nextpid,
                 schedVars>>

(* devtmpfs_tty_read(): a character is there ... *)
TtyGot(p) ==
  /\ InKernel(p, "tty")
  /\ Return(p)
  /\ UNCHANGED <<state, pid, parent, chan, sig_pending, callVars, owners, nextpid,
                 schedVars>>

(* ... or yield() and look again; the loop does not look at signals. *)
TtyYield(p) ==
  /\ InKernel(p, "tty")
  /\ state' = [state EXCEPT ![p] = "RUNNABLE"]
  /\ sched
  /\ UNCHANGED <<pid, parent, chan, sig_pending, pc, callVars, owners, nextpid>>
-----------------------------------------------------------------------------
KernelStep(p) ==
  \/ SignalExit(p) \/ UserTrapRet(p)
  \/ \E c \in Slots : Wait4Reap(p, c)
  \/ Wait4NoReap(p) \/ Wait4Sleep(p)
  \/ NanosleepEnd(p) \/ NanosleepSleep(p)
  \/ TtyGot(p) \/ TtyYield(p)

UserStep(p) ==
  \/ ForkEAGAIN(p) \/ ForkENOMEM(p)
  \/ \E np \in Slots : Fork(p, np)
  \/ Exit(p)
  \/ \E which \in {AnyChild} \cup (2 .. MaxPid), options \in {0, WNOHANG} :
       SysWait4(p, which, options)        \* pid 1 is nobody's child
  \/ \E target \in 1 .. MaxPid, sig \in Sigs : Kill(p, target, sig)
  \/ PageFault(p)
  \/ \E ticks \in 0 .. MaxSleep : SysNanosleep(p, ticks)
  \/ \E target \in 1 .. MaxPid : ClaimInput(p, target)
  \/ SysReadTty(p)

Scheduler == SchedRun \/ SchedSkip \/ SchedAgain \/ SchedWfi

Next ==
  \/ Scheduler
  \/ TimerKernel
  \/ CtrlCKernel
  \/ \E p \in Slots : KernelStep(p) \/ UserStep(p) \/ TimerUser(p) \/ CtrlCUser(p)

Spec == Init /\ [][Next]_vars

(* The scheduler and kernel code run on while they can.  Every tick re-arms *)
(* the timer, and a tick that comes while interrupts are off stays pending: *)
(* it is taken the next time the CPU is in user mode or at the top of a     *)
(* scheduler pass, which is strong fairness of the two timer actions.       *)
FairSpec ==
  /\ Spec
  /\ WF_vars(Scheduler)
  /\ WF_vars(\E p \in Slots : KernelStep(p))
  /\ SF_vars(TimerKernel \/ \E p \in Slots : TimerUser(p))
-----------------------------------------------------------------------------
TypeOK ==
  /\ state \in [Slots -> States]
  /\ pid \in [Slots -> Pids]
  /\ parent \in [Slots -> Slots \cup {NoProc}]
  /\ chan \in [Slots -> Slots \cup {NoChan, TimerChan}]
  /\ sig_pending \in [Slots -> SUBSET Sigs]
  /\ pc \in [Slots -> Places]
  /\ warg \in [Slots -> [pid : {AnyChild} \cup Pids, options : {0, WNOHANG}]]
  /\ left \in [Slots -> 0 .. MaxSleep]
  /\ owners \subseteq Slots
  /\ nextpid \in 2 .. MaxPid + 1
  /\ curr \in Slots \cup {NoProc}
  /\ scan \in 0 .. NPROC + 1
  /\ found \in {0, 1}

(* The scheduler never runs two processes, and the CPU's current process   *)
(* is the one RUNNING slot (scheduler, sched, yield, sleep, exit).         *)
OneRunning == \A p \in Slots : state[p] = "RUNNING" <=> p = curr

(* No process but init sleeps in wait4 while a child it waits for is a     *)
(* ZOMBIE: exit's wakeup of the parent is never lost, although it comes    *)
(* before the state becomes ZOMBIE.                                        *)
NoLostChildExit ==
  \A p \in Slots \ {InitSlot} :
    state[p] = "SLEEPING" /\ pc[p] = "wait4" => Zombies(p) = {}

(* wait4 with options 0 "waits until exit" and no longer, for init too.    *)
WaitEndsAtChildExit ==
  \A p \in Slots : state[p] = "SLEEPING" /\ pc[p] = "wait4" => Zombies(p) = {}

(* Every process but init has a parent slot that is in use and can still   *)
(* reap it: a parent is a ZOMBIE only if it is init (exit's reparenting).  *)
ParentCanReap ==
  \A p \in Slots \ {InitSlot} : state[p] # "UNUSED" =>
    /\ parent[p] \in Slots \ {p}
    /\ state[parent[p]] # "UNUSED"
    /\ state[parent[p]] = "ZOMBIE" => parent[p] = InitSlot

(* Two slots in use never carry the same pid, and get_pid will not hand    *)
(* out a pid that is in use, so kill and wait4 find the process they name. *)
PidsDistinct ==
  \A p, q \in Slots : state[p] # "UNUSED" =>
    /\ pid[p] \in 1 .. nextpid - 1
    /\ state[q] # "UNUSED" /\ pid[p] = pid[q] => p = q

(* A sleeper sleeps on the channel its wakers use: its own structure in    *)
(* wait4 (exit, signal_send) and timer_chan in nanosleep (timerintr).      *)
SleepersReachable ==
  \A p \in Slots : state[p] = "SLEEPING" =>
    \/ pc[p] = "wait4" /\ chan[p] = p
    \/ pc[p] = "nanosleep" /\ chan[p] = TimerChan

ReapedByParent ==
  \A q \in Slots : state[q] = "ZOMBIE" /\ state'[q] # "ZOMBIE" =>
    state'[q] = "UNUSED" /\ curr = parent[q] /\ pc[curr] = "wait4"

(* A ZOMBIE slot changes only when its parent, in wait4, frees it: no      *)
(* wakeup or signal revives it and nobody else reaps it.                   *)
OnlyParentReaps == [][ReapedByParent]_vars

(* The scan over proc[] starves nobody: what is RUNNABLE gets the CPU,     *)
(* whatever mix of yields, sleeps, forks and interrupts goes on.           *)
RunnableRuns ==
  \A p \in Slots : state[p] = "RUNNABLE" ~> state[p] = "RUNNING"

(* nanosleep ends: by its deadline, or at the first tick after a signal.   *)
NanosleepEnds == \A p \in Slots : pc[p] = "nanosleep" ~> pc[p] # "nanosleep"

(* A child's exit ends its parent's wait4 (init aside). *)
ChildExitEndsWait ==
  \A p \in Slots \ {InitSlot} :
    pc[p] = "wait4" /\ Zombies(p) # {} ~> pc[p] # "wait4"
=============================================================================
