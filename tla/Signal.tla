------------------------------- MODULE Signal -------------------------------
(***************************************************************************)
(* Signals of one process: kernel/core/signal.c, the rt_sig* calls and     *)
(* nanosleep of kernel/core/sysproc.c, and kill() of kernel/core/proc.c.   *)
(*                                                                         *)
(* The process is a record P with its signal state (pending, blocked,      *)
(* actions), its trapframe (the context it resumes, epc, and the stack     *)
(* pointer, sp), the signal frames on its user stack (mem) and run:        *)
(*   "user"       executing user code                                      *)
(*   "ret"        in the kernel, on its way to usertrapret()               *)
(*   "nanosleep"  at the head of the loop of sys_nanosleep()               *)
(*   "asleep"     sleeping on timer_chan                                   *)
(*   "dead"       it called exit(status)                                   *)
(* Everything between two returns to user mode happens with interrupts off *)
(* on the one CPU, so another process can send it a signal only while it   *)
(* is in the kernel: it was preempted at a tick, or it sleeps.             *)
(*                                                                         *)
(* A signal frame takes one slot of the user stack; slots are numbered     *)
(* downwards from STACK, and a frame at slot 0 falls off the stack's       *)
(* mapping, which is where copyout() fails.  Context 0 is the program's    *)
(* main flow, context s the handler of signal s.  A program enters         *)
(* rt_sigreturn only through the restorer, that is by returning from a     *)
(* handler.                                                                *)
(***************************************************************************)
EXTENDS Integers, SequencesExt, FiniteSets

CONSTANTS
  Sigs,          \* the signals in use
  SIGKILL, SIGSTOP, SIGSEGV,
  Dispositions,  \* what a program installs for a signal: [handler, restorer, mask]
  SigSets,       \* the sets a program passes to rt_sigprocmask
  STACK          \* bound: the signal frames the user stack has room for

VARIABLES
  P,             \* the process
  ctx            \* history: the contexts entered and not left, innermost last

vars == <<P, ctx>>

SIG_DFL == [handler |-> "SIG_DFL", restorer |-> FALSE, mask |-> {}]
SIG_IGN == [handler |-> "SIG_IGN", restorer |-> FALSE, mask |-> {}]
Forced == {SIGKILL, SIGSTOP}
NoFrame == [tf |-> [epc |-> 0, sp |-> 0], mask |-> {}]

(* A process with no signal state *)
Fresh ==
  [pending |-> {}, blocked |-> {}, actions |-> [s \in Sigs |-> SIG_DFL],
   tf |-> [epc |-> 0, sp |-> STACK + 1],
   mem |-> [i \in 1 .. STACK |-> NoFrame], run |-> "user", status |-> 0]

-----------------------------------------------------------------------------
(* Delivery, on the way back to user mode *)

sig_exit(p, sig) == [Fresh EXCEPT !.run = "dead", !.status = 128 + sig]

signal_pending(p) == p.pending \ p.blocked # {}

Entered(c, p, sig) ==
  Append(c, [sig |-> sig, sp |-> p.tf.sp - 1,
             mask |-> Last(c).mask \cup p.actions[sig].mask \cup {sig}])

(* A frame that leaves the stack pointer where it was. *)
PushFrame_SpKept(s, sig) ==
  LET p == s.p IN
  [p |-> [p EXCEPT !.mem[p.tf.sp - 1] = [tf |-> p.tf, mask |-> p.blocked],
                   !.pending = @ \ {sig},
                   !.tf.epc = sig,
                   !.blocked = @ \cup p.actions[sig].mask \cup {sig}],
   c |-> Entered(s.c, p, sig)]

(* A frame with the interrupted context and the mask in force, and the     *)
(* trapframe redirected to the handler.                                    *)
PushFrame(s, sig) ==
  LET p == s.p
      frame_sp == p.tf.sp - 1 IN
  [p |-> [p EXCEPT !.mem[frame_sp] = [tf |-> p.tf, mask |-> p.blocked],
                   !.pending = @ \ {sig},
                   !.tf = [epc |-> sig, sp |-> frame_sp],
                   !.blocked = @ \cup p.actions[sig].mask \cup {sig}],
   c |-> Entered(s.c, p, sig)]

(* One turn of check_signal's loop.  run stays "ret" while the loop goes   *)
(* on; a signal with no restorer or no room for its frame ends the loop,   *)
(* stays pending, and leaves the signals behind it for the next return.    *)
DeliverOne(s, sig) ==
  LET p == s.p
      act == p.actions[sig]
      cleared == [p EXCEPT !.pending = @ \ {sig}]
  IN CASE p.run # "ret" -> s
       [] act.handler = "SIG_IGN" -> [s EXCEPT !.p = cleared]
       [] act.handler = "SIG_DFL" -> [s EXCEPT !.p = sig_exit(cleared, sig)]
       [] ~act.restorer \/ p.tf.sp = 1 -> [s EXCEPT !.p.run = "user"]
       [] OTHER -> PushFrame(s, sig)

(* check_signal with SIGKILL and SIGSTOP subject to the blocked mask *)
check_signal_Filtered(s) ==
  LET forced == (s.p.pending \ s.p.blocked) \cap Forced
      done == FoldLeft(DeliverOne, s, SetToSortSeq(s.p.pending \ s.p.blocked, <))
  IN IF forced # {}
     THEN [s EXCEPT !.p = sig_exit(@, IF SIGKILL \in forced THEN SIGKILL ELSE SIGSTOP)]
     ELSE IF done.p.run = "ret" THEN [done EXCEPT !.p.run = "user"] ELSE done

(* The loop goes through the signals that were ready when it began,        *)
(* lowest number first.                                                    *)
check_signal(s) ==
  LET forced == s.p.pending \cap Forced
      ready == SetToSortSeq(s.p.pending \ s.p.blocked, <)
      done == FoldLeft(DeliverOne, s, ready)
  IN IF forced # {}
     THEN [s EXCEPT !.p = sig_exit(@, IF SIGKILL \in forced THEN SIGKILL ELSE SIGSTOP)]
     ELSE IF done.p.run = "ret" THEN [done EXCEPT !.p.run = "user"] ELSE done

UserTrapRet ==
  /\ P.run = "ret"
  /\ LET s == check_signal([p |-> P, c |-> ctx])
     IN P' = s.p /\ ctx' = IF s.p.run = "dead" THEN <<>> ELSE s.c

-----------------------------------------------------------------------------
(* What makes a signal pending *)

signal_send(p, sig) == [p EXCEPT !.pending = @ \cup {sig}]

(* kill() by another process, which has the CPU while this one is in the   *)
(* kernel.  signal_send wakes the sleepers on the channel of the process   *)
(* itself; the sleepers of nanosleep are on timer_chan and stay asleep.    *)
Kill(sig) ==
  /\ P.run \in {"ret", "nanosleep", "asleep"}
  /\ P' = signal_send(P, sig)
  /\ UNCHANGED ctx

KillSelf(sig) ==
  /\ P.run = "user"
  /\ P' = [signal_send(P, sig) EXCEPT !.run = "ret"]
  /\ UNCHANGED ctx

(* usertrap on a page fault nothing repairs *)
PageFault ==
  /\ P.run = "user"
  /\ P' = [P EXCEPT !.pending = @ \cup {SIGSEGV}, !.run = "ret"]
  /\ UNCHANGED ctx

(* A tick in user mode: the process yields inside the trap. *)
TimerTrap ==
  /\ P.run = "user"
  /\ P' = [P EXCEPT !.run = "ret"]
  /\ UNCHANGED ctx

-----------------------------------------------------------------------------
(* The calls of the process.  rt_sigpending changes nothing. *)

sys_rt_sigaction(sig, act) ==
  /\ P.run = "user"
  /\ sig \notin Forced
  /\ P' = [P EXCEPT !.actions[sig] = act, !.run = "ret"]
  /\ UNCHANGED ctx

Masked(how, set) ==
  LET new_set == set \ Forced
  IN CASE how = "SIG_BLOCK"   -> P.blocked \cup new_set
       [] how = "SIG_UNBLOCK" -> P.blocked \ new_set
       [] how = "SIG_SETMASK" -> new_set

sys_rt_sigprocmask(how, set) ==
  /\ P.run = "user"
  /\ P' = [P EXCEPT !.blocked = Masked(how, set), !.run = "ret"]
  /\ ctx' = [ctx EXCEPT ![Len(ctx)].mask = Masked(how, set)]

(* The handler returned to its restorer: sp points at the frame. *)
sys_rt_sigreturn ==  \* the frame left below sp is never read again
  /\ P.run = "user"
  /\ P.tf.epc # 0
  /\ LET frame == P.mem[P.tf.sp] IN
     P' = [P EXCEPT !.tf = frame.tf, !.blocked = frame.mask,
                    !.mem[P.tf.sp] = NoFrame, !.run = "ret"]
  /\ ctx' = Front(ctx)

(* exec: pending signals are dropped, caught ones fall back to SIG_DFL,    *)
(* the blocked mask stays; the new program starts on an empty stack.       *)
signal_reset_on_exec ==
  /\ P.run = "user"
  /\ P' = [P EXCEPT
             !.pending = {},
             !.actions = [s \in Sigs |-> IF @[s].handler = "SIG_IGN" THEN @[s] ELSE SIG_DFL],
             !.tf = [epc |-> 0, sp |-> STACK + 1],
             !.mem = [i \in 1 .. STACK |-> NoFrame],
             !.run = "ret"]
  /\ ctx' = <<[sig |-> 0, sp |-> STACK + 1, mask |-> P.blocked]>>

sys_nanosleep ==
  /\ P.run = "user"
  /\ P' = [P EXCEPT !.run = "nanosleep"]
  /\ UNCHANGED ctx

(* nanosleep with the test for signals left to the return to user mode *)
NanosleepLoop_NoSignals(late) ==
  /\ P.run = "nanosleep"
  /\ P' = [P EXCEPT !.run = IF late THEN "ret" ELSE "asleep"]
  /\ UNCHANGED ctx

(* The loop of sys_nanosleep: return 0 once the deadline has passed, EINTR *)
(* with a signal to deliver, else sleep until the next tick.               *)
NanosleepLoop(late) ==
  /\ P.run = "nanosleep"
  /\ P' = [P EXCEPT !.run = IF late \/ signal_pending(P) THEN "ret" ELSE "asleep"]
  /\ UNCHANGED ctx

(* timerintr: wakeup(&timer_chan) *)
timerintr ==
  /\ P.run = "asleep"
  /\ P' = [P EXCEPT !.run = "nanosleep"]
  /\ UNCHANGED ctx

-----------------------------------------------------------------------------
Init ==
  /\ P = Fresh
  /\ ctx = <<[sig |-> 0, sp |-> STACK + 1, mask |-> {}]>>

KernelStep == UserTrapRet \/ (\E late \in BOOLEAN : NanosleepLoop(late))

Next ==
  \/ KernelStep \/ timerintr
  \/ \E sig \in Sigs : Kill(sig) \/ KillSelf(sig)
  \/ PageFault \/ TimerTrap
  \/ \E sig \in Sigs : \E act \in Dispositions[sig] : sys_rt_sigaction(sig, act)
  \/ \E how \in {"SIG_BLOCK", "SIG_UNBLOCK", "SIG_SETMASK"}, set \in SigSets :
       sys_rt_sigprocmask(how, set)
  \/ sys_rt_sigreturn \/ signal_reset_on_exec \/ sys_nanosleep

(* The timer interrupt keeps coming (TimerAlive of Console), and the    *)
(* scheduler runs a runnable process again (RunnableRuns of Proc).         *)
Spec == Init /\ [][Next]_vars /\ WF_vars(timerintr) /\ WF_vars(KernelStep)

-----------------------------------------------------------------------------
(* Whatever was delivered, nested and returned from, the process resumes   *)
(* in the context that was interrupted, on its stack pointer and with the  *)
(* mask that context had: check_signal may push several frames in one      *)
(* return to user mode, each on top of the other, and rt_sigreturn takes   *)
(* them off one by one.                                                    *)
ResumesInterrupted ==
  P.run # "dead" =>
    LET top == Last(ctx)
    IN P.tf = [epc |-> top.sig, sp |-> top.sp] /\ P.blocked = top.mask

Undeliverable(sig) ==
  /\ P.actions[sig].handler \notin {"SIG_DFL", "SIG_IGN"}
  /\ ~P.actions[sig].restorer \/ P.tf.sp = 1

(* User code runs with no deliverable signal left behind: what is pending  *)
(* and not blocked waits behind a signal whose handler has no restorer or  *)
(* whose frame found no room; and never with SIGKILL or SIGSTOP pending,   *)
(* even though sigaction masks may put their bits into the blocked mask    *)
(* (check_signal: "a stale or foreign blocked bit can never defer a        *)
(* kill").                                                                 *)
NoneLeftBehind ==
  P.run = "user" =>
    /\ P.pending \cap Forced = {}
    /\ LET ready == P.pending \ P.blocked IN
       ready # {} => \E sig \in P.pending : Undeliverable(sig) /\ \A t \in ready : sig <= t

(* A signal that arrives while the process sleeps in nanosleep ends the    *)
(* sleep, however far the deadline: nothing wakes timer_chan for a signal, *)
(* but the next tick makes the loop look at the pending set again.         *)
SignalEndsSleep ==
  (P.run = "asleep" /\ signal_pending(P)) ~> (P.run \in {"user", "dead"})

(* signal.c:118-120, "a stale or foreign blocked bit can never defer a     *)
(* kill": a process with SIGKILL pending does not go to sleep again.       *)
KillNotDeferred ==
  [][P.run = "nanosleep" /\ SIGKILL \in P.pending => P'.run # "asleep"]_vars
=============================================================================
