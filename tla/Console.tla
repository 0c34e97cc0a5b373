------------------------------ MODULE Console ------------------------------
(***************************************************************************)
(* Interrupts and the console, on both architectures: the machine-mode     *)
(* trap, the PLIC and the supervisor traps of RISC-V; the EIOINTC, the     *)
(* PCH-PIC and the trap of LoongArch; the UART drivers (Uart) and the      *)
(* terminal's read and write (devtmpfs/tty.c) above them.                  *)
(*                                                                         *)
(* cpu says what the one CPU executes:                                     *)
(*   "boot"    the boot code, interrupts on                                *)
(*   "user"    user code, interrupts on                                    *)
(*   "kernel"  a system call, interrupts off (every console path is under  *)
(*             a spinlock as well)                                         *)
(*   "idle"    the scheduler, interrupts on, with a reader to resume       *)
(* call is the call in progress: write() with characters left, or read().  *)
(* A pending interrupt is taken before the next instruction of code that   *)
(* runs with interrupts on, so no step of such code is enabled then.  A    *)
(* handler is one step: it runs with interrupts off, and what a device     *)
(* does meanwhile it could have done before or after.                      *)
(*                                                                         *)
(* The lines are level-triggered, and both controllers follow them: the    *)
(* PLIC offers a source that asserts its line and is not in service, the   *)
(* PCH-PIC and the EIOINTC one that is unmasked and enabled.               *)
(***************************************************************************)
EXTENDS Uart, FiniteSets

CONSTANTS
  Arch,      \* the architectures to look at
  MaxWrite,  \* bound: the characters of one write()
  MaxTyped   \* bound: the characters typed

VARIABLES
  arch,      \* the architecture
  cpu, call,
  io,        \* devices and rings (Uart)
  claimed,   \* PLIC: the sources claimed and not completed
  mip,       \* [stip, soft]: mip.STIP, and the SEIP bit software latched
  mtimecmp,  \* RISC-V: a timer interrupt is programmed
  timer,     \* LoongArch: the timer interrupt is pending
  pic,       \* [mask, enable, handlers]: PCH-PIC, EIOINTC, irq_register
  phase,     \* the boot phase
  typed      \* the characters typed so far

riscvVars == <<claimed, mip, mtimecmp>>
loongVars == <<timer, pic>>
cpuVars == <<cpu, call>>
vars == <<arch, cpuVars, io, riscvVars, loongVars, phase, typed>>

Sources == {"uart", "disk"}
NoCall == [op |-> "none", left |-> 0, waiting |-> FALSE]
InterruptsOn == cpu # "kernel"

(* What a controller passes on to the CPU. *)
PlicPending == Lines(io) \ claimed
EioPending == (Lines(io) \cap pic.enable) \ pic.mask
SEIP == mip.soft \/ PlicPending # {}

IrqPending ==
  IF arch = "riscv" THEN phase = 3 /\ (SEIP \/ mip.stip)
                    ELSE timer \/ (phase > 0 /\ EioPending # {})

Init ==
  /\ arch \in Arch
  /\ cpu = "boot" /\ call = NoCall
  /\ io = [fifo |-> <<>>, thr |-> FALSE, ier |-> {}, tx |-> 0, rx |-> 0, disk |-> FALSE]
  /\ claimed = {} /\ mip = [stip |-> FALSE, soft |-> FALSE] /\ mtimecmp = FALSE
  /\ timer = FALSE /\ pic = [mask |-> {}, enable |-> Sources, handlers |-> {}]
  /\ phase = 0 /\ typed = 0

-----------------------------------------------------------------------------
(* The devices *)

Type(c) ==
  /\ phase = 3 /\ typed < MaxTyped
  /\ io' = [io EXCEPT !.fifo = Append(@, c)]
  /\ typed' = typed + 1
  /\ UNCHANGED <<arch, cpuVars, riscvVars, loongVars, phase>>

Sent ==
  /\ io.thr
  /\ io' = [io EXCEPT !.thr = FALSE]
  /\ UNCHANGED <<arch, cpuVars, riscvVars, loongVars, phase, typed>>

DiskDone ==
  /\ phase = 3 /\ ~io.disk
  /\ cpu = "kernel"           \* a request of the running call completed
  /\ io' = [io EXCEPT !.disk = TRUE]
  /\ UNCHANGED <<arch, cpuVars, riscvVars, loongVars, phase, typed>>

virtio_disk_intr(s) == [s EXCEPT !.disk = FALSE]

-----------------------------------------------------------------------------
(* RISC-V.  QEMU latches the SEIP bit a write puts into mip into a bit of  *)
(* its own, and mip.SEIP is that bit or the line of the PLIC.              *)

m_trap_Rmw(stip) ==
  mip' = [stip |-> stip, soft |-> SEIP]

m_trap(stip) ==
  mip' = [stip |-> stip, soft |-> FALSE]

(* The CLINT's timer interrupt, which even a system call cannot mask. *)
MachineTimer ==
  /\ arch = "riscv" /\ mtimecmp
  /\ mtimecmp' = FALSE
  /\ m_trap(TRUE)
  /\ UNCHANGED <<arch, cpuVars, io, claimed, loongVars, phase, typed>>

(* The ecall: the next timer interrupt is programmed, and STIP cleared. *)
sbi_set_timer == mtimecmp' = TRUE /\ m_trap(FALSE)

TimerTrap ==
  /\ arch = "riscv" /\ phase = 3 /\ InterruptsOn
  /\ mip.stip /\ ~SEIP         \* an external interrupt comes first
  /\ sbi_set_timer
  /\ UNCHANGED <<arch, cpuVars, io, claimed, loongVars, phase, typed>>

plic_claim_interrupt == IF "disk" \in PlicPending THEN "disk"
                        ELSE IF "uart" \in PlicPending THEN "uart" ELSE "none"

plic_complete_interrupt(inService, irq) == inService \ {irq}

(* A spurious interrupt claims nothing and returns. *)
ExternalTrap ==
  /\ arch = "riscv" /\ phase = 3 /\ InterruptsOn /\ SEIP
  /\ LET irq == plic_claim_interrupt IN
     /\ CASE irq = "uart" -> io' \in uartintr(io)
          [] irq = "disk" -> io' = virtio_disk_intr(io)
          [] irq = "none" -> io' = io
     /\ claimed' = IF irq = "none" THEN claimed
                   ELSE plic_complete_interrupt(claimed \cup {irq}, irq)
  /\ UNCHANGED <<arch, cpuVars, mip, mtimecmp, loongVars, phase, typed>>

(* s_mode_start: uart_init, plic_init_uart, timerinit *)
s_mode_start ==
  /\ arch = "riscv" /\ cpu = "boot"
  /\ io' = uart_init(io)
  /\ sbi_set_timer
  /\ phase' = 3 /\ cpu' = "user"
  /\ UNCHANGED <<arch, call, claimed, loongVars, typed>>

-----------------------------------------------------------------------------
(* LoongArch *)

TimerDue ==
  /\ arch = "loongarch" /\ ~timer
  /\ timer' = TRUE
  /\ UNCHANGED <<arch, cpuVars, io, riscvVars, pic, phase, typed>>

pch_pic_mask(p, v) == [p EXCEPT !.mask = @ \cup {v}]
pch_pic_unmask(p, v) == [p EXCEPT !.mask = @ \ {v}]
eiointc_disable_vector(p, v) == [p EXCEPT !.enable = @ \ {v}]
eiointc_enable_vector(p, v) == [p EXCEPT !.enable = @ \cup {v}]
pch_pic_configure(p, v) == pch_pic_mask(p, v)
eiointc_configure_vector(p, v) == eiointc_disable_vector(p, v)
irq_register(p, v) == [p EXCEPT !.handlers = @ \cup {v}]
eiointc_init(p) == [p EXCEPT !.enable = {}]
pch_pic_init(p) == [p EXCEPT !.mask = Sources]

(* The handlers say whether the interrupt was theirs. *)
uart_interrupt(s) ==
  IF UartLine(s) THEN {[io |-> t, handled |-> TRUE] : t \in uartintr(s)}
                 ELSE {[io |-> s, handled |-> FALSE]}

virtio_blk_irq_handler(s) == {[io |-> virtio_disk_intr(s), handled |-> s.disk]}

irq_dispatch(s, p, v) ==
  CASE v \notin p.handlers -> {[io |-> s, handled |-> FALSE]}
    [] v = "uart" -> uart_interrupt(s)
    [] v = "disk" -> virtio_blk_irq_handler(s)

(* A vector that stays masked once it was handled *)
DispatchOne_Masked(s, v) ==
  {[io |-> r.io, pic |-> pch_pic_mask(s.pic, v)] : r \in irq_dispatch(s.io, s.pic, v)}

(* One vector of the dispatch: masked, acknowledged, handled, unmasked; a  *)
(* vector nobody handles is disabled and stays masked.                     *)
DispatchOne(s, v) ==
  {[io |-> r.io,
    pic |-> IF r.handled THEN pch_pic_unmask(pch_pic_mask(s.pic, v), v)
            ELSE eiointc_disable_vector(pch_pic_mask(s.pic, v), v)] :
     r \in irq_dispatch(s.io, s.pic, v)}

(* The vectors pending at the start, in order: the UART's is the lower. *)
platform_external_irq_dispatch ==
  LET start == [io |-> io, pic |-> pic]
      uart == IF "uart" \in EioPending THEN DispatchOne(start, "uart") ELSE {start}
  IN UNION {IF "disk" \in EioPending THEN DispatchOne(s, "disk") ELSE {s} : s \in uart}

(* usertrap and kerneltrap: the external interrupts, then the timer's. *)
LoongTrap ==
  /\ arch = "loongarch" /\ InterruptsOn /\ IrqPending
  /\ \E s \in (IF phase > 0 THEN platform_external_irq_dispatch
               ELSE {[io |-> io, pic |-> pic]}) : io' = s.io /\ pic' = s.pic
  /\ timer' = FALSE
  /\ UNCHANGED <<arch, cpuVars, riscvVars, phase, typed>>

BootStep(n) == arch = "loongarch" /\ cpu = "boot" /\ ~IrqPending /\ phase = n /\ phase' = n + 1

platform_irq_init ==
  /\ BootStep(0)
  /\ io' = [uart_init(io) EXCEPT !.ier = {}]
  /\ pic' = pch_pic_init(eiointc_init(pic))
  /\ UNCHANGED <<arch, cpuVars, riscvVars, timer, typed>>

uart_irq_init ==
  /\ BootStep(1)
  /\ io' = [io EXCEPT !.ier = {"rx"}]
  /\ LET ready == irq_register(eiointc_configure_vector(pch_pic_configure(pic, "uart"),
                                                        "uart"), "uart")
     IN pic' = pch_pic_unmask(eiointc_enable_vector(ready, "uart"), "uart")
  /\ UNCHANGED <<arch, cpuVars, riscvVars, timer, typed>>

(* arch_pci_intx_register and arch_pci_intx_enable, from virtio_disk_init *)
arch_pci_intx_register ==
  /\ BootStep(2)
  /\ LET ready == irq_register(eiointc_configure_vector(pch_pic_configure(pic, "disk"),
                                                        "disk"), "disk")
     IN pic' = pch_pic_unmask(eiointc_enable_vector(ready, "disk"), "disk")
  /\ cpu' = "user"
  /\ UNCHANGED <<arch, call, io, riscvVars, timer, typed>>

-----------------------------------------------------------------------------
(* write() and read() of the terminal *)

UserRuns == cpu = "user" /\ ~IrqPending

SysWrite(n) ==
  /\ UserRuns
  /\ cpu' = "kernel" /\ call' = [NoCall EXCEPT !.op = "write", !.left = n]
  /\ UNCHANGED <<arch, io, riscvVars, loongVars, phase, typed>>

SysRead ==
  /\ UserRuns
  /\ cpu' = "kernel" /\ call' = [NoCall EXCEPT !.op = "read"]
  /\ UNCHANGED <<arch, io, riscvVars, loongVars, phase, typed>>

Writing == cpu = "kernel" /\ call.op = "write"

(* hal_console_putc, RISC-V: tx_put spins while the ring is full (no step  *)
(* is enabled), and only the first character of an empty ring starts the   *)
(* transmitter; the interrupt sends the rest.                              *)
Putc ==
  /\ Writing /\ arch = "riscv" /\ call.left > 0
  /\ ~tx_full(io)
  /\ io' \in (IF tx_empty(io) THEN uart_putintr(tx_put(io)) ELSE {tx_put(io)})
  /\ call' = [call EXCEPT !.left = @ - 1]
  /\ UNCHANGED <<arch, cpu, riscvVars, loongVars, phase, typed>>

(* hal_console_putc, LoongArch, with interrupts off: a full ring is pushed *)
(* on, and the call returns only with the ring empty (waiting).            *)
PutcLoong ==
  /\ Writing /\ arch = "loongarch" /\ call.left > 0 /\ ~call.waiting
  /\ IF tx_full(io)
     THEN io' \in uart_putintr(io) /\ UNCHANGED call
     ELSE /\ io' \in (IF tx_empty(io) THEN uart_putintr(tx_put(io)) ELSE {tx_put(io)})
          /\ call' = [call EXCEPT !.waiting = TRUE]
  /\ UNCHANGED <<arch, cpu, riscvVars, loongVars, phase, typed>>

PutcDrain ==
  /\ Writing /\ call.waiting
  /\ IF tx_empty(io)
     THEN UNCHANGED io /\ call' = [call EXCEPT !.left = @ - 1, !.waiting = FALSE]
     ELSE io' \in uart_putintr(io) /\ UNCHANGED call
  /\ UNCHANGED <<arch, cpu, riscvVars, loongVars, phase, typed>>

WriteDone ==
  /\ Writing /\ call.left = 0
  /\ cpu' = "user" /\ call' = NoCall
  /\ UNCHANGED <<arch, io, riscvVars, loongVars, phase, typed>>

(* devtmpfs_tty_read: one character, or yield and look again. *)
Getc ==
  /\ cpu = "kernel" /\ call.op = "read"
  /\ IF io.rx > 0
     THEN io' = rx_get(io) /\ cpu' = "user" /\ call' = NoCall
     ELSE cpu' = "idle" /\ UNCHANGED <<io, call>>
  /\ UNCHANGED <<arch, riscvVars, loongVars, phase, typed>>

Resume ==
  /\ cpu = "idle" /\ ~IrqPending
  /\ cpu' = "kernel"
  /\ UNCHANGED <<arch, call, io, riscvVars, loongVars, phase, typed>>

-----------------------------------------------------------------------------
Boot == s_mode_start \/ platform_irq_init \/ uart_irq_init \/ arch_pci_intx_register
Trap == TimerTrap \/ ExternalTrap \/ LoongTrap
KernelStep == Putc \/ PutcLoong \/ PutcDrain \/ WriteDone \/ Getc \/ Resume

Next ==
  \/ \E c \in {"key", "^C"} : Type(c)
  \/ Sent \/ DiskDone \/ MachineTimer \/ TimerDue
  \/ Boot \/ Trap \/ KernelStep
  \/ \E n \in 1 .. MaxWrite : SysWrite(n)
  \/ SysRead

(* The CPU executes: it takes the interrupts that are pending and goes on  *)
(* with the boot or the call it is in.  The transmitter sends, and the     *)
(* timers expire.  Nobody has to type, and programs need not call.  The    *)
(* fairness of the kernel is strong: its steps are short of the timer's    *)
(* period (1000000 time units on RISC-V), so that a tick cannot come back  *)
(* before the scheduler has gone on.                                       *)
Spec ==
  /\ Init /\ [][Next]_vars
  /\ WF_vars(Boot) /\ WF_vars(Trap) /\ SF_vars(KernelStep)
  /\ WF_vars(Sent) /\ WF_vars(MachineTimer) /\ WF_vars(TimerDue)

-----------------------------------------------------------------------------
(* tx_put spins with interrupts off on a full ring that only an interrupt  *)
(* would drain.                                                            *)
Spinning == arch = "riscv" /\ Writing /\ call.left > 0 /\ tx_full(io)

(* An idle transmitter with characters waiting in the ring is fed: the     *)
(* transmit interrupt is on whenever write() leaves characters behind, and *)
(* it is delivered again after each handler, unless RISC-V's tx_put spins  *)
(* on a full ring.                                                         *)
TransmitterFed == (io.tx > 0 /\ ~io.thr) ~> (io.thr \/ tx_empty(io) \/ Spinning)

(* A key typed while read() waits ends the read: its interrupt is          *)
(* delivered in the scheduler between two looks, and the source that       *)
(* raised it is back in service for the next key.                          *)
InputArrives ==
  (call.op = "read" /\ \E i \in DOMAIN io.fifo : io.fifo[i] = "key") ~> (call.op # "read")

(* A timer interrupt is served and the next one comes, whatever else was   *)
(* pending when the machine-mode handler rewrote mip: an external          *)
(* interrupt goes first, so that one that never goes away would be all the *)
(* CPU ever does (mtrap.c, "never write the SEIP bit back into mip").      *)
TimerAlive == (mip.stip \/ timer) ~> ((~mip.stip /\ ~timer) \/ Spinning)
=============================================================================
