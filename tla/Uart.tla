-------------------------------- MODULE Uart --------------------------------
(***************************************************************************)
(* The 16550 UART and the interrupt-driven console drivers above it:       *)
(* arch/riscv/driver/uart.c with the rings of platform/uart.h, and         *)
(* arch/loongarch/driver/uart.c.  Operators only: each takes the state io  *)
(* of device and rings and returns the set of states it may lead to.       *)
(*   fifo  characters received and not read yet ("key", or "^C")           *)
(*   thr   the transmitter holds a character                               *)
(*   ier   the interrupts enabled in the IER, of {"rx", "tx"}              *)
(*   tx    the number of characters in txbuf                               *)
(*   rx    the number of characters in rxbuf                               *)
(*   disk  the disk asserts its interrupt line                             *)
(* What the characters are is left out: a ring is its length.              *)
(***************************************************************************)
EXTENDS Naturals, Sequences

CONSTANTS TXBUF_SIZE, RXBUF_SIZE

ASSUME RingSizes == TXBUF_SIZE > 0 /\ RXBUF_SIZE > 0

(* The device's interrupt line: a character to read, or room to send. *)
UartLine(io) == \/ "rx" \in io.ier /\ io.fifo # <<>>
                \/ "tx" \in io.ier /\ ~io.thr

Lines(io) == {s \in {"uart", "disk"} : IF s = "uart" THEN UartLine(io) ELSE io.disk}

uart_init(io) == [io EXCEPT !.ier = {"rx"}, !.fifo = <<>>, !.thr = FALSE]

rx_full(io) == io.rx >= RXBUF_SIZE
tx_full(io) == io.tx >= TXBUF_SIZE
tx_empty(io) == io.tx = 0

rx_put(io) == IF rx_full(io) THEN io ELSE [io EXCEPT !.rx = @ + 1]
rx_get(io) == [io EXCEPT !.rx = @ - 1]
tx_put(io) == [io EXCEPT !.tx = @ + 1]

TxIntr(io, on) == [io EXCEPT !.ier = IF on THEN @ \cup {"tx"} ELSE @ \ {"tx"}]

(* uart_putintr: n characters move to the transmitter, one each time it is *)
(* found idle.  It may become idle again at once, so n is at least 1 when  *)
(* it was idle, and the loop stops early only at a busy transmitter.       *)
uart_putintr_Off(io) ==
  {TxIntr([io EXCEPT !.tx = @ - n, !.thr = @ \/ n > 0], FALSE) :
     n \in {k \in 0 .. io.tx : io.thr \/ io.tx = 0 \/ k > 0}}

uart_putintr(io) ==
  {TxIntr([io EXCEPT !.tx = @ - n, !.thr = @ \/ n > 0], n < io.tx) :
     n \in {k \in 0 .. io.tx : io.thr \/ io.tx = 0 \/ k > 0}}

(* ^C is not buffered: it goes to terminal_release_input (CtrlCUser and    *)
(* CtrlCKernel of Proc).                                                   *)
tty_handle_intr(io, c) == IF c = "^C" THEN io ELSE rx_put(io)

(* uartintr reads the receiver empty, then feeds the transmitter. *)
uartintr(io) ==
  LET Drain[n \in 0 .. Len(io.fifo)] ==
        IF n = 0 THEN io ELSE tty_handle_intr(Drain[n - 1], io.fifo[n])
  IN uart_putintr([Drain[Len(io.fifo)] EXCEPT !.fifo = <<>>])
=============================================================================
