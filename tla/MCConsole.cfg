SPECIFICATION Spec
CONSTANTS
  Arch = {"riscv", "loongarch"}
  TXBUF_SIZE = 3
  RXBUF_SIZE = 2
  MaxWrite = 4
  MaxTyped = 4
CHECK_DEADLOCK FALSE
PROPERTIES TransmitterFed InputArrives TimerAlive
