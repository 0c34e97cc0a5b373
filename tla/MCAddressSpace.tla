--------------------------- MODULE MCAddressSpace ---------------------------
(* Instances of AddressSpace for TLC: pages of two bytes, a program of two *)
(* segments in pages 0 and 1, its guard page 2, a heap from page 3, areas  *)
(* from page 4 and a stack of one page, 6.                                 *)
EXTENDS AddressSpace

MCSegments == <<[va |-> 0, memsz |-> 2, prot |-> {"r", "x"}],
                [va |-> 2, memsz |-> 1, prot |-> {"r", "w"}]>>
=============================================================================
