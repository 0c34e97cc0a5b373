---------------------------- MODULE InodeCache ----------------------------
(***************************************************************************)
(* The inode cache (inode_cache.c), as functions of the kernel state s.    *)
(* s.slot[i] is icache.inodes[i]: the inode it caches (dev, ino), its      *)
(* references, and what the file system above keeps in it.  s.lru is the   *)
(* list, its tail first.  A slot whose count is 0 keeps its identity until *)
(* it is taken for another inode.                                          *)
(*                                                                         *)
(* private_data is 0, Page (a page the cache took from kalloc), or the     *)
(* number of the tmpfs inode it points to; tmpfs never reuses a number.    *)
(***************************************************************************)
EXTENDS Integers, Sequences, FiniteSets, SequencesExt

CONSTANT NINODES   \* slots of the cache, 50 in the code

ASSUME InodeCacheAssumption == NINODES \in Nat \ {0}

Slots == 1 .. NINODES
NoNode == 0
NoData == 0
Page == -1

\* An operator that yields an inode gives the next state with it.
Found(s, ip) == [s |-> s, ip |-> ip]

EmptySlot == [dev |-> 0, ino |-> 0, count |-> 0, nlinks |-> 0, type |-> "none",
              private_data |-> NoData, pd_owned |-> FALSE]

icache_init == [slot |-> [i \in Slots |-> EmptySlot],
                lru  |-> [k \in Slots |-> k]]

(***************************************************************************)
(* get_inode: the slot that holds (dev, ino), whatever its count, or the   *)
(* first unreferenced one from the tail.  A slot that changes device loses *)
(* what the other file system kept in it.  page tells whether kalloc has   *)
(* one.                                                                    *)
(***************************************************************************)
WithPage(sl, alloc, page) ==
  IF sl.private_data = NoData /\ alloc
  THEN [sl EXCEPT !.private_data = IF page THEN Page ELSE NoData, !.pd_owned = TRUE]
  ELSE sl

Referenced(sl, alloc, page) ==
  IF sl.count > 0 THEN [sl EXCEPT !.count = @ + 1]
  ELSE WithPage([sl EXCEPT !.count = 1], alloc, page)

TakenFor(sl, dev, ino, alloc, page) ==
  LET kept == IF sl.dev # dev
              THEN [sl EXCEPT !.private_data = NoData, !.pd_owned = FALSE]
              ELSE sl
  IN  WithPage([kept EXCEPT !.dev = dev, !.ino = ino, !.count = 1], alloc, page)

get_inode(s, dev, ino, alloc, page) ==
  LET hits == {i \in Slots : s.slot[i].dev = dev /\ s.slot[i].ino = ino}
      free == {k \in Slots : s.slot[s.lru[k]].count = 0}
      hit  == Min(hits)
      old  == s.lru[Min(free)]
  IN  IF hits # {}
      THEN Found([s EXCEPT !.slot[hit] = Referenced(@, alloc, page)], hit)
      ELSE IF free # {}
      THEN Found([s EXCEPT !.slot[old] = TakenFor(@, dev, ino, alloc, page)], old)
      ELSE Found(s, NoNode)

(***************************************************************************)
(* put_inode: the last reference to an inode without links empties the     *)
(* slot and makes it the last one get_inode takes.                         *)
(***************************************************************************)
put_inode(s, ip) ==
  IF s.slot[ip].count = 1 /\ s.slot[ip].nlinks = 0
  THEN [s EXCEPT !.slot[ip] = [@ EXCEPT !.count = 0, !.private_data = NoData,
                                        !.pd_owned = FALSE],
                 !.lru = Append(Remove(@, ip), ip)]
  ELSE IF s.slot[ip].count = 0 THEN s
  ELSE [s EXCEPT !.slot[ip].count = @ - 1]
=============================================================================
