-------------------------------- MODULE Cow ---------------------------------
(***************************************************************************)
(* User pages: the page allocator with its reference counts (kalloc.c),    *)
(* page tables and copy-on-write (vm.c), and what fork, exec, exit, wait4, *)
(* brk, mmap and munmap do to them.                                        *)
(*                                                                         *)
(* The kernel does not sleep in any of this (a file page excepted, whose   *)
(* fault maps it after the read), so each call is one step.  An address    *)
(* space has the image at 0, the heap from 1 up to heap_top, and then the  *)
(* addresses mmap hands out, one page each.  The stack is left out: its    *)
(* pages are as the heap's, present from the start.  Page tables come from *)
(* the same allocator; that they may not be had is ForkENOMEM.             *)
(***************************************************************************)
EXTENDS Integers, FiniteSets

CONSTANTS
  Procs,    \* process slots
  First,    \* the slot of the first process
  Pages,    \* physical pages for users
  NHEAP,    \* bound: image and heap, in pages
  NMAP,     \* bound: pages for mmap
  MaxRef,   \* bound: references to a page, when failed forks leave some behind
  Data      \* what a process stores in a page

Zero == "zero"      \* a cleared page
Backing == "file"   \* a page of the program or of a mapped file
NoPage == "no page"

ASSUME CowAssumption ==
  /\ First \in Procs /\ IsFiniteSet(Procs) /\ IsFiniteSet(Pages)
  /\ NHEAP \in Nat \ {0} /\ NMAP \in Nat /\ MaxRef \in Nat
  /\ NoPage \notin Pages /\ {Zero, Backing} \cap Data = {}

Heap == 0 .. NHEAP - 1
Map == NHEAP .. NHEAP + NMAP - 1
Va == Heap \cup Map
Image == 0
Values == Data \cup {Zero, Backing}
PTEs == Procs \X Va

VARIABLES
  free, refcnt, mem,   \* the free list, refcnt[], and what the pages hold
  pg, wr, cow,         \* the leaf PTEs: page, PTE_W, PTE_COW
  top,                 \* heap_top, also of slots that are free again
  vma,                 \* vm_area[]: "none", "anon" (read and write) or "file" (read)
  state,               \* "unused", "run" or "zombie"
  panic                \* 1 once the kernel has stopped

pageVars == <<free, refcnt, mem>>
pteVars == <<pg, wr, cow>>
vars == <<pageVars, pteVars, top, vma, state, panic>>

Own(p) == {p} \X Va
Mapped(X) == {x \in X : pg[x] # NoPage}
Below(p, n) == {p} \X (Heap \cap 0 .. n - 1)   \* what heap_top = n covers
-----------------------------------------------------------------------------
(* The first process after its exec. *)
Init ==
  /\ \E g \in Pages :
       /\ free = Pages \ {g}
       /\ refcnt = [h \in Pages |-> IF h = g THEN 1 ELSE 0]
       /\ mem = [h \in Pages |-> IF h = g THEN Backing ELSE Zero]
       /\ pg = [x \in PTEs |-> IF x = <<First, Image>> THEN g ELSE NoPage]
  /\ wr = [x \in PTEs |-> 0]
  /\ cow = [x \in PTEs |-> 0]
  /\ top = [p \in Procs |-> IF p = First THEN 1 ELSE 0]
  /\ vma = [x \in Procs \X Map |-> "none"]
  /\ state = [p \in Procs |-> IF p = First THEN "run" ELSE "unused"]
  /\ panic = 0

Running(p) == panic = 0 /\ state[p] = "run"

(* References to g that the PTEs X hold, and kfree of all of them: the     *)
(* last one clears the page and puts it back, with its count at 1.         *)
Held(g, X) == Cardinality({x \in X : pg[x] = g})
Last(g, X) == Held(g, X) > 0 /\ refcnt[g] <= Held(g, X)

kfree(X) ==
  /\ refcnt' = [g \in Pages |-> IF Last(g, X) THEN 1 ELSE refcnt[g] - Held(g, X)]
  /\ free' = free \cup {g \in Pages : Last(g, X)}
  /\ mem' = [g \in Pages |-> IF Last(g, X) THEN Zero ELSE mem[g]]

(* *pte = 0 for all of X *)
Clear(X) ==
  /\ pg' = [x \in PTEs |-> IF x \in X THEN NoPage ELSE pg[x]]
  /\ wr' = [x \in PTEs |-> IF x \in X THEN 0 ELSE wr[x]]
  /\ cow' = [x \in PTEs |-> IF x \in X THEN 0 ELSE cow[x]]

(* uvmunmap and kvmunmap, which skip what is not mapped. *)
uvmunmap(X) == kfree(X) /\ Clear(X)

(* uvmdealloc of the heap of p from page n up. *)
uvmdealloc(p, n) == uvmunmap(Below(p, top[p]) \ Below(p, n))

(* kalloc of page g (which of the free ones does not matter), holding v. *)
kalloc(g, v) ==
  /\ g \in free
  /\ free' = free \ {g}
  /\ refcnt' = [refcnt EXCEPT ![g] = 1]
  /\ mem' = [mem EXCEPT ![g] = v]

(* mappages of one page that was not mapped. *)
mappages(x, g, w) ==
  /\ pg' = [pg EXCEPT ![x] = g]
  /\ wr' = [wr EXCEPT ![x] = w]
  /\ cow' = [cow EXCEPT ![x] = 0]
-----------------------------------------------------------------------------
(* handle_page_fault, from a trap or from copyin and copyout. *)
HeapFault(p, va, g) ==
  /\ Running(p)
  /\ va \in 1 .. top[p] - 1 /\ pg[<<p, va>>] = NoPage
  /\ kalloc(g, Zero)
  /\ mappages(<<p, va>>, g, 1)
  /\ UNCHANGED <<top, vma, state, panic>>

(* handle_anonymous_vma_fault ... *)
AnonFault(p, va, g) ==
  /\ Running(p)
  /\ vma[<<p, va>>] = "anon" /\ pg[<<p, va>>] = NoPage
  /\ kalloc(g, Zero)
  /\ mappages(<<p, va>>, g, 1)
  /\ UNCHANGED <<top, vma, state, panic>>

(* ... and handle_file_vma_fault. *)
FileFault(p, va, g) ==
  /\ Running(p)
  /\ vma[<<p, va>>] = "file" /\ pg[<<p, va>>] = NoPage
  /\ kalloc(g, Backing)
  /\ mappages(<<p, va>>, g, 0)
  /\ UNCHANGED <<top, vma, state, panic>>

(* A store, by the process or by copyout. *)
Store(p, va, v) ==
  /\ Running(p)
  /\ pg[<<p, va>>] # NoPage /\ wr[<<p, va>>] = 1
  /\ mem' = [mem EXCEPT ![pg[<<p, va>>]] = v]
  /\ UNCHANGED <<free, refcnt, pteVars, top, vma, state, panic>>

(* Operators named X_Y, here and below, are faulty variants of X that the  *)
(* properties at the end are tested against; the model does not use them.  *)
CowFault_NoCopy(p, va, g) ==
  LET x == <<p, va>>
      old == pg[x]
  IN  /\ Running(p)
      /\ old # NoPage /\ cow[x] = 1 /\ refcnt[old] > 1
      /\ g \in free
      /\ refcnt' = [refcnt EXCEPT ![g] = 1, ![old] = @ - 1]
      /\ free' = free \ {g}
      /\ mappages(x, g, 1)
      /\ UNCHANGED <<mem, top, vma, state, panic>>

(* handle_cow_fault: kalloc and copy, then kfree of the page it shared. *)
CowFault(p, va, g) ==
  LET x == <<p, va>>
      old == pg[x]
  IN  /\ Running(p)
      /\ old # NoPage /\ cow[x] = 1
      /\ g \in free
      /\ refcnt' = [refcnt EXCEPT ![g] = 1,
                                  ![old] = IF @ > 1 THEN @ - 1 ELSE 1]
      /\ free' = IF refcnt[old] > 1 THEN free \ {g} ELSE (free \ {g}) \cup {old}
      /\ mem' = [mem EXCEPT ![g] = mem[old], ![old] = IF refcnt[old] > 1 THEN @ ELSE Zero]
      /\ mappages(x, g, 1)
      /\ UNCHANGED <<top, vma, state, panic>>

(* usertrap on a store to a page that is present and neither writable nor  *)
(* COW calls the handlers above as well, and mappages panics; outside heap *)
(* and areas, or without a free page, the process gets SIGSEGV.            *)
StoreRemap(p, va) ==
  /\ Running(p)
  /\ va \in 1 .. top[p] - 1 \/ (va \in Map /\ vma[<<p, va>>] # "none")
  /\ pg[<<p, va>>] # NoPage /\ wr[<<p, va>>] = 0 /\ cow[<<p, va>>] = 0
  /\ free # {}
  /\ panic' = 1
  /\ UNCHANGED <<pageVars, pteVars, top, vma, state>>
-----------------------------------------------------------------------------
Share_ParentWrites(p, np, S) ==
  LET Shared(x) == x[2] \in S /\ pg[<<p, x[2]>>] # NoPage /\ x[1] = np
  IN  /\ pg' = [x \in PTEs |-> IF Shared(x) THEN pg[<<p, x[2]>>] ELSE pg[x]]
      /\ cow' = [x \in PTEs |-> IF Shared(x) THEN 1 ELSE cow[x]]
      /\ UNCHANGED wr

(* uvmcopy of the pages S of p: both sides lose PTE_W and get PTE_COW ... *)
Share(p, np, S) ==
  LET Shared(x) == x[2] \in S /\ pg[<<p, x[2]>>] # NoPage /\ x[1] \in {p, np}
  IN  /\ pg' = [x \in PTEs |-> IF Shared(x) THEN pg[<<p, x[2]>>] ELSE pg[x]]
      /\ wr' = [x \in PTEs |-> IF Shared(x) THEN 0 ELSE wr[x]]
      /\ cow' = [x \in PTEs |-> IF Shared(x) THEN 1 ELSE cow[x]]

refcnt_inc_None(X) == UNCHANGED refcnt

(* ... and the page one reference more. *)
refcnt_inc(X) == refcnt' = [g \in Pages |-> refcnt[g] + Held(g, X)]

Fork(p, np) ==
  /\ Running(p) /\ state[np] = "unused"
  /\ Share(p, np, Va)
  /\ refcnt_inc(Own(p))
  /\ top' = [top EXCEPT ![np] = top[p]]
  /\ vma' = [x \in Procs \X Map |-> IF x[1] = np THEN vma[<<p, x[2]>>] ELSE vma[x]]
  /\ state' = [state EXCEPT ![np] = "run"]
  /\ UNCHANGED <<free, mem, panic>>

(* uvmcopy fails at page k, which gets PTE_W back if it had it and loses   *)
(* PTE_COW in any case.  freeproc unmaps what the slot's old heap_top      *)
(* covers; the other references of the new page table are forgotten.       *)
ForkENOMEM(p, np, k) ==
  LET copied == {p} \X {va \in Va : va < k}
  IN  /\ Running(p) /\ state[np] = "unused"
      /\ pg[<<p, k>>] # NoPage
      /\ \A x \in Mapped(Own(p)) : refcnt[pg[x]] < MaxRef
      /\ refcnt_inc({x \in copied : x[2] \in Map \/ x[2] >= top[np]})
      /\ wr' = [x \in PTEs |-> IF x \in Mapped(copied) THEN 0 ELSE wr[x]]
      /\ cow' = [x \in PTEs |-> IF x \in Mapped(copied) THEN 1
                               ELSE IF x = <<p, k>> THEN 0 ELSE cow[x]]
      /\ UNCHANGED <<free, mem, pg, top, vma, state, panic>>

(* exit unmaps the areas ... *)
Exit(p) ==
  /\ Running(p)
  /\ uvmunmap({p} \X {va \in Map : vma[<<p, va>>] # "none"})
  /\ vma' = [x \in Procs \X Map |-> IF x[1] = p THEN "none" ELSE vma[x]]
  /\ state' = [state EXCEPT ![p] = "zombie"]
  /\ UNCHANGED <<top, panic>>

(* ... and freeproc, when the parent calls wait4, the rest. *)
Reap(p) ==
  /\ panic = 0 /\ state[p] = "zombie" /\ p # First
  /\ kfree(Below(p, top[p]))
  /\ Clear(Own(p))
  /\ state' = [state EXCEPT ![p] = "unused"]
  /\ UNCHANGED <<top, vma, panic>>

(* execve_kernel: the new image is there before the old memory goes. *)
Exec(p, g) ==
  LET old == Below(p, top[p]) \cup {x \in {p} \X Map : vma[x] # "none"}
  IN  /\ Running(p) /\ g \in free
      /\ refcnt' = [h \in Pages |-> IF h = g \/ Last(h, old) THEN 1 ELSE refcnt[h] - Held(h, old)]
      /\ free' = (free \ {g}) \cup {h \in Pages : Last(h, old)}
      /\ mem' = [h \in Pages |-> IF h = g THEN Backing ELSE IF Last(h, old) THEN Zero ELSE mem[h]]
      /\ pg' = [x \in PTEs |-> IF x = <<p, Image>> THEN g ELSE IF x[1] = p THEN NoPage ELSE pg[x]]
      /\ wr' = [x \in PTEs |-> IF x[1] = p THEN 0 ELSE wr[x]]
      /\ cow' = [x \in PTEs |-> IF x[1] = p THEN 0 ELSE cow[x]]
      /\ top' = [top EXCEPT ![p] = 1]
      /\ vma' = [x \in Procs \X Map |-> IF x[1] = p THEN "none" ELSE vma[x]]
      /\ UNCHANGED <<state, panic>>

Brk_NoUnmap(p, n) ==
  /\ Running(p) /\ n \in 1 .. NHEAP
  /\ top' = [top EXCEPT ![p] = n]
  /\ UNCHANGED <<pageVars, pteVars, vma, state, panic>>

(* brk: what is above the new top is unmapped. *)
Brk(p, n) ==
  /\ Running(p) /\ n \in 1 .. NHEAP
  /\ uvmdealloc(p, n)
  /\ top' = [top EXCEPT ![p] = n]
  /\ UNCHANGED <<vma, state, panic>>

do_mmap(p, va, kind) ==
  /\ Running(p) /\ vma[<<p, va>>] = "none"
  /\ vma' = [vma EXCEPT ![<<p, va>>] = kind]
  /\ UNCHANGED <<pageVars, pteVars, top, state, panic>>

do_munmap(p, va) ==
  /\ Running(p) /\ vma[<<p, va>>] # "none"
  /\ uvmunmap({<<p, va>>})
  /\ vma' = [vma EXCEPT ![<<p, va>>] = "none"]
  /\ UNCHANGED <<top, state, panic>>
-----------------------------------------------------------------------------
Fault(p) ==
  \/ \E va \in Va, g \in Pages : HeapFault(p, va, g) \/ CowFault(p, va, g)
  \/ \E va \in Map, g \in Pages : AnonFault(p, va, g) \/ FileFault(p, va, g)
  \/ \E va \in Va : StoreRemap(p, va)

Call(p) ==
  \/ \E np \in Procs : Fork(p, np) \/ \E k \in Va : ForkENOMEM(p, np, k)
  \/ Exit(p) \/ Reap(p)
  \/ \E g \in Pages : Exec(p, g)
  \/ \E n \in Heap \cup {NHEAP} : Brk(p, n)
  \/ \E va \in Map : do_munmap(p, va) \/ \E kind \in {"anon", "file"} : do_mmap(p, va, kind)

Next ==
  \E p \in Procs : Fault(p) \/ Call(p) \/ \E va \in Va, v \in Data : Store(p, va, v)

Spec == Init /\ [][Next]_vars
-----------------------------------------------------------------------------
TypeOK ==
  /\ free \subseteq Pages
  /\ refcnt \in [Pages -> Nat] /\ mem \in [Pages -> Values]
  /\ pg \in [PTEs -> Pages \cup {NoPage}]
  /\ wr \in [PTEs -> {0, 1}] /\ cow \in [PTEs -> {0, 1}]
  /\ top \in [Procs -> 0 .. NHEAP]
  /\ vma \in [Procs \X Map -> {"none", "anon", "file"}]
  /\ state \in [Procs -> {"unused", "run", "zombie"}]
  /\ panic \in {0, 1}

(* kfree never frees a page under a mapping: a mapped one is not on the    *)
(* free list and has at least as many references as mappings, also after forks that  *)
(* failed half way.                                                        *)
MappedNotFree ==
  \A g \in Pages : Held(g, PTEs) > 0 => g \notin free /\ refcnt[g] >= Held(g, PTEs)

(* What uvmcopy and handle_cow_fault keep up together: a page that one     *)
(* process can write is mapped nowhere else.                               *)
WritableIsPrivate ==
  \A x, y \in PTEs : wr[x] = 1 /\ pg[x] # NoPage /\ pg[x] = pg[y] => x = y

(* What a process has mapped lies below its heap_top or in one of its      *)
(* areas, so that exit, wait4 and exec, which go by those, give it back.   *)
LayoutCovers ==
  \A p \in Procs : \A x \in Mapped(Own(p)) : x \in Below(p, top[p]) \/ (x[2] \in Map /\ vma[x] # "none")

Live == {p \in Procs : state[p] = "run"}

(* What a process has mapped, and what it finds there, present or not. *)
Kind(x) ==
  IF x[1] \notin Live THEN "none"
  ELSE IF x[2] \in Map THEN vma[x]
  ELSE IF x[2] < top[x[1]] THEN "heap" ELSE "none"

Sees(x) ==
  IF x[1] \notin Live THEN Zero
  ELSE IF pg[x] # NoPage THEN mem[pg[x]]
  ELSE IF Kind(x) = "file" THEN Backing ELSE Zero

Private == INSTANCE PrivateMemory WITH
             memory <- [x \in PTEs |-> Sees(x)], kind <- [x \in PTEs |-> Kind(x)], live <- Live

(* Copy-on-write does not show: every process has a memory of its own that *)
(* only its own stores change, and a child starts with its parent's.       *)
IsPrivateMemory == Private!Spec

(* mappages asserts that a page is mapped once: panic("mappages: remap"). *)
NeverRemaps == panic = 0
=============================================================================
