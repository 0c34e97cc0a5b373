---------------------------- MODULE AddressSpace ----------------------------
(***************************************************************************)
(* The layout of a process' memory: image, heap, mmap areas and stack      *)
(* (mm/mmap.c, brk, core/exec.c) and the page faults that fill it (vm.c    *)
(* and trap.c of both ports, of which arch names the one that runs).       *)
(* Addresses are bytes, PGSIZE to a page.                                  *)
(*                                                                         *)
(* pt is a page table: a function on the present pages, with what a page   *)
(* holds (src) and the accesses its entry allows (prot, of "r", "w", "x"). *)
(* src is "image", "zero", <<file, page>> as it was filled, and "data"     *)
(* once the program stored to it.  Sharing and copy-on-write are left to   *)
(* Cow, so a fork changes nothing here.                                    *)
(*                                                                         *)
(* A call or a fault is one step: nothing in it gives up the CPU but the   *)
(* read of a file's page, before the page is mapped.  After a panic the    *)
(* machine halts, so the runs allow it to stop; after spoiled becomes true *)
(* nothing is claimed.                                                     *)
(***************************************************************************)
EXTENDS Integers, Sequences, FiniteSets, SequencesExt, Functions, TLC

CONSTANTS
  PGSIZE,      \* 4096 in the code
  Segments,    \* the program's segments, ascending: [va, memsz, prot]
  MMAP_START,  \* 64 MB
  STACK_BOTTOM, STACK_TOP,  \* USER_VA_TOP - EXEC_STACK_PAGES * PGSIZE, USER_VA_TOP
  NVMA,        \* slots for areas, 16 in the code
  Files,       \* the files a program maps
  Lens,        \* the lengths it passes to mmap and munmap
  Offsets,     \* the file offsets, in pages
  Pages        \* bound: the free pages an execve may find

ASSUME LayoutAssumption ==
  /\ PGSIZE \in Nat \ {0} /\ NVMA \in Nat
  /\ {MMAP_START % PGSIZE, STACK_BOTTOM % PGSIZE, STACK_TOP % PGSIZE} = {0}
  /\ MMAP_START < STACK_BOTTOM /\ STACK_BOTTOM < STACK_TOP

VARIABLES
  arch,      \* "riscv" or "loongarch"
  pt,        \* the page table
  heap_top,  \* the break
  vm_area,   \* the areas: [used, va_start, va_end, file, off, prot]
  panicked,  \* the kernel halted: panic of mappages, or trap_halt
  asked,     \* history: what each page of heap and areas is to hold
  lost,      \* history: pages that were in a page table when it was freed
  spoiled    \* history: brk or mmap gave out a range over another

vars == <<arch, pt, heap_top, vm_area, panicked, asked, lost, spoiled>>

NoFile == "none"
NoArea == [used |-> FALSE, va_start |-> 0, va_end |-> 0, file |-> NoFile, off |-> 0, prot |-> {}]
Areas == 1 .. NVMA

PGROUNDDOWN(a) == (a \div PGSIZE) * PGSIZE
PGROUNDUP(a) == PGROUNDDOWN(a + PGSIZE - 1)
PagesIn(from, to) == {p \in from \div PGSIZE .. to \div PGSIZE : p * PGSIZE < to}

-----------------------------------------------------------------------------
(* vm.c.  A table after uvmunmap of the pages from va, and after uvmalloc  *)
(* with m pages of memory: what it mapped is given back when it fails.     *)
uvmunmap(t, va, end) == Restrict(t, DOMAIN t \ PagesIn(va, PGROUNDUP(end)))

uvmdealloc(t, va, end) == IF PGROUNDUP(va) < end THEN uvmunmap(t, PGROUNDUP(va), end) ELSE t

uvmalloc(new, va, size, src, prot) ==
  LET range == PagesIn(PGROUNDDOWN(va), PGROUNDUP(va + size))
  IN  IF Cardinality(range) > new.m THEN [new EXCEPT !.ok = FALSE]
      ELSE [new EXCEPT !.m = @ - Cardinality(range),
                       !.t = [p \in range |-> [src |-> src, prot |-> prot]] @@ @]

free_user_layout(t, top, stack_bottom, stack_top) ==
  LET heapless == IF top > 0 THEN uvmunmap(t, 0, top) ELSE t
  IN  IF stack_top > stack_bottom THEN uvmunmap(heapless, stack_bottom, stack_top) ELSE heapless

-----------------------------------------------------------------------------
(* exec.c *)

(* uvmalloc and loadseg of segment i; the file may end early (badFile). *)
LoadSegment(new, i, badFile) ==
  LET ph == Segments[i]
      space == uvmalloc(new, ph.va, ph.memsz, "image", ph.prot)
  IN  IF ~new.ok THEN new
      ELSE [space EXCEPT !.va_end = ph.va + ph.memsz, !.ok = @ /\ badFile # i]

LoadSegments(m, badFile) ==
  LET upTo[i \in 0 .. Len(Segments)] ==
        IF i = 0 THEN [t |-> <<>>, m |-> m, ok |-> TRUE, va_end |-> 0]
        ELSE LoadSegment(upTo[i - 1], i, badFile)
  IN  upTo[Len(Segments)]

(* The new table, with what the error path would free: top and stack.  The *)
(* guard page allows no access; bigArgs: the arguments overflow the stack. *)
Build(m, badFile, bigArgs) ==
  LET image == LoadSegments(m, badFile)
      sz == PGROUNDUP(image.va_end)
      guard == uvmalloc(image, sz, PGSIZE, "zero", {})
      stack == uvmalloc(guard, STACK_BOTTOM, STACK_TOP - STACK_BOTTOM, "zero", {"r", "w"})
  IN  IF ~image.ok THEN image @@ [top |-> sz, stack_top |-> STACK_BOTTOM]
      ELSE IF ~guard.ok THEN guard @@ [top |-> sz, stack_top |-> STACK_BOTTOM]
      ELSE IF ~stack.ok THEN stack @@ [top |-> sz + PGSIZE, stack_top |-> STACK_BOTTOM]
      ELSE [stack EXCEPT !.ok = ~bigArgs] @@ [top |-> sz + PGSIZE, stack_top |-> STACK_TOP]

Program == Build(Cardinality(PagesIn(0, STACK_TOP)), 0, FALSE)
heap_bottom == Program.top

free_pagetable_vma(t) ==
  Restrict(t, DOMAIN t \ UNION {PagesIn(vm_area[i].va_start, vm_area[i].va_end) :
                                 i \in {j \in Areas : vm_area[j].used}})

(* What is left of the old address space once it was freed. *)
Remains == DOMAIN free_user_layout(free_pagetable_vma(pt), heap_top, STACK_BOTTOM, STACK_TOP)

FreshProgram ==
  /\ pt' = Program.t
  /\ heap_top' = heap_bottom
  /\ vm_area' = [i \in Areas |-> NoArea]
  /\ asked' = <<>>
  /\ lost' = lost \cup Remains

execve(m, badFile, bigArgs) ==
  LET new == Build(m, badFile, bigArgs)
  IN  IF new.ok THEN FreshProgram /\ UNCHANGED <<arch, panicked, spoiled>>
      ELSE /\ lost' = lost \cup DOMAIN free_user_layout(new.t, new.top, STACK_BOTTOM, new.stack_top)
           /\ UNCHANGED <<arch, pt, heap_top, vm_area, asked, panicked, spoiled>>

(* exit, which unmaps the areas, and freeproc; another program takes over. *)
exit == FreshProgram /\ UNCHANGED <<arch, panicked, spoiled>>

-----------------------------------------------------------------------------
(* mmap.c and brk *)

Overlaps(v, addr, len) == v.used /\ addr < v.va_end /\ v.va_start < addr + len

find_overlapping_vma(addr, len) ==
  IF addr = 0 THEN 0 ELSE SelectInSeq(vm_area, LAMBDA v : Overlaps(v, addr, len))

(* The starts find_free_range accepts: no area in the way, and below the   *)
(* stack (its first test takes stack_bottom from slot 0 of proc[], which   *)
(* exec sets to the same address in every process).                        *)
FreeStarts(len) ==
  {a \in {p * PGSIZE : p \in PagesIn(MMAP_START, STACK_BOTTOM)} :
     \A i \in Areas : ~Overlaps(vm_area[i], a, len)}

(* Where mmap maps len bytes, 0 for ENOMEM: no room, or no slot. *)
find_free_range(len) ==
  IF len > STACK_BOTTOM - MMAP_START \/ FreeStarts(len) = {} \/ \A i \in Areas : vm_area[i].used
  THEN 0 ELSE Min(FreeStarts(len))

Source(file, off, i) == IF file = NoFile THEN "zero" ELSE <<file, off + i>>

do_mmap(len, prot, file, off) ==
  LET length == PGROUNDUP(len)
      start == find_free_range(length)
      slot == Min({i \in Areas : ~vm_area[i].used})
  IN  /\ start # 0
      /\ vm_area' = [vm_area EXCEPT ![slot] =
           [used |-> TRUE, va_start |-> start, va_end |-> start + length,
            file |-> file, off |-> off, prot |-> prot]]
      /\ asked' = [p \in PagesIn(start, start + length) |->
                     Source(file, off, p - start \div PGSIZE)] @@ asked
      /\ spoiled' = \/ start + length > STACK_BOTTOM
                    \/ PagesIn(start, start + length) \cap DOMAIN asked # {}
      /\ UNCHANGED <<arch, pt, heap_top, panicked, lost>>

(* Mutant: the offset into the file stays when the head of the area goes. *)
Trimmed_OffKept(v, addr, end) ==
  IF addr = v.va_start /\ end = v.va_end THEN NoArea
  ELSE IF addr = v.va_start THEN [v EXCEPT !.va_start = end]
  ELSE [v EXCEPT !.va_end = addr]

(* What munmap leaves of an area: nothing, its tail, or its head. *)
Trimmed(v, addr, end) ==
  IF addr = v.va_start /\ end = v.va_end THEN NoArea
  ELSE IF addr = v.va_start
  THEN [v EXCEPT !.va_start = end,
                 !.off = IF v.file = NoFile THEN @ ELSE @ + (end - v.va_start) \div PGSIZE]
  ELSE [v EXCEPT !.va_end = addr]

do_munmap(addr, len) ==
  LET end == addr + PGROUNDUP(len)
      i == find_overlapping_vma(addr, PGROUNDUP(len))
      v == vm_area[i]
  IN  /\ addr % PGSIZE = 0 /\ addr # 0
      /\ i # 0
      /\ v.va_start <= addr /\ end <= v.va_end
      /\ addr = v.va_start \/ end = v.va_end       \* a middle split is EOPNOTSUPP
      /\ pt' = Restrict(pt, DOMAIN pt \ PagesIn(addr, end))
      /\ vm_area' = [vm_area EXCEPT ![i] = Trimmed(v, addr, end)]
      /\ asked' = Restrict(asked, DOMAIN asked \ PagesIn(addr, end))
      /\ UNCHANGED <<arch, heap_top, panicked, lost, spoiled>>

HeapPages(top) == PagesIn(heap_bottom, PGROUNDUP(top))

brk(addr) ==
  /\ heap_bottom <= addr /\ addr < STACK_BOTTOM
  /\ pt' = IF addr < heap_top THEN uvmdealloc(pt, addr, heap_top) ELSE pt
  /\ heap_top' = addr
  /\ asked' = [p \in HeapPages(addr) \ HeapPages(heap_top) |-> "zero"]
              @@ Restrict(asked, DOMAIN asked \ (HeapPages(heap_top) \ HeapPages(addr)))
  /\ spoiled' = (HeapPages(addr) \cap (DOMAIN asked \ HeapPages(heap_top)) # {})
  /\ UNCHANGED <<arch, vm_area, panicked, lost>>
-----------------------------------------------------------------------------
(* Page faults.  The state after one is [t, panicked]; mem: kalloc has a   *)
(* page.                                                                   *)
Unserved == [t |-> pt, panicked |-> panicked]

mappages(p, src, prot) ==
  IF p \in DOMAIN pt THEN [Unserved EXCEPT !.panicked = TRUE]
  ELSE [Unserved EXCEPT !.t = (p :> [src |-> src, prot |-> prot]) @@ pt]

(* A LoongArch entry allows reads and fetches it does not deny. *)
HeapProt == IF arch = "riscv" THEN {"r", "w"} ELSE {"r", "w", "x"}

handle_page_fault(p, mem) ==
  IF p * PGSIZE > STACK_BOTTOM \/ p * PGSIZE < heap_bottom \/ ~mem THEN Unserved
  ELSE mappages(p, "zero", HeapProt)

handle_vma_fault(p, mem) ==
  LET v == vm_area[find_overlapping_vma(p * PGSIZE, PGSIZE)]
  IN  IF ~mem THEN Unserved
      ELSE mappages(p, Source(v.file, v.off, p - v.va_start \div PGSIZE), v.prot)

(* Mutant: the heap ends with its last whole page. *)
InHeap_WholePages(a) == heap_bottom <= a /\ a < PGROUNDDOWN(heap_top)

InHeap(a) == heap_bottom <= a /\ a < heap_top

(* usertrap: what is not served gets SIGSEGV.  On RISC-V the first byte    *)
(* above the heap is neither below heap_top nor above it.                  *)
RiscvFault(kind, tval, mem) ==
  IF kind # "x" /\ tval # 0 /\ InHeap(tval) THEN handle_page_fault(tval \div PGSIZE, mem)
  ELSE IF tval > heap_top /\ tval < STACK_BOTTOM /\ find_overlapping_vma(tval, 1) # 0
  THEN handle_vma_fault(tval \div PGSIZE, mem)
  ELSE Unserved

(* LoongArch has other exceptions for a present page that denies the       *)
(* access (PME, PNR, PNX); but for copy-on-write they halt the machine.    *)
LoongFault(tval, mem) ==
  IF tval \div PGSIZE \in DOMAIN pt THEN [Unserved EXCEPT !.panicked = TRUE]
  ELSE IF tval # 0 /\ InHeap(tval) THEN handle_page_fault(tval \div PGSIZE, mem)
  ELSE IF find_overlapping_vma(tval, 1) # 0 THEN handle_vma_fault(tval \div PGSIZE, mem)
  ELSE Unserved

UserFault(kind, tval, mem) ==
  IF arch = "riscv" THEN RiscvFault(kind, tval, mem) ELSE LoongFault(tval, mem)

(* copyin and copyout, of one page: a missing page is filled first, as     *)
(* heap (also text and stack, which are too low and too high for           *)
(* handle_page_fault) or as area; RISC-V tries the heap first.             *)
Fillable(va) ==
  \/ va < heap_bottom - PGSIZE
  \/ STACK_BOTTOM <= va /\ va < STACK_TOP
  \/ InHeap(va)

RiscvCopyFault(va, mem) ==
  IF Fillable(va) THEN handle_page_fault(va \div PGSIZE, mem)
  ELSE IF find_overlapping_vma(va, PGSIZE) # 0 THEN handle_vma_fault(va \div PGSIZE, mem)
  ELSE Unserved

LoongCopyFault(va, mem) ==
  IF find_overlapping_vma(va, PGSIZE) # 0 THEN handle_vma_fault(va \div PGSIZE, mem)
  ELSE IF Fillable(va) THEN handle_page_fault(va \div PGSIZE, mem)
  ELSE Unserved

CopyFault(va, mem) ==
  IF va \div PGSIZE \in DOMAIN pt THEN Unserved
  ELSE IF arch = "riscv" THEN RiscvCopyFault(va, mem)
  ELSE LoongCopyFault(va, mem)

(* The fault's outcome r takes effect; a store to page p follows if it may. *)
Became(r, p, store) ==
  LET done == store /\ p \in DOMAIN r.t /\ "w" \in r.t[p].prot
  IN  /\ pt' = IF done THEN [r.t EXCEPT ![p].src = "data"] ELSE r.t
      /\ panicked' = r.panicked
      /\ asked' = IF done /\ p \in DOMAIN asked THEN [asked EXCEPT ![p] = "data"] ELSE asked
      /\ UNCHANGED <<arch, heap_top, vm_area, lost, spoiled>>

Access(kind, tval, mem) ==
  LET p == tval \div PGSIZE
  IN  IF p \in DOMAIN pt /\ kind \in pt[p].prot
      THEN Became(Unserved, p, kind = "w")
      ELSE Became(UserFault(kind, tval, mem), p, FALSE)

Copy(out, tval, mem) == Became(CopyFault(PGROUNDDOWN(tval), mem), tval \div PGSIZE, out)
-----------------------------------------------------------------------------
Bytes == 0 .. STACK_TOP - 1
Prots == {<<NoFile, {"r", "w"}>>, <<NoFile, {"r"}>>} \cup {<<f, {"r"}>> : f \in Files}

Init ==
  /\ arch \in {"riscv", "loongarch"}
  /\ pt = Program.t /\ heap_top = heap_bottom
  /\ vm_area = [i \in Areas |-> NoArea]
  /\ panicked = FALSE
  /\ asked = <<>> /\ lost = {} /\ spoiled = FALSE

Next ==
  /\ ~panicked /\ ~spoiled
  /\ \/ \E addr \in Bytes : brk(addr)
     \/ \E len \in Lens, fp \in Prots :
          \E off \in IF fp[1] = NoFile THEN {0} ELSE Offsets : do_mmap(len, fp[2], fp[1], off)
     \/ \E addr \in Bytes, len \in Lens : do_munmap(addr, len)
     \/ \E kind \in {"r", "w", "x"}, tval \in Bytes, mem \in BOOLEAN : Access(kind, tval, mem)
     \/ \E out, mem \in BOOLEAN, tval \in Bytes : Copy(out, tval, mem)
     \/ \E m \in Pages, badFile \in 0 .. Len(Segments), bigArgs \in BOOLEAN :
          execve(m, badFile, bigArgs)
     \/ exit

Spec == Init /\ [][Next]_vars
-----------------------------------------------------------------------------
(***************************************************************************)
(* A present page of heap or area holds what brk, mmap and the stores of   *)
(* the program put there: a page of its own, zero at first, or the page of *)
(* the file at that offset, whatever was trimmed, unmapped and mapped      *)
(* again before; nothing else is present but image, guard and stack; and   *)
(* exec, failing at any step or not, and exit give every page back.  It    *)
(* ends where brk grows the heap over an area, or mmap places an area over *)
(* the stack or a heap that reaches MMAP_START, which neither checks.      *)
(***************************************************************************)
PagesAsAsked ==
  spoiled \/
    /\ \A p \in DOMAIN pt \ DOMAIN Program.t : p \in DOMAIN asked /\ pt[p].src = asked[p]
    /\ DOMAIN Program.t \subseteq DOMAIN pt
    /\ lost = {}

(* What the program may do at a byte: heap_bottom .. heap_top - 1 is read   *)
(* and written, an area accessed as mmap was told.                         *)
Allowed(kind, a) ==
  \/ kind # "x" /\ heap_bottom <= a /\ a < heap_top
  \/ \E i \in Areas : Overlaps(vm_area[i], a, 1) /\ kind \in vm_area[i].prot

(***************************************************************************)
(* With memory to spare, an access to heap or area that its protection     *)
(* allows is served by the fault it causes, and no such fault meets a      *)
(* present page (the panic of mappages).  The exception, on RISC-V, is the *)
(* first byte above the heap, when an area begins there.                   *)
(***************************************************************************)
AccessServed ==
  spoiled \/ panicked \/
    \A kind \in {"r", "w", "x"}, tval \in Bytes :
      LET p == tval \div PGSIZE
          r == UserFault(kind, tval, TRUE)
      IN  Allowed(kind, tval) /\ (arch = "riscv" => tval # heap_top) =>
            \/ p \in DOMAIN pt /\ kind \in pt[p].prot
            \/ ~r.panicked /\ p \in DOMAIN r.t /\ kind \in r.t[p].prot
=============================================================================
