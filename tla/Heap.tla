-------------------------------- MODULE Heap --------------------------------
(***************************************************************************)
(* The slab allocator and kmalloc (slab/slab.c, kmalloc.c) over the page   *)
(* allocator, as functions of a state s.  A page p holds the addresses     *)
(* p * PGSIZE to p * PGSIZE + PGSIZE - 1.  s.pages is the free list of     *)
(* kalloc, s.tail[p] the kmem_slab at the tail of p (cache 0 marks a whole *)
(* page given out by kmalloc), s.cache the caches, with the pages of their *)
(* slabs in three lists.  Freelists hold offsets into the page.            *)
(*                                                                         *)
(* The kernel is not preempted and kalloc does not wait, so a call is one  *)
(* step.  Sizes keep their ratios, scaled down.                            *)
(***************************************************************************)
EXTENDS Integers, Sequences, FiniteSets, SequencesExt

CONSTANTS
  PGSIZE,       \* 4096 in the code
  SLABSIZE,     \* sizeof(struct kmem_slab), 48
  MINSIZE,      \* 8, the smallest size class and the default alignment
  NPAGES,       \* pages kalloc has
  Sizes,        \* the sizes kmalloc is asked for
  Requests,     \* obj_size and align of the cache that is created and destroyed
  MaxLive       \* bound: objects held at a time

ASSUME HeapAssumption ==
  /\ PGSIZE \in Nat /\ SLABSIZE \in 1 .. PGSIZE - 1
  /\ MINSIZE \in 1 .. PGSIZE \div 2
  /\ \E k \in 0 .. PGSIZE : MINSIZE * 2^k = PGSIZE \div 2

VARIABLES
  heap,   \* s
  live    \* the objects held: address, size, and whether kmalloc gave it

vars == <<heap, live>>

Pages == 1 .. NPAGES
PageOf(addr) == addr \div PGSIZE

(* The size classes of kmalloc, 8 << idx, and the cache of drivers, in slot Own. *)
KMALLOC_MAX_SLAB_SIZE == PGSIZE \div 2
Classes == {k \in 0 .. KMALLOC_MAX_SLAB_SIZE : MINSIZE * 2^k <= KMALLOC_MAX_SLAB_SIZE}
Own == -1
Caches == Classes \cup {Own}

NoCache == [page |-> 0, obj_size |-> 0, total_size |-> 0,
            full |-> <<>>, partial |-> <<>>, empty |-> <<>>]
NoTail == [cache |-> -3, total_objs |-> 0, freelist |-> <<>>]
Whole == [NoTail EXCEPT !.cache = -2]

(* What a call gives back; addr is 0 when it has nothing. *)
Got(s, addr) == [s |-> s, addr |-> addr]

kalloc(s) ==
  IF s.pages = <<>> THEN Got(s, 0)
  ELSE Got([s EXCEPT !.pages = Tail(@)], Head(s.pages) * PGSIZE)

kfree(s, addr) == [s EXCEPT !.pages = <<PageOf(addr)>> \o @, !.tail[PageOf(addr)] = NoTail]
-----------------------------------------------------------------------------
is_power_of_two(x) == \E k \in 0 .. x : x = 2^k

AlignUp(n, a) == ((n + a - 1) \div a) * a

(* kmem_cache_create: the page it takes first goes back when the alignment is bad. *)
kmem_cache_create(s, c, obj_size, align) ==
  LET g == kalloc(s)
      size == IF obj_size < MINSIZE THEN MINSIZE ELSE obj_size
      a == IF align = 0 THEN MINSIZE ELSE align
  IN  IF g.addr = 0 THEN s
      ELSE IF align # 0 /\ ~is_power_of_two(align) THEN kfree(g.s, g.addr)
      ELSE [g.s EXCEPT !.cache[c] = [NoCache EXCEPT !.page = PageOf(g.addr),
                                                    !.obj_size = AlignUp(size, a)]]

(* Mutant: the slab at the tail of the page is not counted. *)
RoomForAll(obj_size) == PGSIZE \div obj_size

ObjsPerPage(obj_size) == (PGSIZE - SLABSIZE) \div obj_size

(* kmem_cache_grow: a new slab, all free, the last object first. *)
kmem_cache_grow(s, c) ==
  LET g == kalloc(s)
      size == s.cache[c].obj_size
      n == ObjsPerPage(size)
      p == PageOf(g.addr)
  IN  IF g.addr = 0 THEN Got(s, 0)
      ELSE IF n = 0 THEN Got(kfree(g.s, g.addr), 0)
      ELSE Got([g.s EXCEPT !.tail[p] = [cache |-> c, total_objs |-> n,
                                        freelist |-> [i \in 1 .. n |-> (n - i) * size]],
                           !.cache[c].total_size = @ + PGSIZE,
                           !.cache[c].empty = Append(@, p)], g.addr)

(* The slab of page p taken off its list and put at the end of another. *)
Move(cp, p, to) ==
  [cp EXCEPT !.full    = IF to = "full"    THEN Append(Remove(@, p), p) ELSE Remove(@, p),
             !.partial = IF to = "partial" THEN Append(Remove(@, p), p) ELSE Remove(@, p),
             !.empty   = IF to = "empty"   THEN Append(Remove(@, p), p) ELSE Remove(@, p)]

(* The first object of slab p, which moves to the list its count asks for. *)
TakeFrom(s, c, p) ==
  LET slab == s.tail[p]
      left == Len(slab.freelist) - 1
      was_empty == Len(slab.freelist) = slab.total_objs
      cut == [s EXCEPT !.tail[p].freelist = Tail(@)]
  IN  Got(IF left = 0 THEN [cut EXCEPT !.cache[c] = Move(@, p, "full")]
          ELSE IF was_empty THEN [cut EXCEPT !.cache[c] = Move(@, p, "partial")]
          ELSE cut, p * PGSIZE + Head(slab.freelist))

kmem_cache_alloc(s, c, sleep) ==
  LET cp == s.cache[c]
      grown == kmem_cache_grow(s, c)
  IN  IF cp.partial # <<>> THEN TakeFrom(s, c, Head(cp.partial))
      ELSE IF cp.empty # <<>> THEN TakeFrom(s, c, Head(cp.empty))
      ELSE IF ~sleep THEN Got(s, 0)
      ELSE IF grown.addr = 0 THEN grown
      ELSE TakeFrom(grown.s, c, Head(grown.s.cache[c].empty))

(* Mutant: a slab of one object goes from full to partial. *)
FreeToPartial(s, c, addr) ==
  LET p == PageOf(addr)
      off == addr % PGSIZE
      slab == s.tail[p]
      put == [s EXCEPT !.tail[p].freelist = <<off>> \o @]
  IN  IF off \in ToSet(slab.freelist) THEN s
      ELSE IF Len(slab.freelist) = 0
      THEN [put EXCEPT !.cache[c] = Move(@, p, "partial")]
      ELSE IF Len(slab.freelist) + 1 = slab.total_objs
      THEN [put EXCEPT !.cache[c] = Move(@, p, "empty")]
      ELSE put

(* kmem_cache_free: an object that is already free is left alone. *)
kmem_cache_free(s, c, addr) ==
  LET p == PageOf(addr)
      off == addr % PGSIZE
      slab == s.tail[p]
      put == [s EXCEPT !.tail[p].freelist = <<off>> \o @]
  IN  IF off \in ToSet(slab.freelist) THEN s
      ELSE IF Len(slab.freelist) + 1 = slab.total_objs
      THEN [put EXCEPT !.cache[c] = Move(@, p, "empty")]
      ELSE IF Len(slab.freelist) = 0
      THEN [put EXCEPT !.cache[c] = Move(@, p, "partial")]
      ELSE put

(* kmem_cache_reap: the first slab of the empty list goes back to kalloc. *)
kmem_cache_reap(s, c) ==
  LET p == Head(s.cache[c].empty)
  IN  IF s.cache[c].empty = <<>> \/ Len(s.tail[p].freelist) # s.tail[p].total_objs THEN s
      ELSE kfree([s EXCEPT !.cache[c].empty = Tail(@),
                           !.cache[c].total_size = @ - PGSIZE], p * PGSIZE)

(* kmem_cache_destroy: nothing while objects are out; else its slabs, then itself. *)
kmem_cache_destroy(s, c) ==
  LET cp == s.cache[c]
      freed == FoldLeft(LAMBDA t, p : kfree(t, p * PGSIZE), s, cp.empty)
  IN  IF cp.full # <<>> \/ cp.partial # <<>> THEN s
      ELSE [kfree(freed, cp.page * PGSIZE) EXCEPT !.cache[c] = NoCache]
-----------------------------------------------------------------------------
(* kmalloc_cache_init: a size class without a page stays without a cache. *)
kmalloc_cache_init(s) ==
  LET upTo[k \in 0 .. Cardinality(Classes)] ==
        IF k = 0 THEN s ELSE kmem_cache_create(upTo[k - 1], k - 1, MINSIZE * 2^(k - 1), 0)
  IN  IF s.kmalloc_ready THEN s
      ELSE [upTo[Cardinality(Classes)] EXCEPT !.kmalloc_ready = TRUE]

ClassOf(size) == Min({k \in Classes : MINSIZE * 2^k >= size})

kmalloc(s, size) ==
  LET ready == kmalloc_cache_init(s)
      g == kalloc(ready)
  IN  IF size <= KMALLOC_MAX_SLAB_SIZE
      THEN IF ready.cache[ClassOf(size)].page = 0 THEN Got(ready, 0)
           ELSE kmem_cache_alloc(ready, ClassOf(size), TRUE)
      ELSE IF size <= PGSIZE - SLABSIZE /\ g.addr # 0
      THEN Got([g.s EXCEPT !.tail[PageOf(g.addr)] = Whole], g.addr)
      ELSE Got(ready, 0)

kmfree(s, addr) ==
  LET c == s.tail[PageOf(addr)].cache
  IN  IF s.tail[PageOf(addr)] = Whole THEN kfree(s, addr) ELSE kmem_cache_free(s, c, addr)
-----------------------------------------------------------------------------
Hold(g, size, by) ==
  /\ heap' = g.s
  /\ live' = IF g.addr = 0 THEN live
             ELSE live \cup {[addr |-> g.addr, size |-> size, by |-> by]}

Kmalloc(size) ==
  Cardinality(live) < MaxLive /\ Hold(kmalloc(heap, size), size, "kmalloc")

Kmfree(o) == o.by = "kmalloc" /\ heap' = kmfree(heap, o.addr) /\ live' = live \ {o}

Create(r) ==
  /\ heap.cache[Own].page = 0
  /\ heap' = kmem_cache_create(heap, Own, r.obj_size, r.align)
  /\ UNCHANGED live

Destroy ==
  /\ heap.cache[Own].page # 0
  /\ heap' = kmem_cache_destroy(heap, Own)
  /\ UNCHANGED live

CacheAlloc(sleep) ==
  /\ heap.cache[Own].page # 0
  /\ Cardinality(live) < MaxLive
  /\ Hold(kmem_cache_alloc(heap, Own, sleep), heap.cache[Own].obj_size, "cache")

CacheFree(o) ==
  o.by = "cache" /\ heap' = kmem_cache_free(heap, Own, o.addr) /\ live' = live \ {o}

(* A second free of an object whose slab is still there. *)
FreeAgain(p, off) ==
  /\ heap.tail[p].cache \in Caches
  /\ off \in ToSet(heap.tail[p].freelist)
  /\ heap' = kmem_cache_free(heap, heap.tail[p].cache, p * PGSIZE + off)
  /\ UNCHANGED live

Reap(c) ==
  heap.cache[c].page # 0 /\ heap' = kmem_cache_reap(heap, c) /\ UNCHANGED live

Init ==
  /\ heap = [pages |-> [p \in Pages |-> p], tail |-> [p \in Pages |-> NoTail],
             cache |-> [c \in Caches |-> NoCache], kmalloc_ready |-> FALSE]
  /\ live = {}

Next ==
  \/ \E size \in Sizes : Kmalloc(size)
  \/ \E o \in live : Kmfree(o) \/ CacheFree(o)
  \/ \E r \in Requests : Create(r)
  \/ Destroy
  \/ \E sleep \in BOOLEAN : CacheAlloc(sleep)
  \/ \E p \in Pages, off \in 0 .. PGSIZE - 1 : FreeAgain(p, off)
  \/ \E c \in Caches : Reap(c)

Spec == Init /\ [][Next]_vars
-----------------------------------------------------------------------------
Bytes(o) == o.addr .. o.addr + o.size - 1

(***************************************************************************)
(* No two objects held have a byte in common, and none reaches the         *)
(* kmem_slab at the tail of its page or a page that is free or holds a     *)
(* cache (kmem_cache_alloc, kmem_cache_grow, kmalloc).                     *)
(***************************************************************************)
ObjectsDisjoint ==
  /\ \A o, q \in live : o # q => Bytes(o) \cap Bytes(q) = {}
  /\ \A o \in live : /\ PageOf(o.addr) \notin ToSet(heap.pages)
                     /\ \A c \in Caches : heap.cache[c].page # PageOf(o.addr)
                     /\ (o.addr % PGSIZE) + o.size <= PGSIZE - SLABSIZE

(***************************************************************************)
(* Every slab is on the one list of its cache that its free count asks     *)
(* for, the sizes add up, and every page is free, a cache, a slab or an    *)
(* object: no page and no slab is ever lost, and what reap and destroy     *)
(* give back holds no object.                                              *)
(***************************************************************************)
PagesAccounted ==
  LET slabs(c) == heap.cache[c].full \o heap.cache[c].partial \o heap.cache[c].empty
      free(p) == Len(heap.tail[p].freelist)
      total(p) == heap.tail[p].total_objs
      caches == {heap.cache[c].page : c \in Caches} \ {0}
      whole == {p \in Pages : heap.tail[p] = Whole}
  IN  /\ \A c \in Caches :
           /\ IsInjective(slabs(c))
           /\ \A p \in ToSet(slabs(c)) : heap.tail[p].cache = c
           /\ \A p \in ToSet(heap.cache[c].full) : free(p) = 0
           /\ \A p \in ToSet(heap.cache[c].partial) : free(p) \in 1 .. total(p) - 1
           /\ \A p \in ToSet(heap.cache[c].empty) : free(p) = total(p)
           /\ heap.cache[c].total_size = PGSIZE * Len(slabs(c))
      /\ whole = {PageOf(o.addr) : o \in {q \in live : q.size > KMALLOC_MAX_SLAB_SIZE
                                                        /\ q.by = "kmalloc"}}
      /\ Len(heap.pages) + Cardinality(caches) + Cardinality(whole)
           + Cardinality(UNION {ToSet(slabs(c)) : c \in Caches}) = NPAGES
      /\ Cardinality(live) =
           Cardinality(whole) + Cardinality({<<p, off>> \in Pages \X (0 .. PGSIZE - 1) :
             /\ \E c \in Caches : p \in ToSet(slabs(c)) /\ off % heap.cache[c].obj_size = 0
                  /\ off \div heap.cache[c].obj_size < total(p)
             /\ off \notin ToSet(heap.tail[p].freelist)})
=============================================================================
