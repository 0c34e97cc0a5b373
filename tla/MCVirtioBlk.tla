---------------------------- MODULE MCVirtioBlk -----------------------------
(* Instances of VirtioBlk for TLC. *)
EXTENDS VirtioBlk, Sequences, TLC

CONSTANTS p1, p2, p3

MCProcs == {p1, p2, p3}

(* Up to n descriptors from d along next. *)
Along(d, n) ==
  LET at[k \in 1 .. n] ==
        IF k = 1 THEN d ELSE LET b == at[k - 1] IN IF b = End THEN End ELSE next[b]
  IN  at

(* A name for every descriptor by its place in the free list or in a chain *)
(* (the rest keep their numbers): no step looks at a number itself.        *)
Places ==
  Along(free_desc_idx, NUM) \o Along(head[p1], 3) \o Along(head[p2], 3) \o Along(head[p3], 3)
    \o [k \in 1 .. NUM + 1 |-> k - 1]

(* Slots of a ring from index lo up to hi. *)
Window(lo, hi) == {(lo + k) % NUM : k \in 0 .. ((hi - lo) % Word) - 1}

(* States that differ only in the numbers of descriptors, in ring slots    *)
(* outside the window between the two indices, or in done and moved of a   *)
(* process outside a call, are one: every step writes the latter before    *)
(* anything reads them.                                                    *)
View ==
  LET places == Places
      First(d) == CHOOSE k \in 1 .. Len(places) :
                    places[k] = d /\ \A j \in 1 .. k - 1 : places[j] # d
      names == [d \in 1 .. NUM + 1 |-> First(d - 1)] \o <<>>
      Name(d) == names[d + 1]
      Only(S, ring) == [k \in S |-> Name(ring[k])]
  IN  <<{<<Name(d), Name(next[d]), addr[d], buffer[d]>> : d \in Descs}, Name(free_desc_idx),
        Only(Window(devIdx, availIdx), avail), availIdx,
        Only(Window(lastUsed, usedIdx), used), usedIdx, lastUsed,
        devIdx, {Name(h) : h \in working}, raise, isr, handler, pc,
        [p \in Procs |-> Name(head[p])], [p \in InCall |-> <<done[p], moved[p]>>]>>
=============================================================================
