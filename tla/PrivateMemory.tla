--------------------------- MODULE PrivateMemory ----------------------------
(***************************************************************************)
(* What address spaces promise: every process has a memory of its own.  A  *)
(* step stores into one page of one process, changes what one process has  *)
(* mapped, loads a program or copies a whole memory to a new process.      *)
(* That pages are shared, and copied or filled late, does not show.        *)
(***************************************************************************)
CONSTANTS
  Procs,           \* process slots
  Va, Image,       \* the pages of an address space, and the program's
  Data,            \* what a process stores
  Zero, Backing    \* a cleared page, a page of a file or program

VARIABLES
  memory,   \* the contents of page va of process p, at <<p, va>>
  kind,     \* what is mapped there: "none", "heap", "anon" or "file"
  live      \* the processes that run

Cells == Procs \X Va
Fresh(k) == IF k = "file" THEN Backing ELSE Zero

(* The address space of p, loaded anew. *)
Loaded(p) ==
  /\ \A va \in Va : /\ memory'[<<p, va>>] = IF va = Image THEN Backing ELSE Zero
                    /\ kind'[<<p, va>>] = IF va = Image THEN "heap" ELSE "none"
  /\ \A x \in Cells : x[1] # p => memory'[x] = memory[x] /\ kind'[x] = kind[x]

Init ==
  \E p \in Procs :
    /\ live = {p}
    /\ memory = [x \in Cells |-> IF x = <<p, Image>> THEN Backing ELSE Zero]
    /\ kind = [x \in Cells |-> IF x = <<p, Image>> THEN "heap" ELSE "none"]

Store(p, va, v) ==
  /\ kind[<<p, va>>] # "none"
  /\ memory' = [memory EXCEPT ![<<p, va>>] = v]
  /\ UNCHANGED <<kind, live>>

(* brk, mmap, munmap; exit. *)
Remap(p) ==
  /\ \A x \in Cells :
       IF kind'[x] = kind[x] THEN memory'[x] = memory[x]
                             ELSE x[1] = p /\ memory'[x] = Fresh(kind'[x])
  /\ \/ live' = live
     \/ live' = live \ {p} /\ \A va \in Va : kind'[<<p, va>>] = "none"

Exec(p) == Loaded(p) /\ UNCHANGED live

Fork(p, np) ==
  LET From(x) == IF x[1] = np THEN <<p, x[2]>> ELSE x
  IN  /\ np \notin live /\ live' = live \cup {np}
      /\ memory' = [x \in Cells |-> memory[From(x)]]
      /\ kind' = [x \in Cells |-> kind[From(x)]]

Next ==
  \E p \in live :
    \/ \E va \in Va, v \in Data : Store(p, va, v)
    \/ Remap(p) \/ Exec(p)
    \/ \E np \in Procs : Fork(p, np)

Spec == Init /\ [][Next]_<<memory, kind, live>>
=============================================================================
