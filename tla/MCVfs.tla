------------------------------- MODULE MCVfs -------------------------------
(* Instances of Vfs for TLC: a root with a file f and a directory d with a file g. *)
EXTENDS Vfs

MCImage ==
  [inode |-> 2  :> [type |-> "dir",  size |-> 1,
                    extents |-> <<[block |-> 0, len |-> 1, start |-> 1]>>]
          @@ 11 :> [type |-> "file", size |-> 2,
                    extents |-> <<[block |-> 1, len |-> 1, start |-> 3],
                                  [block |-> 0, len |-> 1, start |-> 4]>>]
          @@ 12 :> [type |-> "dir",  size |-> 1,
                    extents |-> <<[block |-> 0, len |-> 1, start |-> 2]>>]
          @@ 13 :> [type |-> "file", size |-> 1,
                    extents |-> <<[block |-> 0, len |-> 1, start |-> 5]>>],
   block |-> 1 :> <<[at |-> 0, len |-> 1, ino |-> 11, type |-> "file", name |-> "f"],
                    [at |-> 1, len |-> 3, ino |-> 12, type |-> "dir",  name |-> "d"]>>
          @@ 2 :> <<[at |-> 0, len |-> 4, ino |-> 13, type |-> "file", name |-> "g"]>>
          @@ 3 :> "f1" @@ 4 :> "f0" @@ 5 :> "g0"]

(* What was written to a tmpfs file that is gone; its number is not used again. *)
View == <<kernel, file, obj, [o \in DOMAIN latest \ (1 .. MaxIno \ DOMAIN kernel.inode) |-> latest[o]]>>

MCSymmetry == Permutations(Files)
MCPaths == {<<"f">>, <<"d", "f">>, <<"tmp", "f">>}
MCOpenFlags == {[creat |-> FALSE, write |-> FALSE, trunc |-> FALSE],
                [creat |-> TRUE,  write |-> TRUE,  trunc |-> FALSE],
                [creat |-> FALSE, write |-> TRUE,  trunc |-> TRUE]}
=============================================================================
