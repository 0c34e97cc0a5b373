----------------------------- MODULE BlockStore -----------------------------
(***************************************************************************)
(* What the block cache promises: every block has one content and at most  *)
(* one owner, and only the owner changes the content.                      *)
(***************************************************************************)
CONSTANTS
  Procs,    \* the processes
  Blocks,   \* the blocks of the disk
  Data,     \* what a block can hold
  NoOne     \* not a process

VARIABLES
  content,  \* what a reader of the block would see
  owner     \* who has the block, or NoOne

storeVars == <<content, owner>>

Init ==
  /\ content \in [Blocks -> Data]
  /\ owner = [k \in Blocks |-> NoOne]

Take(p, k) ==
  /\ owner[k] = NoOne
  /\ owner' = [owner EXCEPT ![k] = p]
  /\ UNCHANGED content

Change(p, k, d) ==
  /\ owner[k] = p
  /\ content' = [content EXCEPT ![k] = d]
  /\ UNCHANGED owner

Give(p, k) ==
  /\ owner[k] = p
  /\ owner' = [owner EXCEPT ![k] = NoOne]
  /\ UNCHANGED content

Next ==
  \E p \in Procs, k \in Blocks :
    Take(p, k) \/ Give(p, k) \/ \E d \in Data : Change(p, k, d)

Spec == Init /\ [][Next]_storeVars
=============================================================================
