------------------------------- MODULE Channel -------------------------------
(***************************************************************************)
(* What a pipe promises: a bounded queue of bytes with two ends.  Bytes    *)
(* come out once each and in the order they went in; a reader is told      *)
(* end-of-file only when nothing is left and nobody can write any more; a  *)
(* writer is told EPIPE only when nobody can read any more.                *)
(***************************************************************************)
EXTENDS Naturals, Sequences

CONSTANTS
  Procs,     \* the processes
  Bytes,     \* what a byte can be
  Capacity   \* how many bytes the queue holds

VARIABLES
  queue,     \* the bytes on their way
  ropen,     \* 1 while a file for the read end is open
  wopen,     \* 1 while a file for the write end is open
  byte,      \* the last byte each process received
  res        \* the outcome of each process's last call

chVars == <<queue, ropen, wopen, byte, res>>

Outcomes == {"none", "count", "EOF", "EPIPE", "EFAULT"}

Init ==
  /\ queue = <<>>
  /\ ropen = 1 /\ wopen = 1
  /\ byte \in [Procs -> Bytes]
  /\ res = [p \in Procs |-> "none"]

Send(b) ==
  /\ ropen = 1 /\ Len(queue) < Capacity
  /\ queue' = Append(queue, b)
  /\ UNCHANGED <<ropen, wopen, byte, res>>

Receive(p) ==
  /\ queue # <<>>
  /\ byte' = [byte EXCEPT ![p] = Head(queue)]
  /\ queue' = Tail(queue)
  /\ UNCHANGED <<ropen, wopen, res>>

(* A call starts, or ends with an outcome its caller may rely on. *)
Call(p, r) ==
  /\ r = "EOF" => queue = <<>> /\ wopen = 0
  /\ r = "EPIPE" => ropen = 0
  /\ res' = [res EXCEPT ![p] = r]
  /\ UNCHANGED <<queue, ropen, wopen, byte>>

CloseRead == ropen = 1 /\ ropen' = 0 /\ UNCHANGED <<queue, wopen, byte, res>>
CloseWrite == wopen = 1 /\ wopen' = 0 /\ UNCHANGED <<queue, ropen, byte, res>>

Next ==
  \/ \E b \in Bytes : Send(b)
  \/ \E p \in Procs : Receive(p)
  \/ \E p \in Procs, r \in Outcomes : Call(p, r)
  \/ CloseRead \/ CloseWrite

Spec == Init /\ [][Next]_chVars
=============================================================================
