------------------------------ MODULE ByteFifo ------------------------------
(***************************************************************************)
(* What a receive buffer promises: the bytes put in come out once each, in *)
(* order, and at most Capacity of them wait.  put and got are everything   *)
(* that ever went in and came out.                                         *)
(***************************************************************************)
EXTENDS Naturals, Sequences

CONSTANTS Bytes, Capacity

VARIABLES put, got

Waiting == Len(put) - Len(got)

FifoInit == put = <<>> /\ got = <<>>

Put ==
  /\ Waiting < Capacity
  /\ \E b \in Bytes : put' = Append(put, b)
  /\ UNCHANGED got

Get ==
  /\ Waiting > 0
  /\ got' = Append(got, put[Len(got) + 1])
  /\ UNCHANGED put

FifoNext == Put \/ Get

FifoSpec == FifoInit /\ [][FifoNext]_<<put, got>>

============================================================================
