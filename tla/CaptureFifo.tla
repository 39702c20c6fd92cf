----------------------------- MODULE CaptureFifo -----------------------------
(***************************************************************************)
(* What the capture path promises about finished captures: they leave it   *)
(* in the order they ended, unaltered and once each, and what leaves,      *)
(* whether taken by the network task or thrown away to make room, is       *)
(* always the oldest.                                                      *)
(***************************************************************************)
EXTENDS Naturals, Sequences

VARIABLE fifo  \* finished captures, oldest first

FifoInit == fifo = <<>>

Finish ==
  /\ Len(fifo') = Len(fifo) + 1
  /\ SubSeq(fifo', 1, Len(fifo)) = fifo

Leave == fifo # <<>> /\ fifo' = Tail(fifo)

FifoNext == Finish \/ Leave

FifoSpec == FifoInit /\ [][FifoNext]_fifo
=============================================================================
