----------------------------- MODULE UniqueFifo -----------------------------
(***************************************************************************)
(* What UniqueQueue promises to the scan reader: a first-in first-out      *)
(* queue that holds an item at most once, however often and by however     *)
(* many goroutines it is put.  Close ends the puts; what waits then still  *)
(* leaves.                                                                 *)
(***************************************************************************)
EXTENDS Sequences

CONSTANT Items
VARIABLES waiting, open

fifo == <<waiting, open>>

FifoInit == waiting = <<>> /\ open = TRUE

Put(i) ==
  /\ open /\ \A n \in DOMAIN waiting : waiting[n] # i
  /\ waiting' = Append(waiting, i)
  /\ UNCHANGED open

Get == waiting # <<>> /\ waiting' = Tail(waiting) /\ UNCHANGED open

CloseFifo == open /\ open' = FALSE /\ UNCHANGED waiting

FifoNext == (\E i \in Items : Put(i)) \/ Get \/ CloseFifo

FifoSpec == FifoInit /\ [][FifoNext]_fifo

=============================================================================
