----------------------------- MODULE FileWriter -----------------------------
(***************************************************************************)
(* file_writer: one goroutine takes entries from an unbuffered channel and *)
(* writes them to a bufio.Writer, which it flushes every 10 ms and once    *)
(* more at the end.  Whoever calls Write is blocked until the entry is     *)
(* taken.                                                                  *)
(***************************************************************************)
EXTENDS Integers, Sequences

CONSTANT BufCap          \* entries the bufio.Writer holds; 4096 bytes in the code

ASSUME FileAssumption == BufCap \in Nat \ {0}

VARIABLE fw              \* the goroutine, its buffer, the file, chWg

IdleFile == [pc |-> "run", buf |-> <<>>, file |-> <<>>, count |-> 0, closed |-> FALSE, wait |-> 1]

(* writeEntry: a full buffer is written out by bufio itself. *)
WriteEntry(f, x) ==
  IF Len(f.buf) < BufCap
  THEN [f EXCEPT !.buf = Append(@, x)]
  ELSE [f EXCEPT !.file = @ \o f.buf, !.buf = <<x>>]

(* Write of x meets the receive of processWrite. *)
FileTake(x) ==
  /\ fw.pc = "run" /\ ~fw.closed
  /\ fw' = [WriteEntry(fw, x) EXCEPT !.count = @ + 1]

Flushed(f) == [f EXCEPT !.file = @ \o f.buf, !.buf = <<>>]

(* The ticker. *)
FileTick ==
  /\ fw.pc = "run" /\ fw.buf # <<>>
  /\ fw' = Flushed(fw)

(* Close: close(w.ch). *)
FileClose == fw' = [fw EXCEPT !.closed = TRUE]

(* The closed channel is noticed: chWg.Done() ... *)
FileDone ==
  /\ fw.pc = "run" /\ fw.closed
  /\ fw' = [fw EXCEPT !.pc = "flush", !.wait = 0]

(* ... and then the last Flush. *)
FileLastFlush ==
  /\ fw.pc = "flush"
  /\ fw' = [Flushed(fw) EXCEPT !.pc = "end"]

FileStep == FileTick \/ FileDone \/ FileLastFlush

=============================================================================
