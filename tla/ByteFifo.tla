------------------------------ MODULE ByteFifo ------------------------------
(***************************************************************************)
(* What aos/ringbuffer.h promises to one writer and one reader: a bounded  *)
(* queue of bytes.  A byte is read once, in the order of writing, and a    *)
(* byte that is waiting is never overwritten.                              *)
(***************************************************************************)
EXTENDS Naturals, Sequences

CONSTANTS Byte, Capacity

VARIABLES
    fifo,   \* the bytes written and not yet read
    out     \* the byte read last

Init == fifo = <<>> /\ out \in Byte

Put(b) == Len(fifo) < Capacity /\ fifo' = Append(fifo, b) /\ out' = out

Get == fifo # <<>> /\ fifo' = Tail(fifo) /\ out' = Head(fifo)

Next == (\E b \in Byte : Put(b)) \/ Get

Spec == Init /\ [][Next]_<<fifo, out>>

=============================================================================
