------------------------------- MODULE Ringbuf -------------------------------
(***************************************************************************)
(* The ring buffer of aos/src/ringbuffer.c between one writing and one     *)
(* reading task, which share its two indices without a lock.  The audio    *)
(* rings of alg_dispatch/dispatch_ringbuf.c, the microphone ring of        *)
(* voice_wrapper/aui_mic_imp.c and the recorder of alg_record/record.c are *)
(* such rings.                                                             *)
(*                                                                         *)
(* A step is a stretch in which a task reads or writes the shared fields   *)
(* once: either task can be preempted between two of them.  The advance of *)
(* an index and its wrap-around are one store in the -Os build of both     *)
(* boards.                                                                 *)
(***************************************************************************)
EXTENDS Naturals, Sequences

CONSTANTS
    Size,     \* bytes of memory given to ringbuffer_create
    Byte,     \* what a byte can hold
    MaxCall   \* bound on the length of one call

ASSUME RingbufAssumption ==
    Size \in Nat \ {0} /\ MaxCall \in Nat /\ Byte # {}

VARIABLES
    buffer, ridx, widx,   \* dev_ringbuf_t; its length is Size - 1
    wr,                   \* the writing task in ringbuffer_write
    rd,                   \* the reading task in ringbuffer_read
    got                   \* history: the byte the reader has passed last

vars == <<buffer, ridx, widx, wr, rd, got>>

Index == 0 .. Size - 1
-----------------------------------------------------------------------------
\* ringbuffer_available_read_space
Avail == IF ridx = widx THEN 0
         ELSE IF ridx < widx THEN widx - ridx
         ELSE (Size - 1) - (ridx - widx - 1)

\* Bug: a ring of Size bytes is taken to hold Size of them.
Space_Full == Size - Avail

\* ringbuffer_available_write_space
Space == (Size - 1) - Avail

\* Bug: the wrap-around comes one byte late.
Succ_Late(x) == IF x + 1 > Size THEN 0 ELSE x + 1

\* The advance of an index (lines 64-68 and 98-102).
Succ(x) == IF x + 1 >= Size THEN 0 ELSE x + 1

\* ringbuffer_create
Init ==
    /\ \E b \in Byte : buffer = [x \in Index |-> b] /\ got = b
    /\ ridx = 0 /\ widx = 0
    /\ wr = [pc |-> "idle", sure |-> FALSE, ask |-> 0, len |-> 0, i |-> 0]
    /\ rd = [pc |-> "idle", sure |-> FALSE, ask |-> 0, len |-> 0, i |-> 0, byte |-> got]
-----------------------------------------------------------------------------
(* The writer. *)

\* Bug: the check before the call is off by one.
Write_Over(n, sure) ==
    /\ wr.pc = "idle"
    /\ sure => Space + 1 >= n
    /\ wr' = [wr EXCEPT !.pc = "test", !.sure = sure, !.ask = n]
    /\ UNCHANGED <<buffer, ridx, widx, rd, got>>

\* A task calls ringbuffer_write with n bytes, at once (aui_mic_imp.c:101) or
\* if it is sure that they fit (dispatch_ringbuffer_write, rec_copy_data).
Write(n, sure) ==
    /\ wr.pc = "idle"
    /\ sure => Space >= n
    /\ wr' = [wr EXCEPT !.pc = "test", !.sure = sure, !.ask = n]
    /\ UNCHANGED <<buffer, ridx, widx, rd, got>>

\* The space is computed to be compared with the length ...
WriteTest ==
    /\ wr.pc = "test"
    /\ wr' = IF Space < wr.ask
             THEN [wr EXCEPT !.pc = "clip"]
             ELSE [wr EXCEPT !.pc = "store", !.len = wr.ask, !.i = 0]
    /\ UNCHANGED <<buffer, ridx, widx, rd, got>>

\* ... and, the name being a macro, a second time to replace it.
WriteClip ==
    /\ wr.pc = "clip"
    /\ wr' = [wr EXCEPT !.pc = "store", !.len = Space, !.i = 0]
    /\ UNCHANGED <<buffer, ridx, widx, rd, got>>

\* One round of the loop: data[i] is any byte, then the index moves.
WriteStore ==
    /\ wr.pc = "store" /\ wr.i < wr.len
    /\ \E b \in Byte : buffer' = [buffer EXCEPT ![widx] = b]
    /\ wr' = [wr EXCEPT !.pc = "advance"]
    /\ UNCHANGED <<ridx, widx, rd, got>>

WriteAdvance ==
    /\ wr.pc = "advance"
    /\ widx' = Succ(widx)
    /\ wr' = [wr EXCEPT !.pc = "store", !.i = @ + 1]
    /\ UNCHANGED <<buffer, ridx, rd, got>>

WriteReturn ==
    /\ wr.pc = "store" /\ wr.i = wr.len
    /\ wr' = [wr EXCEPT !.pc = "idle", !.sure = FALSE, !.ask = 0, !.len = 0, !.i = 0]
    /\ UNCHANGED <<buffer, ridx, widx, rd, got>>
-----------------------------------------------------------------------------
(* The reader. *)

\* Bug: the reader is content with any byte.
Read_Any(n, sure) ==
    /\ rd.pc = "idle" /\ n > 0 /\ Avail # 0
    /\ rd' = [rd EXCEPT !.pc = "size", !.sure = sure, !.ask = n]
    /\ UNCHANGED <<buffer, ridx, widx, wr, got>>

\* A task calls ringbuffer_read for n bytes, at once (audio_read) or after it
\* has seen that many (plugin_task_entry); an empty ring returns 0.
Read(n, sure) ==
    /\ rd.pc = "idle" /\ n > 0 /\ Avail # 0
    /\ sure => Avail >= n
    /\ rd' = [rd EXCEPT !.pc = "size", !.sure = sure, !.ask = n]
    /\ UNCHANGED <<buffer, ridx, widx, wr, got>>

\* copy_sz = MIN(amount, buffer_size)
ReadSize ==
    /\ rd.pc = "size"
    /\ rd' = [rd EXCEPT !.pc = "load", !.i = 0,
                        !.len = IF rd.ask < Avail THEN rd.ask ELSE Avail]
    /\ UNCHANGED <<buffer, ridx, widx, wr, got>>

ReadLoad ==
    /\ rd.pc = "load" /\ rd.i < rd.len
    /\ rd' = [rd EXCEPT !.pc = "advance", !.byte = buffer[ridx]]
    /\ UNCHANGED <<buffer, ridx, widx, wr, got>>

ReadAdvance ==
    /\ rd.pc = "advance"
    /\ ridx' = Succ(ridx)
    /\ got' = rd.byte
    /\ rd' = [rd EXCEPT !.pc = "load", !.i = @ + 1]
    /\ UNCHANGED <<buffer, widx, wr>>

ReadReturn ==
    /\ rd.pc = "load" /\ rd.i = rd.len
    /\ rd' = [rd EXCEPT !.pc = "idle", !.sure = FALSE, !.ask = 0, !.len = 0, !.i = 0]
    /\ UNCHANGED <<buffer, ridx, widx, wr, got>>
-----------------------------------------------------------------------------
Writing == \/ \E n \in 0 .. MaxCall, sure \in BOOLEAN : Write(n, sure)
           \/ WriteTest \/ WriteClip \/ WriteStore \/ WriteAdvance \/ WriteReturn

Reading == \/ \E n \in 0 .. MaxCall, sure \in BOOLEAN : Read(n, sure)
           \/ ReadSize \/ ReadLoad \/ ReadAdvance \/ ReadReturn

Next == Writing \/ Reading

Spec == Init /\ [][Next]_vars
-----------------------------------------------------------------------------
(* Properties. *)

\* The indices stay inside the memory of the ring, and the locals of the two
\* calls have their types.
TypeOK ==
    /\ buffer \in [Index -> Byte] /\ got \in Byte
    /\ ridx \in Index /\ widx \in Index
    /\ wr \in [pc : {"idle", "test", "clip", "store", "advance"}, sure : BOOLEAN,
               ask : Nat, len : Nat, i : Nat]
    /\ rd \in [pc : {"idle", "size", "load", "advance"}, sure : BOOLEAN,
               ask : Nat, len : Nat, i : Nat, byte : Byte]

\* A writer that has checked the space writes exactly what it was given: the
\* checks of dispatch_ringbuffer_write and rec_copy_data stay true until
\* ringbuffer_write makes its own, whatever the reader does meanwhile, so a
\* frame is neither cut nor read past its end.
WholeWrite ==
    wr.sure => wr.pc # "clip" /\ (wr.pc \in {"store", "advance"} => wr.len = wr.ask)

\* A reader that has waited for read_size bytes gets read_size bytes
\* (voice_mind.c:244-249), whatever the writer does meanwhile.
WholeRead ==
    rd.sure /\ rd.pc \in {"load", "advance"} => rd.len = rd.ask

\* The bytes from ridx up to widx, in the order of writing.
Slot(k) == IF ridx + k > Size THEN ridx + k - 1 - Size ELSE ridx + k - 1
Contents == [k \in 1 .. Avail |-> buffer[Slot(k)]]

Fifo == INSTANCE ByteFifo WITH Capacity <- Size - 1, fifo <- Contents, out <- got

\* The ring is a bounded queue of bytes: nothing is lost, repeated, reordered
\* or overwritten before it is read (ringbuffer_write and ringbuffer_read
\* interleaved at any point).
IsFifo == Fifo!Spec

=============================================================================
