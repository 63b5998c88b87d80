--------------------------- MODULE Ringbuf_proofs ---------------------------
(***************************************************************************)
(* The ring buffer for every Size and every set of bytes: a checked write  *)
(* and a checked read are whole, and the ring implements ByteFifo.         *)
(***************************************************************************)
EXTENDS Ringbuf, SequenceTheorems, TLAPS

(* What a call in progress still has to copy fits, although the other task *)
(* moves its index meanwhile: the other one can only make room, or bytes.  *)
Fits ==
    /\ wr.sure /\ wr.pc = "test" => wr.ask <= Space
    /\ wr.pc \in {"store", "advance"} => wr.i <= wr.len /\ wr.len <= wr.i + Space
    /\ wr.pc = "advance" => wr.i < wr.len
    /\ rd.sure /\ rd.pc = "size" => rd.ask <= Avail
    /\ rd.pc \in {"load", "advance"} => rd.i <= rd.len /\ rd.len <= rd.i + Avail
    /\ rd.pc = "advance" => rd.i < rd.len /\ rd.byte = buffer[ridx]

(* The inductive invariant. *)
IInv == TypeOK /\ Fits /\ WholeWrite /\ WholeRead
-----------------------------------------------------------------------------
\* The number of bytes in the ring is at most one less than its memory, and
\* ringbuffer_available_write_space is the rest.
LEMMA AvailBounds ==
    ASSUME ridx \in Index, widx \in Index
    PROVE  /\ Avail \in 0 .. Size - 1
           /\ Space \in 0 .. Size - 1
           /\ Avail + Space = Size - 1
  BY RingbufAssumption DEF Avail, Space, Index

\* The writer's advance adds a byte to a ring that is not full.
LEMMA AvailWrite ==
    ASSUME ridx \in Index, widx \in Index, Space > 0, ridx' = ridx, widx' = Succ(widx)
    PROVE  widx' \in Index /\ Avail' = Avail + 1 /\ Space' = Space - 1
  BY RingbufAssumption DEF Avail, Space, Index, Succ

\* The reader's advance takes a byte from a ring that is not empty.
LEMMA AvailRead ==
    ASSUME ridx \in Index, widx \in Index, Avail > 0, widx' = widx, ridx' = Succ(ridx)
    PROVE  ridx' \in Index /\ Avail' = Avail - 1 /\ Space' = Space + 1
  BY RingbufAssumption DEF Avail, Space, Index, Succ

\* ringbuffer_create establishes the invariant.
LEMMA InitIInv == Init => IInv
  <1> SUFFICES ASSUME Init PROVE IInv
    OBVIOUS
  <1>1. 0 \in Index
    BY RingbufAssumption DEF Index
  <1>2. TypeOK
    BY <1>1 DEF Init, TypeOK
  <1> QED
    BY <1>2 DEF IInv, Init, Fits, WholeWrite, WholeRead

\* Every step of either task preserves the invariant.
LEMMA NextIInv == IInv /\ [Next]_vars => IInv'
  <1> SUFFICES ASSUME IInv, [Next]_vars PROVE IInv'
    OBVIOUS
  <1> USE DEF IInv
  <1>0. /\ Avail \in 0 .. Size - 1 /\ Space \in 0 .. Size - 1 /\ Avail + Space = Size - 1
        /\ ridx \in Index /\ widx \in Index /\ Size \in Nat
        /\ Avail \in Nat /\ Space \in Nat
    BY AvailBounds, RingbufAssumption DEF TypeOK
  <1>1. ASSUME NEW n \in 0 .. MaxCall, NEW sure \in BOOLEAN, Write(n, sure) PROVE IInv'
    <2>1. Avail' = Avail /\ Space' = Space
      BY <1>1 DEF Write, Avail, Space
    <2>2. n \in Nat
      BY RingbufAssumption
    <2> QED
      BY <1>0, <1>1, <2>1, <2>2 DEF Write, TypeOK, Fits, WholeWrite, WholeRead
  <1>2. CASE WriteTest
    <2>1. Avail' = Avail /\ Space' = Space
      BY <1>2 DEF WriteTest, Avail, Space
    <2>2. TypeOK'
      BY <1>0, <1>2 DEF WriteTest, TypeOK
    <2>3. Fits'
      BY <1>0, <1>2, <2>1 DEF WriteTest, TypeOK, Fits
    <2>4. WholeWrite' /\ WholeRead'
      BY <1>0, <1>2 DEF WriteTest, TypeOK, Fits, WholeWrite, WholeRead
    <2> QED
      BY <2>2, <2>3, <2>4
  <1>3. CASE WriteClip
    <2>1. Avail' = Avail /\ Space' = Space
      BY <1>3 DEF WriteClip, Avail, Space
    <2>2. TypeOK'
      BY <1>0, <1>3 DEF WriteClip, TypeOK
    <2>3. Fits'
      BY <1>0, <1>3, <2>1 DEF WriteClip, TypeOK, Fits
    <2>4. WholeWrite' /\ WholeRead'
      BY <1>0, <1>3 DEF WriteClip, TypeOK, Fits, WholeWrite, WholeRead
    <2> QED
      BY <2>2, <2>3, <2>4
  <1>4. CASE WriteStore
    <2>1. Avail' = Avail /\ Space' = Space
      BY <1>4 DEF WriteStore, Avail, Space
    <2>2. PICK b \in Byte : buffer' = [buffer EXCEPT ![widx] = b]
      BY <1>4 DEF WriteStore
    <2>3. buffer' \in [Index -> Byte]
      BY <2>2 DEF TypeOK
    <2>4. rd.pc = "advance" => Avail > 0
      BY <1>0 DEF Fits, TypeOK
    <2>5. rd.pc = "advance" => buffer'[ridx] = buffer[ridx]
      BY <1>0, <2>2, <2>4 DEF Avail, TypeOK
    <2>6. Fits'
      BY <1>0, <1>4, <2>1, <2>5 DEF WriteStore, TypeOK, Fits
    <2> QED
      BY <1>4, <2>3, <2>6 DEF WriteStore, TypeOK, WholeWrite, WholeRead
  <1>5. CASE WriteAdvance
    <2>1. Space > 0
      BY <1>0, <1>5 DEF WriteAdvance, Fits, TypeOK
    <2>2. widx' \in Index /\ Avail' = Avail + 1 /\ Space' = Space - 1
      BY <1>0, <1>5, <2>1, AvailWrite DEF WriteAdvance
    <2>3. wr.i + 1 \in Nat
      BY DEF TypeOK
    <2>4. TypeOK'
      BY <1>5, <2>2, <2>3 DEF WriteAdvance, TypeOK
    <2>5. Fits'
      BY <1>0, <1>5, <2>1, <2>2 DEF WriteAdvance, TypeOK, Fits
    <2>6. WholeWrite' /\ WholeRead'
      BY <1>0, <1>5 DEF WriteAdvance, TypeOK, WholeWrite, WholeRead
    <2> QED
      BY <2>4, <2>5, <2>6
  <1>6. CASE WriteReturn
    <2>1. Avail' = Avail /\ Space' = Space
      BY <1>6 DEF WriteReturn, Avail, Space
    <2> QED
      BY <1>0, <1>6, <2>1 DEF WriteReturn, TypeOK, Fits, WholeWrite, WholeRead
  <1>7. ASSUME NEW n \in 0 .. MaxCall, NEW sure \in BOOLEAN, Read(n, sure) PROVE IInv'
    <2>1. Avail' = Avail /\ Space' = Space
      BY <1>7 DEF Read, Avail, Space
    <2>2. n \in Nat
      BY RingbufAssumption
    <2> QED
      BY <1>0, <1>7, <2>1, <2>2 DEF Read, TypeOK, Fits, WholeWrite, WholeRead
  <1>8. CASE ReadSize
    <2>1. Avail' = Avail /\ Space' = Space
      BY <1>8 DEF ReadSize, Avail, Space
    <2>2. TypeOK'
      BY <1>0, <1>8 DEF ReadSize, TypeOK
    <2>3. Fits'
      BY <1>0, <1>8, <2>1 DEF ReadSize, TypeOK, Fits
    <2>4. WholeWrite' /\ WholeRead'
      BY <1>0, <1>8 DEF ReadSize, TypeOK, Fits, WholeWrite, WholeRead
    <2> QED
      BY <2>2, <2>3, <2>4
  <1>9. CASE ReadLoad
    <2>1. Avail' = Avail /\ Space' = Space
      BY <1>9 DEF ReadLoad, Avail, Space
    <2>2. buffer[ridx] \in Byte
      BY <1>0 DEF TypeOK
    <2> QED
      BY <1>0, <1>9, <2>1, <2>2 DEF ReadLoad, TypeOK, Fits, WholeWrite, WholeRead
  <1>10. CASE ReadAdvance
    <2>1. Avail > 0
      BY <1>0, <1>10 DEF ReadAdvance, Fits, TypeOK
    <2>2. ridx' \in Index /\ Avail' = Avail - 1 /\ Space' = Space + 1
      BY <1>0, <1>10, <2>1, AvailRead DEF ReadAdvance
    <2>3. rd.i + 1 \in Nat /\ rd.byte \in Byte
      BY DEF TypeOK
    <2>4. TypeOK'
      BY <1>10, <2>2, <2>3 DEF ReadAdvance, TypeOK
    <2>5. Fits'
      BY <1>0, <1>10, <2>1, <2>2 DEF ReadAdvance, TypeOK, Fits
    <2>6. WholeWrite' /\ WholeRead'
      BY <1>0, <1>10 DEF ReadAdvance, TypeOK, WholeWrite, WholeRead
    <2> QED
      BY <2>4, <2>5, <2>6
  <1>11. CASE ReadReturn
    <2>1. Avail' = Avail /\ Space' = Space
      BY <1>11 DEF ReadReturn, Avail, Space
    <2> QED
      BY <1>0, <1>11, <2>1 DEF ReadReturn, TypeOK, Fits, WholeWrite, WholeRead
  <1>12. CASE UNCHANGED vars
    BY <1>12 DEF vars, TypeOK, Fits, WholeWrite, WholeRead, Avail, Space
  <1> QED
    BY <1>1, <1>2, <1>3, <1>4, <1>5, <1>6, <1>7, <1>8, <1>9, <1>10, <1>11, <1>12
    DEF Next, Writing, Reading

\* The invariant holds in every state of the ring.
LEMMA Invariance == Spec => []IInv
  BY InitIInv, NextIInv, PTL DEF Spec

\* The indices never leave the memory of the ring, for any size.
THEOREM RingbufTypes == Spec => []TypeOK
  <1>1. IInv => TypeOK
    BY DEF IInv
  <1> QED
    BY <1>1, Invariance, PTL

\* A write whose caller has seen enough space is neither cut nor too long: what
\* dispatch_ringbuffer_write has checked is still true in ringbuffer_write.
THEOREM WritesWhole == Spec => []WholeWrite
  <1>1. IInv => WholeWrite
    BY DEF IInv
  <1> QED
    BY <1>1, Invariance, PTL

\* A reader that has waited for read_size bytes (voice_mind.c:244) gets all of
\* them from ringbuffer_read, although the writer goes on meanwhile.
THEOREM ReadsWhole == Spec => []WholeRead
  <1>1. IInv => WholeRead
    BY DEF IInv
  <1> QED
    BY <1>1, Invariance, PTL

-----------------------------------------------------------------------------
(* The refinement. *)

\* The bytes that wait in the ring lie inside its memory and never where the
\* writer stores.
LEMMA SlotsApart ==
    ASSUME ridx \in Index, widx \in Index, NEW k \in 1 .. Avail
    PROVE  Slot(k) \in Index /\ Slot(k) # widx
  BY RingbufAssumption DEF Avail, Slot, Index

\* The contents are a sequence as long as ringbuffer_available_read_space says.
LEMMA ContentsType ==
    ASSUME TypeOK
    PROVE  Contents \in Seq(Byte) /\ Len(Contents) = Avail
  <1>1. Avail \in Nat
    BY AvailBounds DEF TypeOK
  <1>2. \A k \in 1 .. Avail : buffer[Slot(k)] \in Byte
    BY SlotsApart DEF TypeOK
  <1> QED
    BY <1>1, <1>2 DEF Contents

\* The writer's advance appends the byte it has stored.
LEMMA AdvancePuts ==
    ASSUME TypeOK, TypeOK', Space > 0, WriteAdvance
    PROVE  Contents' = Append(Contents, buffer[widx])
  <1>1. Contents \in Seq(Byte) /\ Len(Contents) = Avail /\ Avail \in Nat
    BY ContentsType, AvailBounds DEF TypeOK
  <1>2. Avail' = Avail + 1
    BY AvailWrite DEF WriteAdvance, TypeOK
  <1>3. buffer' = buffer /\ ridx' = ridx
    BY DEF WriteAdvance
  <1>4. \A k \in 1 .. Avail + 1 : Slot(k)' = Slot(k)
    BY <1>3 DEF Slot
  <1>5. Slot(Avail + 1) = widx
    BY RingbufAssumption DEF Avail, Space, Slot, Index, TypeOK
  <1>6. Contents' = [k \in 1 .. Avail + 1 |-> buffer[Slot(k)]]
    BY <1>2, <1>3, <1>4 DEF Contents
  <1>7. \A k \in 1 .. Avail + 1 : buffer[Slot(k)] = IF k <= Avail THEN Contents[k] ELSE buffer[widx]
    BY <1>1, <1>5 DEF Contents
  <1>8. Append(Contents, buffer[widx])
          = [k \in 1 .. Avail + 1 |-> IF k <= Avail THEN Contents[k] ELSE buffer[widx]]
    BY <1>1
  <1> QED
    BY <1>6, <1>7, <1>8

\* The reader's advance removes the byte it has loaded.
LEMMA AdvanceGets ==
    ASSUME TypeOK, TypeOK', Avail > 0, ReadAdvance
    PROVE  Contents # <<>> /\ Contents' = Tail(Contents) /\ Head(Contents) = buffer[ridx]
  <1>1. Contents \in Seq(Byte) /\ Len(Contents) = Avail /\ Avail \in Nat
    BY ContentsType, AvailBounds DEF TypeOK
  <1>2. Avail' = Avail - 1
    BY AvailRead DEF ReadAdvance, TypeOK
  <1>3. buffer' = buffer /\ ridx' = Succ(ridx)
    BY DEF ReadAdvance
  <1>4. \A k \in 1 .. Avail - 1 : Slot(k)' = Slot(k + 1)
    BY <1>1, <1>3, AvailBounds, RingbufAssumption, SMTT(30) DEF Slot, Succ, Index, TypeOK
  <1>5. Slot(1) = ridx
    BY RingbufAssumption DEF Slot, Index, TypeOK
  <1>6. Contents # <<>> /\ Head(Contents) = Contents[1] /\ Contents[1] = buffer[ridx]
    BY <1>1, <1>5 DEF Contents
  <1>7. /\ Tail(Contents) \in Seq(Byte) /\ Len(Tail(Contents)) = Avail - 1
        /\ \A k \in 1 .. Avail - 1 : Tail(Contents)[k] = Contents[k + 1]
    BY <1>1, <1>6, HeadTailProperties
  <1>8. Contents' \in Seq(Byte) /\ Len(Contents') = Avail - 1
    <2>1. \A k \in 1 .. Avail' : buffer'[Slot(k)'] \in Byte
      BY <1>1, <1>2, <1>3, <1>4, SlotsApart DEF TypeOK
    <2> QED
      BY <1>1, <1>2, <2>1 DEF Contents
  <1>9. \A k \in 1 .. Avail - 1 : Contents'[k] = Contents[k + 1]
    BY <1>1, <1>2, <1>3, <1>4 DEF Contents
  <1>10. Contents' = Tail(Contents)
    BY <1>7, <1>8, <1>9, SeqEqual
  <1> QED
    BY <1>6, <1>10

\* A step of the ring puts one byte, gets one, or leaves the queue alone.
LEMMA StepRefines ==
    ASSUME IInv, IInv', [Next]_vars
    PROVE  [Fifo!Next]_<<Contents, got>>
  <1> USE DEF IInv
  <1>0. /\ Avail \in Nat /\ Space \in Nat /\ Avail + Space = Size - 1 /\ Size \in Nat
        /\ ridx \in Index /\ widx \in Index
    BY AvailBounds, RingbufAssumption DEF TypeOK
  <1>1. CASE WriteStore
    <2>1. PICK b \in Byte : buffer' = [buffer EXCEPT ![widx] = b]
      BY <1>1 DEF WriteStore
    <2>2. Avail' = Avail /\ got' = got
      BY <1>1 DEF WriteStore, Avail
    <2>3. \A k \in 1 .. Avail : Slot(k)' = Slot(k)
      BY <1>1 DEF WriteStore, Slot
    <2>4. \A k \in 1 .. Avail : buffer'[Slot(k)] = buffer[Slot(k)]
      BY <1>0, <2>1, SlotsApart DEF TypeOK
    <2>5. Contents' = Contents
      BY <2>2, <2>3, <2>4 DEF Contents
    <2> QED
      BY <2>2, <2>5
  <1>2. CASE WriteAdvance
    <2>1. Space > 0
      BY <1>0, <1>2 DEF WriteAdvance, Fits, TypeOK
    <2>2. Contents' = Append(Contents, buffer[widx]) /\ Len(Contents) = Avail
      BY <1>2, <2>1, AdvancePuts, ContentsType
    <2>3. Avail < Size - 1 /\ buffer[widx] \in Byte
      BY <1>0, <2>1 DEF TypeOK
    <2>4. got' = got
      BY <1>2 DEF WriteAdvance
    <2>5. Fifo!Put(buffer[widx])
      BY <2>2, <2>3, <2>4 DEF Fifo!Put
    <2> QED
      BY <2>3, <2>5 DEF Fifo!Next
  <1>3. CASE ReadAdvance
    <2>1. Avail > 0 /\ rd.byte = buffer[ridx] /\ got' = rd.byte
      BY <1>0, <1>3 DEF ReadAdvance, Fits, TypeOK
    <2>2. Contents # <<>> /\ Contents' = Tail(Contents) /\ Head(Contents) = buffer[ridx]
      BY <1>3, <2>1, AdvanceGets
    <2>3. Fifo!Get
      BY <2>1, <2>2 DEF Fifo!Get
    <2> QED
      BY <2>3 DEF Fifo!Next
  <1>4. CASE UNCHANGED <<buffer, ridx, widx, got>>
    BY <1>4 DEF Contents, Avail, Slot
  <1>5. \/ WriteStore \/ WriteAdvance \/ ReadAdvance
        \/ UNCHANGED <<buffer, ridx, widx, got>>
    BY DEF Next, Writing, Reading, vars, Write, WriteTest, WriteClip, WriteReturn,
           Read, ReadSize, ReadLoad, ReadReturn
  <1> QED
    BY <1>1, <1>2, <1>3, <1>4, <1>5

\* The ring buffer implements the bounded queue of bytes, for every size.
THEOREM RingIsFifo == Spec => IsFifo
  <1>1. Init => Fifo!Init
    <2> SUFFICES ASSUME Init PROVE Fifo!Init
      OBVIOUS
    <2>1. Avail = 0 /\ got \in Byte
      BY DEF Init, Avail
    <2>2. Contents = <<>>
      BY <2>1 DEF Contents
    <2> QED
      BY <2>1, <2>2 DEF Fifo!Init
  <1>2. IInv /\ IInv' /\ [Next]_vars => [Fifo!Next]_<<Contents, got>>
    BY StepRefines
  <1> QED
    BY <1>1, <1>2, Invariance, PTL DEF Spec, IsFifo, Fifo!Spec

=============================================================================
