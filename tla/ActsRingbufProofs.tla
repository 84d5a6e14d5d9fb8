-------------------------- MODULE ActsRingbufProofs --------------------------
(***************************************************************************)
(* The ring buffer's safety for every size, every counter width and every  *)
(* element type: the type invariant, the agreement of counters and         *)
(* offsets, the validity of what a side has claimed, that reader and       *)
(* writer never touch a common cell, and that it all implements the        *)
(* bounded FIFO queue, exactly so if no stream callback fails half-way.    *)
(***************************************************************************)
EXTENDS ActsRingbuf, SequenceTheorems, TLAPS

\* The inductive invariant.  CountersAgree alone is not inductive: that a
\* publication keeps length <= Size needs ClaimsStayValid.
IInv == TypeOK /\ CountersAgree /\ ClaimsStayValid

-----------------------------------------------------------------------------
(* Facts about the operators.                                              *)

\* An offset plus at most Size wraps back into the area.
LEMMA CellInArea ==
    ASSUME NEW offset \in 0..Size, NEW i \in 0..(Size - 1)
    PROVE  Cell(offset, i) \in 0..(Size - 1)
BY SizeAssumption DEF Cell, Norm

\* Two distances below Size from one place reach different cells.
LEMMA CellsDiffer ==
    ASSUME NEW h \in 0..(Size - 1), NEW t \in 0..Size, NEW l \in 0..Size,
           Norm(t) = Norm(h + l),
           NEW i \in Nat, NEW j \in Nat, i < l, l + j < Size
    PROVE  Cell(h, i) # Cell(t, j)
BY SizeAssumption DEF Cell, Norm

\* A block read from the area is a sequence of elements of the asked length.
LEMMA ReadBlockType ==
    ASSUME NEW offset \in 0..Size, NEW n \in 0..Size,
           data \in [0..(Size - 1) -> Elem]
    PROVE  /\ ReadBlock(offset, n) \in Seq(Elem)
           /\ Len(ReadBlock(offset, n)) = n
<1> DEFINE b == ReadBlock(offset, n)
<1>1. ASSUME NEW i \in 1..n PROVE data[Cell(offset, i - 1)] \in Elem
  <2>1. i - 1 \in 0..(Size - 1)
    BY SizeAssumption
  <2>2. Cell(offset, i - 1) \in 0..(Size - 1)
    BY <2>1, CellInArea
  <2> QED BY <2>2
<1>2. b \in [1..n -> Elem]
  BY <1>1 DEF ReadBlock
<1>3. n \in Nat
  BY SizeAssumption
<1> QED BY <1>2, <1>3

\* Copying a block into the area leaves it a function on the same cells.
LEMMA WriteBlockType ==
    ASSUME NEW offset \in 0..Size, NEW s \in Seq(Elem),
           data \in [0..(Size - 1) -> Elem]
    PROVE  WriteBlock(offset, s) \in [0..(Size - 1) -> Elem]
<1>1. ASSUME NEW c \in 0..(Size - 1),
             \E i \in 1..Len(s) : Cell(offset, i - 1) = c
      PROVE  s[CHOOSE i \in 1..Len(s) : Cell(offset, i - 1) = c] \in Elem
  <2>1. (CHOOSE i \in 1..Len(s) : Cell(offset, i - 1) = c) \in 1..Len(s)
    BY <1>1
  <2> QED BY <2>1
<1> QED BY <1>1 DEF WriteBlock

\* A block the writer may pass is a sequence of at most Size elements.
LEMMA BlockType ==
    ASSUME NEW s \in Blocks
    PROVE  s \in Seq(Elem) /\ Len(s) \in 0..Size
<1>1. PICK n \in 0..Size : s \in [1..n -> Elem]
  BY DEF Blocks
<1>2. n \in Nat
  BY SizeAssumption
<1> QED BY <1>1, <1>2

\* The length and the space are in range while the counters agree.
LEMMA LengthRange ==
    ASSUME TypeOK, CountersAgree
    PROVE  acts_ringbuf_length \in 0..Size /\ acts_ringbuf_space \in 0..Size
BY SizeAssumption, WrapAssumption
   DEF TypeOK, CountersAgree, acts_ringbuf_length, acts_ringbuf_space, U32

-----------------------------------------------------------------------------
(* The invariant is inductive.                                             *)

\* The invariant holds once acts_ringbuf_init has run.
LEMMA InitIInv == Init => IInv
<1> SUFFICES ASSUME Init PROVE IInv
  OBVIOUS
<1>1. TypeOK
  BY SizeAssumption, WrapAssumption DEF Init, TypeOK
<1>2. acts_ringbuf_length = 0
  BY WrapAssumption DEF Init, acts_ringbuf_length, U32
<1>3. CountersAgree
  BY <1>2, SizeAssumption DEF Init, CountersAgree, HeadPos, TailPos, Norm
<1>4. ClaimsStayValid
  BY DEF Init, ClaimsStayValid
<1> QED BY <1>1, <1>3, <1>4 DEF IInv

\* A writer's step that moves neither counter nor offset keeps the invariant
\* if what it takes fits in the space there is.
LEMMA WriterLocal ==
    ASSUME IInv, UNCHANGED <<tail, tail_offset, readerVars>>,
           ppc # "advance", ppc' \in {"idle", "copy", "claimed", "publish"},
           data' \in [0..(Size - 1) -> Elem],
           pbuf' \in Seq(Elem), Len(pbuf') <= Size, pn' \in 0..Size,
           pn' <= acts_ringbuf_space, Len(pbuf') <= acts_ringbuf_space
    PROVE  IInv'
<1>1. TypeOK'
  BY DEF IInv, TypeOK, readerVars
<1>2. /\ acts_ringbuf_length' = acts_ringbuf_length
      /\ acts_ringbuf_space' = acts_ringbuf_space
  BY DEF acts_ringbuf_length, acts_ringbuf_space, U32, readerVars
<1>3. HeadPos' = HeadPos /\ TailPos' = TailPos
  BY DEF HeadPos, TailPos, AdvanceOffset, Norm, readerVars
<1>4. CountersAgree'
  BY <1>2, <1>3 DEF IInv, CountersAgree, Norm
<1>5. ClaimsStayValid'
  BY <1>2 DEF IInv, ClaimsStayValid, readerVars
<1> QED BY <1>1, <1>4, <1>5 DEF IInv

\* The same for the reader and the data there is.
LEMMA ReaderLocal ==
    ASSUME IInv, UNCHANGED <<head, head_offset, writerVars>>,
           cpc # "advance",
           cpc' \in {"idle", "copy", "copied", "claimed", "publish"},
           cbuf' \in Seq(Elem), Len(cbuf') <= Size, got' \in Seq(Elem),
           cn' \in 0..Size, cn' <= acts_ringbuf_length
    PROVE  IInv'
<1>1. TypeOK'
  BY DEF IInv, TypeOK, writerVars
<1>2. /\ acts_ringbuf_length' = acts_ringbuf_length
      /\ acts_ringbuf_space' = acts_ringbuf_space
  BY DEF acts_ringbuf_length, acts_ringbuf_space, U32, writerVars
<1>3. HeadPos' = HeadPos /\ TailPos' = TailPos
  BY DEF HeadPos, TailPos, AdvanceOffset, Norm, writerVars
<1>4. CountersAgree'
  BY <1>2, <1>3 DEF IInv, CountersAgree, Norm
<1>5. ClaimsStayValid'
  BY <1>2 DEF IInv, ClaimsStayValid, writerVars
<1> QED BY <1>1, <1>4, <1>5 DEF IInv

\* The writer's steps up to its publication.
LEMMA WriterPrepares ==
    ASSUME IInv,
           \/ \E s \in Blocks : PutBegin(s) \/ ClaimWrite(s)
           \/ \E c \in Elem, n \in 0..Size : FillBegin(c, n)
           \/ \E size \in 0..Size, s \in Blocks :
                 \/ StreamWriteBegin(size, s)
                 \/ \E e \in StreamErrors : StreamWriteError(size, s, e)
           \/ \E n \in 0..Size : FillNoneBegin(n) \/ PutClaim(n)
           \/ PutCopy \/ PutFinish
    PROVE  IInv'
<1>0. /\ TypeOK /\ ClaimsStayValid
      /\ acts_ringbuf_space \in 0..Size /\ Size \in Nat
  BY LengthRange, SizeAssumption DEF IInv
<1>1. ASSUME NEW s \in Seq(Elem), Len(s) <= Size, PutBegin(s) PROVE IInv'
  BY <1>0, <1>1, WriterLocal DEF PutBegin, TypeOK
<1>2. ASSUME NEW s \in Blocks, PutBegin(s) PROVE IInv'
  BY <1>1, <1>2, BlockType
<1>3. ASSUME NEW s \in Blocks, ClaimWrite(s) PROVE IInv'
  <2>1. data' \in [0..(Size - 1) -> Elem]
    BY <1>0, <1>3, BlockType, WriteBlockType DEF ClaimWrite, TypeOK
  <2> QED BY <1>0, <1>3, <2>1, BlockType, WriterLocal
             DEF ClaimWrite, TypeOK, ClaimsStayValid
<1>4. ASSUME NEW c \in Elem, NEW n \in 0..Size, FillBegin(c, n) PROVE IInv'
  <2>1. [i \in 1..n |-> c] \in Seq(Elem) /\ Len([i \in 1..n |-> c]) = n
    BY <1>0
  <2> QED BY <1>0, <1>1, <1>4, <2>1 DEF FillBegin
<1>5. ASSUME NEW size \in 0..Size, NEW s \in Blocks, StreamWriteBegin(size, s)
      PROVE IInv'
  BY <1>2, <1>5 DEF StreamWriteBegin
<1>6. ASSUME NEW size \in 0..Size, NEW s \in Blocks, NEW e \in StreamErrors,
             StreamWriteError(size, s, e)
      PROVE IInv'
  BY <1>0, <1>6, BlockType, StreamErrorsAssumption, WriterLocal
     DEF StreamWriteError, TypeOK, Most
<1>7. ASSUME NEW n \in 0..Size, FillNoneBegin(n) PROVE IInv'
  BY <1>0, <1>7, WriterLocal DEF FillNoneBegin, TypeOK
<1>8. ASSUME NEW n \in 0..Size, PutClaim(n) PROVE IInv'
  BY <1>0, <1>8, WriterLocal DEF PutClaim, PutClaimLimit, Least, TypeOK
<1>9. CASE PutCopy
  <2>1. data' \in [0..(Size - 1) -> Elem]
    BY <1>0, <1>9, WriteBlockType DEF PutCopy, TypeOK
  <2> QED BY <1>0, <1>9, <2>1, WriterLocal DEF PutCopy, TypeOK, ClaimsStayValid
<1>10. CASE PutFinish
  BY <1>0, <1>10, WriterLocal
     DEF PutFinish, PutClaimLimit, Least, TypeOK, ClaimsStayValid
<1> QED BY <1>2, <1>3, <1>4, <1>5, <1>6, <1>7, <1>8, <1>9, <1>10

\* The reader's steps up to its publication.
LEMMA ReaderPrepares ==
    ASSUME IInv,
           \/ \E n \in 0..Size : GetBegin(n) \/ GetClaim(n) \/ GetFinish(n) \/ Drop(n)
           \/ \E size, n \in 0..Size : StreamReadBegin(size, n)
           \/ \E size \in 0..Size, e \in StreamErrors : StreamReadError(size, e)
           \/ GetCopy \/ PeekDone
    PROVE  IInv'
<1>0. /\ TypeOK /\ ClaimsStayValid
      /\ acts_ringbuf_length \in 0..Size /\ Size \in Nat
  BY LengthRange, SizeAssumption DEF IInv
<1>1. ASSUME NEW n \in 0..Size, GetBegin(n) PROVE IInv'
  BY <1>0, <1>1, ReaderLocal DEF GetBegin, TypeOK
<1>2. ASSUME NEW n \in 0..Size, GetClaim(n) PROVE IInv'
  BY <1>0, <1>2, ReaderLocal DEF GetClaim, GetClaimLimit, Least, TypeOK
<1>3. ASSUME NEW n \in 0..Size, GetFinish(n) PROVE IInv'
  <2>1. cbuf' \in Seq(Elem) /\ Len(cbuf') = n
    BY <1>0, <1>3, ReadBlockType DEF GetFinish, TypeOK
  <2> QED BY <1>0, <1>3, <2>1, ReaderLocal
             DEF GetFinish, TypeOK, ClaimsStayValid
<1>4. ASSUME NEW n \in 0..Size, Drop(n) PROVE IInv'
  BY <1>0, <1>4, ReaderLocal DEF Drop, TypeOK
<1>5. ASSUME NEW size \in 0..Size, NEW n \in 0..Size, StreamReadBegin(size, n)
      PROVE IInv'
  BY <1>1, <1>5 DEF StreamReadBegin
<1>6. ASSUME NEW size \in 0..Size, NEW e \in StreamErrors,
             StreamReadError(size, e)
      PROVE IInv'
  <2>1. Size - head_offset \in 0..Size /\ head_offset \in 0..Size
        /\ data \in [0..(Size - 1) -> Elem]
    BY <1>0 DEF TypeOK
  <2>2. /\ ReadBlock(head_offset, Size - head_offset) \in Seq(Elem)
        /\ Len(ReadBlock(head_offset, Size - head_offset)) = Size - head_offset
    BY <2>1, ReadBlockType
  <2>3. cbuf' \in Seq(Elem) /\ Len(cbuf') = Size - head_offset
    BY <1>6, <2>2 DEF StreamReadError
  <2> QED BY <1>0, <1>6, <2>1, <2>3, StreamErrorsAssumption, ReaderLocal
             DEF StreamReadError, TypeOK, Most
<1>7. CASE GetCopy
  <2>1. cbuf' \in Seq(Elem) /\ Len(cbuf') = cn
    BY <1>0, <1>7, ReadBlockType DEF GetCopy, TypeOK
  <2> QED BY <1>0, <1>7, <2>1, ReaderLocal DEF GetCopy, TypeOK, ClaimsStayValid
<1>8. CASE PeekDone
  BY <1>0, <1>8, ReaderLocal DEF PeekDone, TypeOK
<1> QED BY <1>1, <1>2, <1>3, <1>4, <1>5, <1>6, <1>7, <1>8

\* The writer's publication: the length grows by what was claimed.
LEMMA PublishesTail ==
    ASSUME IInv, PutPublish \/ PutAdvance
    PROVE  IInv'
<1>0. /\ TypeOK /\ CountersAgree /\ ClaimsStayValid
      /\ acts_ringbuf_length \in 0..Size /\ Size \in Nat \ {0}
      /\ Wrap \in Nat /\ Wrap > Size
  BY LengthRange, SizeAssumption, WrapAssumption DEF IInv
<1>1. CASE PutPublish
  <2>1. acts_ringbuf_length' = acts_ringbuf_length + pn
    BY <1>0, <1>1 DEF PutPublish, TypeOK, ClaimsStayValid, acts_ringbuf_space,
                      acts_ringbuf_length, U32, readerVars
  <2>2. acts_ringbuf_length' <= Size
    BY <1>0, <1>1, <2>1 DEF PutPublish, TypeOK, ClaimsStayValid, acts_ringbuf_space
  <2>3. TypeOK'
    BY <1>0, <1>1 DEF PutPublish, TypeOK, U32, readerVars
  <2>4. HeadPos' = HeadPos /\ HeadPos \in 0..(Size - 1)
    BY <1>0, <1>1 DEF PutPublish, TypeOK, HeadPos, AdvanceOffset, Norm, readerVars
  <2>5. TailPos = tail_offset /\ TailPos' = Norm(tail_offset + pn)
    BY <1>0, <1>1 DEF PutPublish, TailPos, AdvanceOffset, Norm
  <2>6. Norm(TailPos') = Norm(HeadPos + acts_ringbuf_length + pn)
    BY <1>0, <2>2, <2>1, <2>4, <2>5 DEF TypeOK, CountersAgree, Norm
  <2>7. CountersAgree'
    BY <2>1, <2>2, <2>4, <2>6, <1>0 DEF CountersAgree, Norm, TypeOK
  <2>8. ClaimsStayValid'
    BY <1>0, <1>1, <2>1 DEF PutPublish, TypeOK, ClaimsStayValid, readerVars
  <2> QED BY <2>3, <2>7, <2>8 DEF IInv
<1>2. CASE PutAdvance
  <2>1. TypeOK'
    BY <1>0, <1>2 DEF PutAdvance, TypeOK, AdvanceOffset, Norm, readerVars
  <2>2. acts_ringbuf_length' = acts_ringbuf_length
    BY <1>2 DEF PutAdvance, acts_ringbuf_length, U32, readerVars
  <2>3. HeadPos' = HeadPos /\ TailPos' = TailPos
    BY <1>2 DEF PutAdvance, HeadPos, TailPos, AdvanceOffset, Norm, readerVars
  <2>4. CountersAgree'
    BY <1>0, <2>2, <2>3 DEF CountersAgree, Norm
  <2>5. ClaimsStayValid'
    BY <1>0, <1>2, <2>2 DEF PutAdvance, ClaimsStayValid, readerVars
  <2> QED BY <2>1, <2>4, <2>5 DEF IInv
<1> QED BY <1>1, <1>2

\* The reader's publication: the length shrinks by what was claimed.
LEMMA PublishesHead ==
    ASSUME IInv, GetPublish \/ GetAdvance
    PROVE  IInv'
<1>0. /\ TypeOK /\ CountersAgree /\ ClaimsStayValid
      /\ acts_ringbuf_length \in 0..Size /\ Size \in Nat \ {0}
      /\ Wrap \in Nat /\ Wrap > Size
  BY LengthRange, SizeAssumption, WrapAssumption DEF IInv
<1>1. CASE GetPublish
  <2>1. acts_ringbuf_length' = acts_ringbuf_length - cn /\ cn <= acts_ringbuf_length
    BY <1>0, <1>1 DEF GetPublish, TypeOK, ClaimsStayValid,
                      acts_ringbuf_length, U32, writerVars
  <2>2. TypeOK'
    BY <1>0, <1>1 DEF GetPublish, TypeOK, U32, writerVars
  <2>3. TailPos' = TailPos
    BY <1>1 DEF GetPublish, TailPos, AdvanceOffset, Norm, writerVars
  <2>4. HeadPos = head_offset /\ HeadPos' = Norm(head_offset + cn)
    BY <1>0, <1>1 DEF GetPublish, HeadPos, AdvanceOffset, Norm
  <2>5. Norm(HeadPos' + (acts_ringbuf_length - cn)) = Norm(HeadPos + acts_ringbuf_length)
    BY <1>0, <2>1, <2>4 DEF TypeOK, Norm
  <2>6. CountersAgree'
    BY <1>0, <2>1, <2>3, <2>5 DEF CountersAgree, Norm, TypeOK
  <2>7. ClaimsStayValid'
    BY <1>0, <1>1, <2>1
       DEF GetPublish, TypeOK, ClaimsStayValid, acts_ringbuf_space, writerVars
  <2> QED BY <2>2, <2>6, <2>7 DEF IInv
<1>2. CASE GetAdvance
  <2>1. TypeOK'
    BY <1>0, <1>2 DEF GetAdvance, TypeOK, AdvanceOffset, Norm, writerVars
  <2>2. /\ acts_ringbuf_length' = acts_ringbuf_length
        /\ acts_ringbuf_space' = acts_ringbuf_space
    BY <1>2 DEF GetAdvance, acts_ringbuf_length, acts_ringbuf_space, U32, writerVars
  <2>3. HeadPos' = HeadPos /\ TailPos' = TailPos
    BY <1>2 DEF GetAdvance, HeadPos, TailPos, AdvanceOffset, Norm, writerVars
  <2>4. CountersAgree'
    BY <1>0, <2>2, <2>3 DEF CountersAgree, Norm
  <2>5. ClaimsStayValid'
    BY <1>0, <1>2, <2>2 DEF GetAdvance, ClaimsStayValid, writerVars
  <2> QED BY <2>1, <2>4, <2>5 DEF IInv
<1> QED BY <1>1, <1>2

\* The calls that rewrite both ends of a buffer nobody is using.
LEMMA Renumbers ==
    ASSUME IInv, Reset \/ DefragWrapped \/ DefragMove
    PROVE  IInv'
<1>0. /\ TypeOK /\ CountersAgree
      /\ acts_ringbuf_length \in 0..Size /\ Size \in Nat \ {0}
      /\ Wrap \in Nat /\ Wrap > Size
  BY LengthRange, SizeAssumption, WrapAssumption DEF IInv
<1>1. ClaimsStayValid'
  BY DEF Reset, DefragWrapped, DefragMove, Quiet, ClaimsStayValid
<1>2. CASE Reset
  BY <1>0, <1>1, <1>2 DEF Reset, Quiet, IInv, TypeOK, CountersAgree, HeadPos, TailPos,
                     acts_ringbuf_length, U32, AdvanceOffset, Norm
<1>3. CASE DefragWrapped
  <2>1. HeadPos = head_offset /\ TailPos = tail_offset
        /\ HeadPos' = head_offset /\ TailPos' = tail_offset
    BY <1>3 DEF DefragWrapped, Quiet, HeadPos, TailPos
  <2>2. TypeOK'
    BY <1>0, <1>3 DEF DefragWrapped, TypeOK, U32
  <2>3. acts_ringbuf_length # 0
    BY <1>0, <1>3 DEF DefragWrapped, TypeOK, acts_ringbuf_length,
                      acts_ringbuf_is_empty, U32
  <2>4. tail_offset + Size - head_offset = acts_ringbuf_length
    BY <1>0, <1>3, <2>1, <2>3 DEF DefragWrapped, TypeOK, CountersAgree, Norm
  <2>5. acts_ringbuf_length' = acts_ringbuf_length
    BY <1>0, <1>3, <2>4 DEF DefragWrapped, TypeOK, acts_ringbuf_length, U32
  <2>6. CountersAgree'
    BY <1>0, <2>1, <2>5 DEF CountersAgree, Norm
  <2> QED BY <1>1, <2>2, <2>6 DEF IInv
<1>4. CASE DefragMove
  <2>1. HeadPos' = 0 /\ TailPos' = acts_ringbuf_length
    BY <1>4 DEF DefragMove, Quiet, HeadPos, TailPos
  <2>2. acts_ringbuf_length' = acts_ringbuf_length
    BY <1>0, <1>4 DEF DefragMove, acts_ringbuf_length, U32
  <2>3. CountersAgree'
    BY <1>0, <2>1, <2>2 DEF CountersAgree, Norm
  <2>4. data' \in [0..(Size - 1) -> Elem]
    BY <1>0, <1>4 DEF DefragMove, TypeOK
  <2>5. TypeOK'
    BY <1>0, <1>4, <2>4 DEF DefragMove, TypeOK
  <2> QED BY <1>1, <2>3, <2>5 DEF IInv
<1> QED BY <1>2, <1>3, <1>4

\* Every step of the writer, the reader, a reset or a defrag preserves it.
LEMMA StepIInv == IInv /\ [Next]_vars => IInv'
<1> SUFFICES ASSUME IInv, [Next]_vars PROVE IInv'
  OBVIOUS
<1>1. CASE Writer
  BY <1>1, WriterPrepares, PublishesTail DEF Writer
<1>2. CASE Reader
  BY <1>2, ReaderPrepares, PublishesHead DEF Reader
<1>3. CASE Reset \/ DefragWrapped \/ DefragMove
  BY <1>3, Renumbers
<1>4. CASE UNCHANGED vars
  BY <1>4 DEF vars, IInv, TypeOK, CountersAgree, ClaimsStayValid, HeadPos, TailPos,
              acts_ringbuf_length, acts_ringbuf_space, U32, AdvanceOffset, Norm
<1> QED BY <1>1, <1>2, <1>3, <1>4 DEF Next

-----------------------------------------------------------------------------
(* The theorems.                                                           *)

\* Every variable keeps its type in every behaviour.
THEOREM TypeCorrect == Spec => []TypeOK
<1>1. IInv => TypeOK
  BY DEF IInv
<1> QED BY InitIInv, StepIInv, <1>1, PTL DEF Spec

\* For every Size and Wrap > Size, counters and offsets agree and the length
\* never exceeds the capacity, counter wrap-around included.
THEOREM CountersAlwaysAgree == Spec => []CountersAgree
<1>1. IInv => CountersAgree
  BY DEF IInv
<1> QED BY InitIInv, StepIInv, <1>1, PTL DEF Spec

\* The space or data a side checked for is there until it publishes.
THEOREM ClaimsAlwaysValid == Spec => []ClaimsStayValid
<1>1. IInv => ClaimsStayValid
  BY DEF IInv
<1> QED BY InitIInv, StepIInv, <1>1, PTL DEF Spec

\* What may be stored to and what may be read are disjoint while the
\* invariant holds.
LEMMA SpansDisjoint == IInv => NoOverlap
<1> SUFFICES ASSUME IInv,
                    ppc \in {"copy", "claimed", "publish"},
                    NEW i \in 0..(acts_ringbuf_length - 1),
                    NEW j \in 0..(Most(pn, Len(pbuf)) - 1)
             PROVE  Cell(HeadPos, i) # Cell(tail_offset, j)
  BY DEF NoOverlap, Unread, Writing, Span
<1>1. /\ TypeOK /\ Size \in Nat \ {0}
      /\ acts_ringbuf_length \in 0..Size
      /\ Norm(tail_offset) = Norm(HeadPos + acts_ringbuf_length)
  BY LengthRange, SizeAssumption DEF IInv, CountersAgree, TailPos
<1>2. HeadPos \in 0..(Size - 1) /\ tail_offset \in 0..Size
  BY <1>1 DEF TypeOK, HeadPos, AdvanceOffset, Norm
<1>3. acts_ringbuf_length + j < Size /\ i \in Nat /\ j \in Nat
      /\ i < acts_ringbuf_length
  BY <1>1 DEF IInv, ClaimsStayValid, TypeOK, Most, acts_ringbuf_space
<1> QED BY <1>1, <1>2, <1>3, CellsDiffer

\* The cells being written and the cells still to be read are disjoint: the
\* single-reader single-writer buffer needs no lock.
THEOREM LockFree == Spec => []NoOverlap
BY InitIInv, StepIInv, SpansDisjoint, PTL DEF Spec

-----------------------------------------------------------------------------
(* The buffer is a FIFO queue.                                             *)

\* What the reader has copied out and not yet published is still the front of
\* the unread data: the writer's stores, which go on meanwhile, miss it.  After
\* a failed stream_write the block is longer than what will be published.
BlockIsPrefix ==
    cpc \in {"copied", "publish"} /\ cbuf # <<>> =>
        /\ Len(cbuf) >= cn /\ Len(cbuf) <= acts_ringbuf_length
        /\ cbuf = ReadBlock(head_offset, Len(cbuf))

\* What the writer has stored and not yet published is the block it was given,
\* and no more than that block will be published.
BlockIsStaged ==
    /\ ppc \in {"claimed", "publish"} /\ pbuf # <<>> =>
          pbuf = ReadBlock(tail_offset, Len(pbuf))
    /\ ppc \in {"copy", "publish"} /\ pbuf # <<>> => pn <= Len(pbuf)

RInv == IInv /\ BlockIsPrefix /\ BlockIsStaged

\* The facts every step's proof starts from.
LEMMA Basics ==
    ASSUME IInv
    PROVE  /\ TypeOK /\ CountersAgree /\ ClaimsStayValid
           /\ Size \in Nat \ {0} /\ Wrap \in Nat /\ Wrap > Size
           /\ acts_ringbuf_length \in 0..Size
           /\ HeadPos \in 0..(Size - 1)
           /\ Contents \in [1..acts_ringbuf_length -> Elem]
           /\ Contents \in Seq(Elem) /\ Len(Contents) = acts_ringbuf_length
<1>1. /\ TypeOK /\ CountersAgree /\ ClaimsStayValid
      /\ Size \in Nat \ {0} /\ Wrap \in Nat /\ Wrap > Size
      /\ acts_ringbuf_length \in 0..Size
  BY LengthRange, SizeAssumption, WrapAssumption DEF IInv
<1>2. HeadPos \in 0..(Size - 1)
  BY <1>1 DEF TypeOK, HeadPos, AdvanceOffset, Norm
<1>3. ASSUME NEW i \in 1..acts_ringbuf_length
      PROVE  data[Cell(HeadPos, i - 1)] \in Elem
  <2>1. i - 1 \in 0..(Size - 1) /\ HeadPos \in 0..Size
    BY <1>1, <1>2
  <2>2. Cell(HeadPos, i - 1) \in 0..(Size - 1)
    BY <2>1, CellInArea
  <2> QED BY <1>1, <2>2 DEF TypeOK
<1>4. Contents \in [1..acts_ringbuf_length -> Elem]
  BY <1>3 DEF Contents
<1> QED BY <1>1, <1>2, <1>4

\* The queue is a sequence as long as the buffer says ...
ContentsIsSeq == Contents \in Seq(Elem) /\ Len(Contents) = acts_ringbuf_length

\* ... before and after a step.
LEMMA ContentsTyped == (IInv => ContentsIsSeq) /\ (IInv' => ContentsIsSeq')
<1>1. IInv => ContentsIsSeq
  BY Basics DEF ContentsIsSeq
<1> QED BY <1>1, PTL

\* A store of at most the claimed block leaves every unread cell as it was.
LEMMA StoresMissUnread ==
    ASSUME IInv, ppc \in {"copy", "claimed", "publish"},
           NEW s \in Seq(Elem), Len(s) <= Most(pn, Len(pbuf)),
           NEW i \in 1..acts_ringbuf_length
    PROVE  WriteBlock(tail_offset, s)[Cell(HeadPos, i - 1)]
             = data[Cell(HeadPos, i - 1)]
<1>1. i - 1 \in 0..(Size - 1) /\ HeadPos \in 0..Size
  BY Basics
<1>3. Cell(HeadPos, i - 1) \in 0..(Size - 1)
  BY <1>1, CellInArea
<1>2. ASSUME NEW j \in 1..Len(s) PROVE Cell(tail_offset, j - 1) # Cell(HeadPos, i - 1)
  <2>1. i - 1 \in 0..(acts_ringbuf_length - 1)
    BY Basics
  <2>6. TypeOK /\ Size \in Nat
    BY Basics
  <2>5. Most(pn, Len(pbuf)) \in Nat /\ Len(s) \in Nat
    BY <2>6 DEF TypeOK, Most
  <2>2. j - 1 \in 0..(Most(pn, Len(pbuf)) - 1)
    BY <2>5
  <2>3. Cell(HeadPos, i - 1) \in Unread
    BY <2>1 DEF Unread, Span
  <2>4. Cell(tail_offset, j - 1) \in Writing
    BY <2>2 DEF Writing, Span
  <2> QED BY <2>3, <2>4, SpansDisjoint DEF NoOverlap
<1> QED BY <1>3, <1>2 DEF WriteBlock

\* A block stored at an offset is what is read there afterwards.
LEMMA WriteThenRead ==
    ASSUME NEW offset \in 0..Size, NEW s \in Seq(Elem), Len(s) <= Size
    PROVE  s = [i \in 1..Len(s) |-> WriteBlock(offset, s)[Cell(offset, i - 1)]]
<1> DEFINE r == [i \in 1..Len(s) |-> WriteBlock(offset, s)[Cell(offset, i - 1)]]
<1>1. Len(s) \in Nat /\ Size \in Nat \ {0}
  BY SizeAssumption
<1>2. ASSUME NEW i \in 1..Len(s) PROVE r[i] = s[i]
  <2> DEFINE c == Cell(offset, i - 1)
             j == CHOOSE k \in 1..Len(s) : Cell(offset, k - 1) = c
  <2>1. c \in 0..(Size - 1)
    <3>1. i - 1 \in 0..(Size - 1)
      BY <1>1
    <3> QED BY <3>1, CellInArea
  <2>2. WriteBlock(offset, s)[c] = s[j]
    BY <2>1 DEF WriteBlock
  <2>3. j \in 1..Len(s) /\ Cell(offset, j - 1) = c
    OBVIOUS
  <2> HIDE DEF j
  <2>4. j = i
    BY <1>1, <2>3 DEF Cell, Norm
  <2> QED BY <2>2, <2>4
<1>3. s = [i \in 1..Len(s) |-> s[i]]
  OBVIOUS
<1> QED BY <1>2, <1>3

\* The queue is what it was if the unread cells hold what they held.
LEMMA ContentsSame ==
    ASSUME acts_ringbuf_length' = acts_ringbuf_length,
           \A i \in 1..acts_ringbuf_length :
               data'[Cell(HeadPos, i - 1)'] = data[Cell(HeadPos, i - 1)]
    PROVE  Contents' = Contents
BY DEF Contents

\* Up to its publication the writer leaves counters and unread cells alone.
LEMMA WriterKeepsContents ==
    ASSUME IInv,
           \/ \E s \in Blocks : PutBegin(s) \/ ClaimWrite(s)
           \/ \E c \in Elem, n \in 0..Size : FillBegin(c, n)
           \/ \E size \in 0..Size, s \in Blocks :
                 \/ StreamWriteBegin(size, s)
                 \/ \E e \in StreamErrors : StreamWriteError(size, s, e)
           \/ \E n \in 0..Size : FillNoneBegin(n) \/ PutClaim(n)
           \/ PutCopy \/ PutFinish \/ PutAdvance
    PROVE  /\ \A i \in 1..acts_ringbuf_length :
                 data'[Cell(HeadPos, i - 1)] = data[Cell(HeadPos, i - 1)]
           /\ acts_ringbuf_length' = acts_ringbuf_length
           /\ HeadPos' = HeadPos
           /\ UNCHANGED readerVars
<1>1. tail' = tail /\ UNCHANGED readerVars
  BY DEF PutBegin, ClaimWrite, FillBegin, StreamWriteBegin, StreamWriteError,
         FillNoneBegin, PutClaim, PutCopy, PutFinish, PutAdvance
<1>2. /\ acts_ringbuf_length' = acts_ringbuf_length
      /\ HeadPos' = HeadPos
  BY <1>1 DEF readerVars, acts_ringbuf_length, U32, HeadPos, AdvanceOffset, Norm
<1>3. \/ data' = data
      \/ PutCopy
      \/ \E s \in Blocks : ClaimWrite(s)
  BY DEF PutBegin, ClaimWrite, FillBegin, StreamWriteBegin, StreamWriteError,
         FillNoneBegin, PutClaim, PutCopy, PutFinish, PutAdvance
<1>4. CASE PutCopy
  <2>1. Len(pbuf) <= Most(pn, Len(pbuf)) /\ pbuf \in Seq(Elem)
    BY Basics DEF TypeOK, Most
  <2> QED BY <1>1, <1>2, <1>4, <2>1, StoresMissUnread DEF PutCopy
<1>5. ASSUME NEW s \in Blocks, ClaimWrite(s)
      PROVE  \A i \in 1..acts_ringbuf_length :
                data'[Cell(HeadPos, i - 1)] = data[Cell(HeadPos, i - 1)]
  <2>1. s \in Seq(Elem) /\ Len(s) \in Nat
    BY BlockType, SizeAssumption
  <2>2. Len(s) <= Most(pn, Len(pbuf))
    BY <1>5, <2>1, Basics DEF ClaimWrite, TypeOK, Most
  <2> QED BY <1>5, <2>1, <2>2, StoresMissUnread DEF ClaimWrite
<1> QED BY <1>1, <1>2, <1>3, <1>4, <1>5

\* Up to its publication the reader leaves the queue alone.
LEMMA ReaderKeepsContents ==
    ASSUME IInv,
           \/ \E n \in 0..Size : GetBegin(n) \/ GetClaim(n) \/ GetFinish(n) \/ Drop(n)
           \/ \E size, n \in 0..Size : StreamReadBegin(size, n)
           \/ \E size \in 0..Size, e \in StreamErrors : StreamReadError(size, e)
           \/ GetCopy \/ PeekDone \/ GetAdvance
    PROVE  Contents' = Contents /\ got' = got /\ Handed' = Handed
<1>1. UNCHANGED <<head, got, writerVars>>
  BY DEF GetBegin, GetClaim, GetFinish, Drop, StreamReadBegin, StreamReadError,
         GetCopy, PeekDone, GetAdvance
<1>2. acts_ringbuf_length' = acts_ringbuf_length /\ data' = data
  BY <1>1 DEF writerVars, acts_ringbuf_length, U32
<1>3. HeadPos' = HeadPos
  BY DEF GetBegin, GetClaim, GetFinish, Drop, StreamReadBegin, StreamReadError,
         GetCopy, PeekDone, GetAdvance, HeadPos, AdvanceOffset, Norm
<1>4. Contents' = Contents
  BY <1>2, <1>3, ContentsSame DEF Cell, Norm
<1> QED BY <1>1, <1>4 DEF Handed, writerVars

\* The writer's publication appends the block it was given, the front of it
\* after a failed stream_read, or the cells fill_none commits.
LEMMA PublishIsPush ==
    ASSUME RInv, PutPublish
    PROVE  \/ Fifo!Place
           \/ Len(pbuf) = pn /\ Fifo!Push
           \/ Len(pbuf) > pn /\ Fifo!PushPart
<1>0. /\ IInv /\ BlockIsStaged /\ TypeOK /\ CountersAgree /\ ClaimsStayValid
      /\ Size \in Nat \ {0} /\ Wrap \in Nat /\ Wrap > Size
      /\ acts_ringbuf_length \in 0..Size
      /\ HeadPos \in 0..(Size - 1)
      /\ Contents \in Seq(Elem) /\ Len(Contents) = acts_ringbuf_length
  BY Basics DEF RInv
<1>1. acts_ringbuf_length' = acts_ringbuf_length + pn
  BY <1>0 DEF PutPublish, TypeOK, ClaimsStayValid, acts_ringbuf_space,
              acts_ringbuf_length, U32, readerVars
<1>2. HeadPos' = HeadPos /\ data' = data /\ got' = got
  BY DEF PutPublish, HeadPos, AdvanceOffset, Norm, readerVars
<1> DEFINE s == ReadBlock(tail_offset, pn)
           l == acts_ringbuf_length
<1>3. /\ pn \in 0..Size /\ tail_offset \in 0..Size
      /\ data \in [0..(Size - 1) -> Elem] /\ pn <= Size - l
      /\ Norm(tail_offset) = Norm(HeadPos + l)
  BY <1>0 DEF PutPublish, TypeOK, ClaimsStayValid, acts_ringbuf_space,
              CountersAgree, TailPos
<1>4. s \in Seq(Elem) /\ Len(s) = pn
  BY <1>3, ReadBlockType
<1>5. ASSUME NEW i \in 1..l
      PROVE  Contents[i] = data[Cell(HeadPos, i - 1)]
  BY DEF Contents
<1>6. ASSUME NEW i \in 1..(l + pn)
      PROVE  Contents'[i] = data[Cell(HeadPos, i - 1)]
  BY <1>1, <1>2 DEF Contents, Cell, Norm
<1>7. ASSUME NEW i \in 1..pn
      PROVE  s[i] = data[Cell(tail_offset, i - 1)]
  BY DEF ReadBlock
<1>8. ASSUME NEW i \in 1..(l + pn), i > l
      PROVE  Cell(HeadPos, i - 1) = Cell(tail_offset, i - l - 1)
  BY <1>0, <1>3, <1>8 DEF Cell, Norm
<1>9. Contents' \in Seq(Elem) /\ Len(Contents') = l + pn
  <2>1. IInv'
    BY <1>0, PublishesTail
  <2>2. Contents' \in Seq(Elem) /\ Len(Contents') = l'
    BY <2>1, ContentsTyped DEF ContentsIsSeq
  <2> QED BY <2>2, <1>1
<1> HIDE DEF s, l
<1>10. ASSUME NEW i \in 1..(l + pn)
       PROVE  Contents'[i] = (Contents \o s)[i]
  <2>1. l \in Nat /\ pn \in Nat
    BY <1>0, <1>3 DEF l
  <2>2. (Contents \o s)[i] = IF i <= l THEN Contents[i] ELSE s[i - l]
    BY <1>0, <1>4, ConcatProperties DEF l
  <2>3. CASE i <= l
    BY <1>5, <1>6, <2>1, <2>2, <2>3
  <2>4. CASE ~(i <= l)
    <3>1. i - l \in 1..pn /\ i > l
      BY <2>1, <2>4
    <3>2. s[i - l] = data[Cell(tail_offset, i - l - 1)]
      BY <1>7, <3>1
    <3> QED BY <1>6, <1>8, <2>2, <2>4, <3>1, <3>2
  <2> QED BY <2>3, <2>4
<1>11. Contents \o s \in Seq(Elem) /\ Len(Contents \o s) = l + pn
  BY <1>0, <1>4, ConcatProperties DEF l
<1>12. Contents' = Contents \o s
  BY <1>9, <1>10, <1>11, SeqEqual
<1>13. pn \in 0..(Size - Len(Contents))
  BY <1>0, <1>3 DEF l
<1>14. s \in Fifo!Fitting
  BY <1>4, <1>13 DEF Fifo!Fitting
<1>15. Handed' = pbuf
  BY DEF PutPublish, Handed
<1>16. CASE pbuf = <<>>
  BY <1>2, <1>12, <1>14, <1>15, <1>16 DEF Fifo!Place
<1>17. CASE pbuf # <<>>
  <2>1. /\ pbuf = ReadBlock(tail_offset, Len(pbuf)) /\ pn <= Len(pbuf)
        /\ pbuf \in Seq(Elem) /\ Len(pbuf) \in Nat /\ pn \in Nat
    BY <1>0, <1>3, <1>17 DEF BlockIsStaged, PutPublish, TypeOK
  <2> DEFINE front == SubSeq(pbuf, 1, pn)
  <2>2. /\ front \in Seq(Elem) /\ Len(front) = pn
        /\ \A i \in 1..pn : front[i] = pbuf[i]
    <3>1. \A i \in 1..pn : pbuf[i] \in Elem
      BY <2>1, ElementOfSeq
    <3> QED BY <2>1, <3>1, SubSeqProperties
  <2>3. ASSUME NEW i \in 1..pn PROVE front[i] = s[i]
    <3>1. pbuf[i] = data[Cell(tail_offset, i - 1)]
      <4>1. i \in 1..Len(pbuf)
        BY <2>1
      <4>2. ReadBlock(tail_offset, Len(pbuf))[i] = data[Cell(tail_offset, i - 1)]
        BY <4>1 DEF ReadBlock
      <4> QED BY <2>1, <4>2
    <3> QED BY <1>7, <2>2, <3>1
  <2> HIDE DEF front
  <2>4. front = s
    BY <1>4, <2>2, <2>3, SeqEqual
  <2>5. pbuf \in Fifo!Fitting
    <3>1. Len(pbuf) <= Size - Len(Contents)
      BY <1>0 DEF ClaimsStayValid, PutPublish, acts_ringbuf_space
    <3>2. pbuf \in [1..Len(pbuf) -> Elem] /\ Len(pbuf) \in 0..(Size - Len(Contents))
      BY <1>0, <2>1, <3>1
    <3> QED BY <3>2 DEF Fifo!Fitting
  <2>6. CASE Len(pbuf) = pn
    <3>1. pbuf = s
      BY <1>4, <2>1, <2>2, <2>3, <2>6, SeqEqual
    <3> QED BY <1>2, <1>12, <1>15, <2>5, <2>6, <3>1 DEF Fifo!Push
  <2>7. CASE Len(pbuf) > pn
    <3>1. pn \in 0..Len(pbuf)
      BY <2>1
    <3> QED BY <1>2, <1>12, <1>15, <2>4, <2>5, <2>7, <3>1 DEF Fifo!PushPart, front
  <2> QED BY <2>1, <2>6, <2>7
<1> QED BY <1>16, <1>17

\* The reader's publication takes the front of the queue, or drops it; after a
\* failed stream_write it takes less than the reader was handed.
LEMMA PublishIsPop ==
    ASSUME RInv, GetPublish
    PROVE  \/ Fifo!Discard
           \/ Len(cbuf) = cn /\ Fifo!Pop
           \/ Len(cbuf) > cn /\ Fifo!PopPart
<1>0. /\ IInv /\ BlockIsPrefix /\ TypeOK /\ CountersAgree /\ ClaimsStayValid
      /\ Size \in Nat \ {0} /\ Wrap \in Nat /\ Wrap > Size
      /\ acts_ringbuf_length \in 0..Size
      /\ HeadPos \in 0..(Size - 1)
      /\ Contents \in Seq(Elem) /\ Len(Contents) = acts_ringbuf_length
  BY Basics DEF RInv
<1>1. /\ acts_ringbuf_length' = acts_ringbuf_length - cn
      /\ cn <= acts_ringbuf_length /\ cn \in Nat
  BY <1>0 DEF GetPublish, TypeOK, ClaimsStayValid,
              acts_ringbuf_length, U32, writerVars
<1>2. /\ HeadPos = head_offset /\ HeadPos' = Norm(head_offset + cn)
      /\ data' = data
  BY DEF GetPublish, HeadPos, AdvanceOffset, Norm, writerVars
<1> DEFINE l == acts_ringbuf_length
           rest == SubSeq(Contents, cn + 1, l)
<1>3. ASSUME NEW i \in 1..l
      PROVE  Contents[i] = data[Cell(head_offset, i - 1)]
  BY <1>2 DEF Contents
<1>4. ASSUME NEW i \in 1..(l - cn)
      PROVE  Contents'[i] = data[Cell(HeadPos', i - 1)]
  BY <1>1, <1>2 DEF Contents, Cell, Norm
<1>5. ASSUME NEW i \in 1..(l - cn)
      PROVE  Cell(HeadPos', i - 1) = Cell(head_offset, cn + i - 1)
  BY <1>0, <1>1, <1>2 DEF Cell, Norm
<1>6. Contents' \in Seq(Elem) /\ Len(Contents') = l - cn
  <2>1. IInv'
    BY <1>0, PublishesHead
  <2> QED BY <1>1, <2>1, ContentsTyped DEF ContentsIsSeq
<1> HIDE DEF l
<1>7. l \in Nat /\ Len(Contents) = l /\ cn <= l
  BY <1>0, <1>1 DEF l
<1>8. /\ rest \in Seq(Elem) /\ Len(rest) = l - cn
      /\ \A i \in 1..(l - cn) : rest[i] = Contents[cn + i]
  <2>1. \A i \in (cn + 1)..l : Contents[i] \in Elem
    BY <1>0, <1>1, <1>7, ElementOfSeq
  <2> QED BY <1>1, <1>7, <2>1, SubSeqProperties
<1> HIDE DEF rest
<1>9. Contents' = rest
  <2>1. ASSUME NEW i \in 1..(l - cn) PROVE Contents'[i] = rest[i]
    <3>1. cn + i \in 1..l /\ cn + i - 1 = (cn + i) - 1
      BY <1>1, <1>7
    <3>2. Contents[cn + i] = data[Cell(head_offset, cn + i - 1)]
      BY <1>3, <3>1
    <3> QED BY <1>4, <1>5, <1>8, <3>2
  <2> QED BY <1>6, <1>8, <2>1, SeqEqual
<1>10. cn \in 0..Len(Contents)
  BY <1>1, <1>7
<1>13. got' = cbuf /\ Handed' = Handed
  BY DEF GetPublish, Handed, writerVars
<1>11. CASE cbuf = <<>>
  BY <1>7, <1>9, <1>10, <1>11, <1>13 DEF Fifo!Discard, rest
<1>12. CASE cbuf # <<>>
  <2> DEFINE n == Len(cbuf)
             front == SubSeq(Contents, 1, n)
  <2>1. /\ n >= cn /\ n <= l
        /\ cbuf = ReadBlock(head_offset, n)
        /\ cbuf \in Seq(Elem) /\ n \in Nat
    BY <1>0, <1>12 DEF BlockIsPrefix, GetPublish, TypeOK, l
  <2>2. ASSUME NEW i \in 1..n PROVE cbuf[i] = Contents[i]
    <3>1. cbuf[i] = data[Cell(head_offset, i - 1)]
      BY <2>1 DEF ReadBlock
    <3>2. i \in 1..l
      BY <1>7, <2>1
    <3> QED BY <1>3, <3>1, <3>2
  <2>3. /\ front \in Seq(Elem) /\ Len(front) = n
        /\ \A i \in 1..n : front[i] = Contents[i]
    <3>1. \A i \in 1..n : Contents[i] \in Elem
      BY <1>0, <1>7, <2>1, ElementOfSeq
    <3> QED BY <1>7, <2>1, <3>1, SubSeqProperties
  <2>5. cbuf = front
    BY <2>1, <2>2, <2>3, SeqEqual
  <2>6. n \in 0..Len(Contents) /\ cn \in 0..n
    BY <1>1, <1>7, <2>1
  <2> HIDE DEF n
  <2>7. CASE n = cn
    BY <1>7, <1>9, <1>13, <2>5, <2>6, <2>7 DEF Fifo!Pop, rest, n
  <2>8. CASE n > cn
    BY <1>7, <1>9, <1>13, <2>5, <2>6, <2>8 DEF Fifo!PopPart, rest, n
  <2> QED BY <1>1, <2>1, <2>7, <2>8 DEF n
<1> QED BY <1>11, <1>12

\* A reset empties the queue; a defrag moves it and keeps it.
LEMMA RenumberKeepsQueue ==
    ASSUME RInv, Reset \/ DefragWrapped \/ DefragMove
    PROVE  Fifo!Discard \/ UNCHANGED <<Contents, Handed, got>>
<1>0. /\ IInv /\ TypeOK /\ CountersAgree
      /\ Size \in Nat \ {0} /\ Wrap \in Nat /\ Wrap > Size
      /\ acts_ringbuf_length \in 0..Size
      /\ Contents \in Seq(Elem) /\ Len(Contents) = acts_ringbuf_length
  BY Basics DEF RInv
<1>1. IInv' /\ ContentsIsSeq'
  BY <1>0, Renumbers, ContentsTyped
<1>5. Handed' = Handed
  BY DEF Reset, DefragWrapped, DefragMove, Quiet, Handed
<1>2. CASE Reset
  <2>1. acts_ringbuf_length' = 0 /\ got' = <<>>
    BY <1>0, <1>2 DEF Reset, acts_ringbuf_length, U32
  <2>2. Contents' = <<>>
    BY <1>1, <2>1 DEF ContentsIsSeq
  <2>3. SubSeq(Contents, Len(Contents) + 1, Len(Contents)) = <<>>
    BY <1>0, SubSeqEmpty
  <2>4. Len(Contents) \in 0..Len(Contents)
    BY <1>0
  <2> QED BY <1>5, <2>1, <2>2, <2>3, <2>4 DEF Fifo!Discard
<1>3. CASE DefragWrapped
  <2>1. /\ HeadPos = head_offset /\ TailPos = tail_offset
        /\ HeadPos' = head_offset /\ data' = data /\ got' = got
    BY <1>3 DEF DefragWrapped, Quiet, HeadPos, TailPos
  <2>2. acts_ringbuf_length # 0
    BY <1>0, <1>3 DEF DefragWrapped, TypeOK, acts_ringbuf_length,
                      acts_ringbuf_is_empty, U32
  <2>3. tail_offset + Size - head_offset = acts_ringbuf_length
    BY <1>0, <1>3, <2>1, <2>2 DEF DefragWrapped, TypeOK, CountersAgree, Norm
  <2>4. acts_ringbuf_length' = acts_ringbuf_length
    BY <1>0, <1>3, <2>3 DEF DefragWrapped, TypeOK, acts_ringbuf_length, U32
  <2>5. Contents' = Contents
    BY <2>1, <2>4, ContentsSame DEF Cell, Norm
  <2> QED BY <1>5, <2>1, <2>5
<1>4. CASE DefragMove
  <2>1. /\ HeadPos = head_offset /\ TailPos = tail_offset /\ HeadPos' = 0
        /\ got' = got
    BY <1>4 DEF DefragMove, Quiet, HeadPos, TailPos
  <2>2. acts_ringbuf_length' = acts_ringbuf_length
    BY <1>0, <1>4 DEF DefragMove, acts_ringbuf_length, U32
  <2>3. CASE acts_ringbuf_length = 0
    <3>1. Contents = <<>> /\ Contents' = <<>>
      BY <1>0, <1>1, <2>2, <2>3 DEF ContentsIsSeq
    <3> QED BY <1>5, <2>1, <3>1
  <2>4. CASE head_offset = 0
    <3>1. data' = data
      BY <1>4, <2>4 DEF DefragMove
    <3>2. Contents' = Contents
      BY <2>1, <2>2, <2>4, <3>1, ContentsSame DEF Cell, Norm
    <3> QED BY <1>5, <2>1, <3>2
  <2>5. CASE acts_ringbuf_length # 0 /\ head_offset # 0
    <3>1. ~acts_ringbuf_is_empty /\ head_offset < tail_offset
      BY <1>0, <1>4, <2>5
         DEF DefragMove, TypeOK, acts_ringbuf_length, acts_ringbuf_is_empty, U32
    <3>2. acts_ringbuf_length = tail_offset - head_offset
      BY <1>0, <2>1, <2>5, <3>1 DEF CountersAgree, TypeOK, Norm
    <3>3. ASSUME NEW i \in 1..acts_ringbuf_length
          PROVE  data'[Cell(0, i - 1)] = data[Cell(head_offset, i - 1)]
      <4>1. /\ i - 1 \in 0..(Size - 1) /\ i - 1 < tail_offset - head_offset
            /\ Cell(0, i - 1) = i - 1
            /\ Cell(head_offset, i - 1) = head_offset + (i - 1)
        BY <1>0, <3>2 DEF TypeOK, Cell, Norm
      <4>2. data' = [c \in 0..(Size - 1) |->
                        IF c < tail_offset - head_offset
                        THEN data[head_offset + c] ELSE data[c]]
        BY <1>4, <2>5, <3>1 DEF DefragMove
      <4> QED BY <4>1, <4>2
    <3>4. Contents' = Contents
      BY <2>1, <2>2, <3>3, ContentsSame DEF Cell, Norm
    <3> QED BY <1>5, <2>1, <3>4
  <2> QED BY <2>3, <2>4, <2>5
<1> QED BY <1>2, <1>3, <1>4

\* The front of the queue stays what the reader copied.
LEMMA StepBlockIsPrefix ==
    ASSUME RInv, IInv', [Next]_vars
    PROVE  BlockIsPrefix'
<1> USE DEF RInv
<1>0. /\ TypeOK /\ ClaimsStayValid /\ Size \in Nat \ {0}
      /\ acts_ringbuf_length \in 0..Size
      /\ head_offset \in 0..Size /\ data \in [0..(Size - 1) -> Elem]
  BY Basics DEF TypeOK
<1>1. ASSUME UNCHANGED readerVars, acts_ringbuf_length' >= acts_ringbuf_length,
             \A i \in 1..acts_ringbuf_length :
                data'[Cell(HeadPos, i - 1)] = data[Cell(HeadPos, i - 1)],
             acts_ringbuf_length' \in Nat
      PROVE  BlockIsPrefix'
  <2> SUFFICES ASSUME cpc \in {"copied", "publish"}, cbuf # <<>>
               PROVE  /\ Len(cbuf) >= cn /\ Len(cbuf) <= acts_ringbuf_length'
                      /\ cbuf = ReadBlock(head_offset, Len(cbuf))'
    BY <1>1 DEF BlockIsPrefix, readerVars
  <2>1. /\ Len(cbuf) >= cn /\ Len(cbuf) <= acts_ringbuf_length
        /\ cbuf = ReadBlock(head_offset, Len(cbuf)) /\ Len(cbuf) \in Nat
    BY <1>0 DEF BlockIsPrefix, TypeOK
  <2>2. HeadPos = head_offset
    BY DEF HeadPos
  <2>3. \A i \in 1..Len(cbuf) :
            data'[Cell(head_offset, i - 1)] = data[Cell(head_offset, i - 1)]
    BY <1>0, <1>1, <2>1, <2>2
  <2>4. ReadBlock(head_offset, Len(cbuf))' = ReadBlock(head_offset, Len(cbuf))
    BY <1>1, <2>3 DEF ReadBlock, readerVars, Cell, Norm
  <2> QED BY <1>0, <1>1, <2>1, <2>4
<1>2. CASE Writer /\ ~PutPublish
  BY <1>0, <1>1, <1>2, WriterKeepsContents DEF Writer
<1>3. CASE PutPublish
  <2>1. acts_ringbuf_length' = acts_ringbuf_length + pn /\ pn \in Nat
    BY <1>0, <1>3, WrapAssumption
       DEF PutPublish, TypeOK, ClaimsStayValid, acts_ringbuf_space,
           acts_ringbuf_length, U32, readerVars
  <2> QED BY <1>0, <1>1, <1>3, <2>1 DEF PutPublish
<1>4. CASE Reader
  <2>1. CASE GetCopy
    <3>1. ReadBlock(head_offset, cn) \in Seq(Elem)
          /\ Len(ReadBlock(head_offset, cn)) = cn
      BY <1>0, ReadBlockType DEF TypeOK
    <3>2. ReadBlock(head_offset, cn)' = ReadBlock(head_offset, cn)
          /\ acts_ringbuf_length' = acts_ringbuf_length
      BY <2>1 DEF GetCopy, ReadBlock, acts_ringbuf_length, U32, Cell, Norm, writerVars
    <3> QED BY <1>0, <2>1, <3>1, <3>2
            DEF GetCopy, BlockIsPrefix, TypeOK, ClaimsStayValid
  <2>2. ASSUME NEW n \in 0..Size, GetFinish(n) PROVE BlockIsPrefix'
    <3>1. ReadBlock(head_offset, n) \in Seq(Elem)
          /\ Len(ReadBlock(head_offset, n)) = n
      BY <1>0, ReadBlockType
    <3>2. ReadBlock(head_offset, n)' = ReadBlock(head_offset, n)
          /\ acts_ringbuf_length' = acts_ringbuf_length
      BY <2>2 DEF GetFinish, ReadBlock, acts_ringbuf_length, U32, Cell, Norm, writerVars
    <3>3. n <= acts_ringbuf_length
      BY <1>0, <2>2 DEF GetFinish, ClaimsStayValid, TypeOK
    <3> QED BY <1>0, <2>2, <3>1, <3>2, <3>3 DEF GetFinish, BlockIsPrefix
  <2>3. ASSUME NEW size \in 0..Size, NEW e \in StreamErrors, StreamReadError(size, e)
        PROVE  BlockIsPrefix'
    <3> DEFINE len == Size - head_offset
    <3>1. len \in 0..Size /\ len < acts_ringbuf_length
      BY <1>0, <2>3 DEF StreamReadError, TypeOK
    <3>2. ReadBlock(head_offset, len) \in Seq(Elem)
          /\ Len(ReadBlock(head_offset, len)) = len
      BY <1>0, <3>1, ReadBlockType
    <3>3. ReadBlock(head_offset, len)' = ReadBlock(head_offset, len)
          /\ acts_ringbuf_length' = acts_ringbuf_length
      BY <2>3 DEF StreamReadError, ReadBlock, acts_ringbuf_length, U32, Cell, Norm,
                  writerVars
    <3>4. cbuf' = ReadBlock(head_offset, len) /\ cn' <= len
      BY <1>0, <2>3, <3>1, StreamErrorsAssumption DEF StreamReadError, Most
    <3>5. head_offset' = head_offset
      BY <2>3 DEF StreamReadError
    <3> QED BY <1>0, <3>1, <3>2, <3>3, <3>4, <3>5 DEF BlockIsPrefix
  <2>4. ASSUME cpc' \notin {"copied", "publish"} \/ cbuf' = <<>> PROVE BlockIsPrefix'
    BY <2>4 DEF BlockIsPrefix
  <2>5. \/ GetCopy
        \/ \E n \in 0..Size : GetFinish(n)
        \/ \E size \in 0..Size, e \in StreamErrors : StreamReadError(size, e)
        \/ cpc' \notin {"copied", "publish"} \/ cbuf' = <<>>
    BY <1>4 DEF Reader, GetBegin, GetClaim, Drop, StreamReadBegin, PeekDone,
                GetPublish, GetAdvance
  <2> QED BY <2>1, <2>2, <2>3, <2>4, <2>5
<1>5. CASE Reset \/ DefragWrapped \/ DefragMove
  BY <1>5 DEF Reset, DefragWrapped, DefragMove, Quiet, BlockIsPrefix
<1>6. CASE UNCHANGED vars
  BY <1>6 DEF vars, BlockIsPrefix, ReadBlock, acts_ringbuf_length, U32, Cell, Norm
<1> QED BY <1>2, <1>3, <1>4, <1>5, <1>6 DEF Next

\* The block the writer stored stays where it is until it is published: the
\* reader stores nothing, and a defrag waits for the writer.
LEMMA StepBlockIsStaged ==
    ASSUME RInv, [Next]_vars
    PROVE  BlockIsStaged'
<1> USE DEF RInv
<1>0. /\ TypeOK /\ BlockIsStaged /\ Size \in Nat \ {0}
      /\ tail_offset \in 0..Size /\ data \in [0..(Size - 1) -> Elem]
  BY Basics DEF TypeOK
<1>1. ASSUME UNCHANGED writerVars PROVE BlockIsStaged'
  BY <1>0, <1>1 DEF writerVars, BlockIsStaged, ReadBlock, Cell, Norm
<1>2. ASSUME NEW s \in Seq(Elem), Len(s) <= Size, pbuf' = s,
             data' = WriteBlock(tail_offset, s), tail_offset' = tail_offset
      PROVE  pbuf' = ReadBlock(tail_offset, Len(pbuf))'
  <2>1. s = [i \in 1..Len(s) |-> WriteBlock(tail_offset, s)[Cell(tail_offset, i - 1)]]
    BY <1>0, <1>2, WriteThenRead
  <2>2. ReadBlock(tail_offset, Len(pbuf))'
          = [i \in 1..Len(s) |-> WriteBlock(tail_offset, s)[Cell(tail_offset, i - 1)]]
    BY <1>2 DEF ReadBlock, Cell, Norm
  <2> QED BY <1>2, <2>1, <2>2
<1>3. CASE Writer
  <2>1. ASSUME NEW s \in Blocks, PutBegin(s) PROVE BlockIsStaged'
    BY <2>1, BlockType, SizeAssumption DEF PutBegin, BlockIsStaged
  <2>2. ASSUME NEW s \in Blocks, ClaimWrite(s) PROVE BlockIsStaged'
    <3>1. s \in Seq(Elem) /\ Len(s) <= Size
      BY BlockType
    <3> QED BY <1>2, <2>2, <3>1 DEF ClaimWrite, BlockIsStaged
  <2>3. ASSUME NEW c \in Elem, NEW n \in 0..Size, FillBegin(c, n) PROVE BlockIsStaged'
    <3>1. [i \in 1..n |-> c] \in Blocks
      BY DEF Blocks
    <3> QED BY <2>1, <2>3, <3>1 DEF FillBegin
  <2>4. ASSUME NEW size \in 0..Size, NEW s \in Blocks, StreamWriteBegin(size, s)
        PROVE  BlockIsStaged'
    BY <2>1, <2>4 DEF StreamWriteBegin
  <2>5. ASSUME NEW size \in 0..Size, NEW s \in Blocks, NEW e \in StreamErrors,
               StreamWriteError(size, s, e)
        PROVE  BlockIsStaged'
    <3>1. Len(s) \in Nat /\ e \in Nat
      BY BlockType, SizeAssumption, StreamErrorsAssumption
    <3>2. Most(Len(s) - e, 0) <= Len(s)
      BY <3>1 DEF Most
    <3> QED BY <2>5, <3>2 DEF StreamWriteError, BlockIsStaged
  <2>6. ASSUME NEW n \in 0..Size, FillNoneBegin(n) \/ PutClaim(n) PROVE BlockIsStaged'
    BY <2>6 DEF FillNoneBegin, PutClaim, BlockIsStaged
  <2>7. CASE PutCopy
    <3>1. pbuf \in Seq(Elem) /\ Len(pbuf) <= Size
      BY <1>0 DEF TypeOK
    <3> QED BY <1>0, <1>2, <2>7, <3>1 DEF PutCopy, BlockIsStaged
  <2>8. CASE PutFinish
    <3>1. Len(pbuf) \in Nat
      BY <1>0 DEF TypeOK
    <3> QED BY <1>0, <2>8, <3>1 DEF PutFinish, BlockIsStaged, ReadBlock, Cell, Norm
  <2>9. CASE PutPublish \/ PutAdvance
    BY <2>9 DEF PutPublish, PutAdvance, BlockIsStaged
  <2> QED BY <1>3, <2>1, <2>2, <2>3, <2>4, <2>5, <2>6, <2>7, <2>8, <2>9 DEF Writer
<1>4. CASE Reader
  BY <1>1, <1>4 DEF Reader, GetBegin, GetClaim, GetFinish, Drop, StreamReadBegin,
     StreamReadError, GetCopy, PeekDone, GetPublish, GetAdvance
<1>5. CASE Reset \/ DefragWrapped \/ DefragMove
  BY <1>5 DEF Reset, DefragWrapped, DefragMove, Quiet, BlockIsStaged
<1>6. CASE UNCHANGED vars
  BY <1>1, <1>6 DEF vars, writerVars
<1> QED BY <1>3, <1>4, <1>5, <1>6 DEF Next

\* A writer's step other than its publication leaves the queue alone and hands
\* nothing over; after the last one its call has returned.
LEMMA WriterIsQuiet ==
    ASSUME RInv, Writer, ~PutPublish
    PROVE  Fifo!Push \/ UNCHANGED <<Contents, Handed, got>>
<1> USE DEF RInv
<1>1. /\ \A i \in 1..acts_ringbuf_length :
            data'[Cell(HeadPos, i - 1)] = data[Cell(HeadPos, i - 1)]
      /\ acts_ringbuf_length' = acts_ringbuf_length
      /\ HeadPos' = HeadPos /\ UNCHANGED readerVars
  BY WriterKeepsContents DEF Writer
<1>2. Contents' = Contents /\ got' = got
  BY <1>1, ContentsSame DEF Cell, Norm, readerVars
<1>3. CASE PutAdvance
  <2>1. Handed' = <<>>
    BY <1>3 DEF PutAdvance, Handed
  <2>2. <<>> \in Fifo!Fitting
    <3>1. Len(Contents) \in 0..Size /\ Size \in Nat
      BY Basics
    <3>2. 0 \in 0..(Size - Len(Contents)) /\ <<>> \in [1..0 -> Elem]
      BY <3>1
    <3> QED BY <3>2 DEF Fifo!Fitting
  <2>3. Contents' = Contents \o <<>>
    BY <1>2, Basics
  <2> QED BY <1>2, <2>1, <2>2, <2>3 DEF Fifo!Push
<1>4. CASE ~PutAdvance
  <2>1. Handed' = Handed
    BY <1>4 DEF Writer, PutBegin, ClaimWrite, FillBegin, StreamWriteBegin,
       StreamWriteError, FillNoneBegin, PutClaim, PutCopy, PutFinish, Handed
  <2> QED BY <1>2, <2>1
<1> QED BY <1>3, <1>4

\* Every step of the buffer is a step of the queue or leaves it alone, but for
\* the publication after a failed stream callback.
LEMMA StepFifo ==
    ASSUME RInv, [Next]_vars
    PROVE  \/ [Fifo!Next]_(Fifo!fifoVars)
           \/ StreamFails /\ (Fifo!PushPart \/ Fifo!PopPart)
<1> USE DEF RInv, Fifo!Next, Fifo!fifoVars
<1>1. CASE Writer /\ ~PutPublish
  BY <1>1, WriterIsQuiet
<1>2. CASE PutPublish
  BY <1>2, PublishIsPush DEF StreamFails
<1>3. CASE Reader /\ ~GetPublish
  BY <1>3, ReaderKeepsContents DEF Reader
<1>4. CASE GetPublish
  BY <1>4, PublishIsPop DEF StreamFails
<1>5. CASE Reset \/ DefragWrapped \/ DefragMove
  BY <1>5, RenumberKeepsQueue
<1>6. CASE UNCHANGED vars
  BY <1>6 DEF vars, Contents, Handed, HeadPos, acts_ringbuf_length, U32,
              AdvanceOffset, Cell, Norm
<1> QED BY <1>1, <1>2, <1>3, <1>4, <1>5, <1>6 DEF Next

LEMMA InitRInv == Init => RInv /\ Fifo!Init
<1> SUFFICES ASSUME Init PROVE RInv /\ Fifo!Init
  OBVIOUS
<1>1. IInv /\ ContentsIsSeq
  BY InitIInv, ContentsTyped
<1>2. acts_ringbuf_length = 0
  BY WrapAssumption DEF Init, acts_ringbuf_length, U32
<1>3. Contents = <<>>
  BY <1>1, <1>2 DEF ContentsIsSeq
<1> QED BY <1>1, <1>3 DEF Init, RInv, BlockIsPrefix, BlockIsStaged, Handed, Fifo!Init

LEMMA StepRInv == RInv /\ [Next]_vars => RInv'
BY StepIInv, StepBlockIsPrefix, StepBlockIsStaged DEF RInv

\* For every size, counter width and element type the ring buffer implements
\* the bounded FIFO queue, whatever the two sides interleave; the publication
\* after a failed second stream callback, and nothing else, may lose the end of
\* a written block or deliver the end of a read block again.
THEOREM RingbufIsFifo == Spec => RefinesFifo
<1>1. RInv /\ [Next]_vars
        => [\/ Fifo!Next
            \/ StreamFails /\ (Fifo!PushPart \/ Fifo!PopPart)]_(Fifo!fifoVars)
  BY StepFifo
<1> QED BY InitRInv, StepRInv, <1>1, PTL DEF Spec, RefinesFifo

-----------------------------------------------------------------------------
(* Streams that do not fail.                                               *)

\* What will be published is the whole of the block.
Whole ==
    /\ ppc \in {"copy", "publish"} /\ pbuf # <<>> => Len(pbuf) = pn
    /\ cpc \in {"copied", "publish"} /\ cbuf # <<>> => Len(cbuf) = cn

\* Only a stream error makes a publication shorter than its block.
LEMMA StepWhole ==
    ASSUME StreamErrors = {}, IInv, Whole, [Next]_vars
    PROVE  Whole'
<1>0. TypeOK /\ Size \in Nat \ {0}
  BY Basics
<1>1. CASE Writer
  <2>1. UNCHANGED <<cpc, cbuf, cn>>
    BY <1>1 DEF Writer, PutBegin, ClaimWrite, FillBegin, StreamWriteBegin,
       StreamWriteError, FillNoneBegin, PutClaim, PutCopy, PutFinish, PutPublish,
       PutAdvance, readerVars
  <2>2. ASSUME NEW s, PutBegin(s) PROVE Whole'
    BY <2>1, <2>2 DEF PutBegin, Whole
  <2>3. \/ \E s : PutBegin(s)
        \/ \E s \in Blocks : ClaimWrite(s)
        \/ \E n \in 0..Size : FillNoneBegin(n) \/ PutClaim(n)
        \/ PutCopy \/ PutFinish \/ PutPublish \/ PutAdvance
    BY <1>1 DEF Writer, FillBegin, StreamWriteBegin
  <2>4. CASE \/ \E s \in Blocks : ClaimWrite(s)
             \/ \E n \in 0..Size : FillNoneBegin(n) \/ PutClaim(n)
             \/ PutCopy \/ PutFinish \/ PutPublish \/ PutAdvance
    BY <2>1, <2>4 DEF Whole, ClaimWrite, FillNoneBegin, PutClaim, PutCopy,
       PutFinish, PutPublish, PutAdvance
  <2> QED BY <2>2, <2>3, <2>4
<1>2. CASE Reader
  <2>1. UNCHANGED <<ppc, pbuf, pn>>
    BY <1>2 DEF Reader, GetBegin, GetClaim, GetFinish, Drop, StreamReadBegin,
       StreamReadError, GetCopy, PeekDone, GetPublish, GetAdvance, writerVars
  <2>2. CASE GetCopy
    <3>1. Len(ReadBlock(head_offset, cn)) = cn
      BY <1>0, ReadBlockType DEF TypeOK
    <3> QED BY <2>1, <2>2, <3>1 DEF GetCopy, Whole
  <2>3. ASSUME NEW n \in 0..Size, GetFinish(n) PROVE Whole'
    <3>1. Len(ReadBlock(head_offset, n)) = n
      BY <1>0, ReadBlockType DEF TypeOK
    <3> QED BY <2>1, <2>3, <3>1 DEF GetFinish, Whole
  <2>4. CASE \/ \E n \in 0..Size : GetBegin(n) \/ GetClaim(n) \/ Drop(n)
             \/ PeekDone \/ GetPublish \/ GetAdvance
    BY <2>1, <2>4 DEF GetBegin, GetClaim, Drop, PeekDone, GetPublish, GetAdvance, Whole
  <2> QED BY <1>2, <2>2, <2>3, <2>4 DEF Reader, StreamReadBegin
<1>3. CASE Reset \/ DefragWrapped \/ DefragMove
  BY <1>3 DEF Reset, DefragWrapped, DefragMove, Quiet, Whole
<1>4. CASE UNCHANGED vars
  BY <1>4 DEF vars, Whole
<1> QED BY <1>1, <1>2, <1>3, <1>4 DEF Next

\* If no stream callback fails half-way (put, get, fill, the claims, copy and
\* short reads and writes of a stream cannot), the ring buffer implements the
\* queue without exception: every element put comes out once.
THEOREM RingbufIsExactFifo ==
    ASSUME StreamErrors = {}
    PROVE  Spec => Fifo!Spec
<1>1. Init => Whole
  BY DEF Init, Whole
<1>2. IInv /\ Whole /\ [Next]_vars => Whole'
  BY StepWhole
<1>3. RInv /\ Whole /\ [Next]_vars => [Fifo!Next]_(Fifo!fifoVars)
  <2> SUFFICES ASSUME RInv, Whole, [Next]_vars PROVE [Fifo!Next]_(Fifo!fifoVars)
    OBVIOUS
  <2>1. ~StreamFails
    <3>1. TypeOK
      BY DEF RInv, IInv
    <3>2. pbuf = <<>> => Len(pbuf) = 0
      OBVIOUS
    <3>3. cbuf = <<>> => Len(cbuf) = 0
      OBVIOUS
    <3> QED BY <3>1, <3>2, <3>3 DEF StreamFails, PutPublish, GetPublish, Whole, TypeOK
  <2> QED BY <2>1, StepFifo
<1>4. RInv => IInv
  BY DEF RInv
<1> QED BY InitRInv, StepRInv, <1>1, <1>2, <1>3, <1>4, PTL DEF Spec, Fifo!Spec
==============================================================================
