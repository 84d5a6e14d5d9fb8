----------------------------- MODULE ActsRingbuf -----------------------------
(***************************************************************************)
(* framework/base/utils/acts_ringbuf: the lock-free ring buffer that       *)
(* carries audio between the media threads, the DSP and the USB and        *)
(* Bluetooth streams.  One writer and one reader use it concurrently and   *)
(* without a lock; every memory access the two can observe of each other   *)
(* is a step of its own.                                                   *)
(*                                                                         *)
(* head and tail are free-running uint32 counters (modulus Wrap);          *)
(* head_offset and tail_offset index the data area.  A call reads the      *)
(* counters, moves data, then adds to its counter (the publication the     *)
(* other side sees) and then to its private offset.                        *)
(***************************************************************************)
EXTENDS Integers, Sequences

CONSTANTS Size,     \* buf->size, in elements
          Wrap,     \* modulus of head and tail, 2^32 in the code
          Elem,     \* the values an element can have
          StreamErrors  \* magnitudes of the negative codes a stream may return

ASSUME SizeAssumption == Size \in Nat \ {0}
ASSUME WrapAssumption == Wrap \in Nat /\ Wrap > Size
ASSUME StreamErrorsAssumption == StreamErrors \subseteq Nat \ {0}

VARIABLES head, tail, head_offset, tail_offset,
          data,                \* the data area
          ppc, pbuf, pn,       \* writer: control, block being written, its size
          cpc, cbuf, cn,       \* reader: control, block being read, its size
          got                  \* the last block the reader was given

writerVars == <<tail, tail_offset, data, ppc, pbuf, pn>>
readerVars == <<head, head_offset, cpc, cbuf, cn, got>>
vars == <<head, tail, head_offset, tail_offset, data,
          ppc, pbuf, pn, cpc, cbuf, cn, got>>

-----------------------------------------------------------------------------
(* Arithmetic of the header's inline functions.                            *)

\* uint32 reduction of a sum or difference of two in-range values.
U32(x) == IF x >= Wrap THEN x - Wrap ELSE IF x < 0 THEN x + Wrap ELSE x

acts_ringbuf_length == U32(tail - head)
acts_ringbuf_space  == Size - acts_ringbuf_length
acts_ringbuf_is_empty == head = tail

Least(a, b) == IF a <= b THEN a ELSE b
Most(a, b) == IF a >= b THEN a ELSE b

\* x -= size if x >= size: the single wrap of an offset.
Norm(x) == IF x >= Size THEN x - Size ELSE x

\* offset += n; if (offset >= size) offset -= size
AdvanceOffset(offset, n) == Norm(offset + n)

\* The cell i elements past an offset: what lies beyond the end of the area
\* is copied by a second memcpy from or to its start.
Cell(offset, i) == Norm(offset + i)

\* The cells of n elements from an offset on.
Span(offset, n) == {Cell(offset, i) : i \in 0..(n - 1)}

\* Mutant: the second copy, from the start of the area, is missing.
ReadBlock_NoSecondCopy(offset, n) ==
    [i \in 1..n |-> data[Least(offset + i - 1, Size - 1)]]

\* The block of n elements from an offset on.
ReadBlock(offset, n) == [i \in 1..n |-> data[Cell(offset, i - 1)]]

\* The data area after block s is copied to an offset.
WriteBlock(offset, s) ==
    [c \in 0..(Size - 1) |->
        IF \E i \in 1..Len(s) : Cell(offset, i - 1) = c
        THEN s[CHOOSE i \in 1..Len(s) : Cell(offset, i - 1) = c]
        ELSE data[c]]

Blocks == UNION {[1..n -> Elem] : n \in 0..Size}

-----------------------------------------------------------------------------
\* acts_ringbuf_init; the data area holds whatever the memory held.
Init ==
    /\ head = 0 /\ tail = 0 /\ head_offset = 0 /\ tail_offset = 0
    /\ data \in [0..(Size - 1) -> Elem]
    /\ ppc = "idle" /\ pbuf = <<>> /\ pn = 0
    /\ cpc = "idle" /\ cbuf = <<>> /\ cn = 0
    /\ got = <<>>

-----------------------------------------------------------------------------
(* The writer.                                                             *)

\* Mutant: a block that does not fit is accepted.
PutBegin_NoSpaceCheck(s) ==
    /\ ppc = "idle"
    /\ ppc' = "copy" /\ pbuf' = s /\ pn' = Len(s)
    /\ UNCHANGED <<tail, tail_offset, data, readerVars>>

\* acts_ringbuf_put, or the destination end of acts_ringbuf_copy, up to the
\* copy: the block must fit in the space seen now.
PutBegin(s) ==
    /\ ppc = "idle" /\ Len(s) <= acts_ringbuf_space
    /\ ppc' = "copy" /\ pbuf' = s /\ pn' = Len(s)
    /\ UNCHANGED <<tail, tail_offset, data, readerVars>>

\* acts_ringbuf_fill: a block of one repeated byte.
FillBegin(c, n) == PutBegin([i \in 1..n |-> c])

\* acts_ringbuf_fill_none: the data is already in place, only the tail moves.
FillNoneBegin(n) ==
    /\ ppc = "idle" /\ n <= acts_ringbuf_space
    /\ ppc' = "publish" /\ pbuf' = <<>> /\ pn' = n
    /\ UNCHANGED <<tail, tail_offset, data, readerVars>>

\* acts_ringbuf_write: `size' elements are asked of the stream, which
\* delivers the block s, perhaps a shorter one.
StreamWriteBegin(size, s) ==
    /\ size <= acts_ringbuf_space /\ Len(s) <= size
    /\ PutBegin(s)

\* acts_ringbuf_write when the second of its two stream_read calls fails:
\* the code is added to the count although it is negative (tmp is a
\* uint32_t), so fewer elements are published than were taken.
StreamWriteError(size, s, e) ==
    /\ ppc = "idle" /\ size <= acts_ringbuf_space
    /\ Len(s) = Size - tail_offset /\ Len(s) < size
    /\ ppc' = "copy" /\ pbuf' = s /\ pn' = Most(Len(s) - e, 0)
    /\ UNCHANGED <<tail, tail_offset, data, readerVars>>

\* The memcpy, memset or stream_read into the data area.
PutCopy ==
    /\ ppc = "copy"
    /\ data' = WriteBlock(tail_offset, pbuf)
    /\ ppc' = "publish"
    /\ UNCHANGED <<tail, tail_offset, pbuf, pn, readerVars>>

\* acts_ringbuf_put_claim and acts_ringbuf_tail_ptr: the contiguous room at
\* the tail, at most what was asked for.
PutClaimLimit == Least(Size - tail_offset, acts_ringbuf_space)

PutClaim(size) ==
    /\ ppc = "idle"
    /\ ppc' = "claimed" /\ pn' = Least(size, PutClaimLimit) /\ pbuf' = <<>>
    /\ UNCHANGED <<tail, tail_offset, data, readerVars>>

\* The user of the claim writes into it in place.
ClaimWrite(s) ==
    /\ ppc = "claimed" /\ pbuf = <<>> /\ Len(s) <= pn
    /\ data' = WriteBlock(tail_offset, s)
    /\ pbuf' = s
    /\ UNCHANGED <<tail, tail_offset, ppc, pn, readerVars>>

\* acts_ringbuf_put_finish for what was written; the limit is read again.
PutFinish ==
    /\ ppc = "claimed" /\ Len(pbuf) <= PutClaimLimit
    /\ ppc' = "publish" /\ pn' = Len(pbuf)
    /\ UNCHANGED <<tail, tail_offset, data, pbuf, readerVars>>

\* buf->tail += size
PutPublish ==
    /\ ppc = "publish"
    /\ tail' = U32(tail + pn)
    /\ ppc' = "advance"
    /\ UNCHANGED <<tail_offset, data, pbuf, pn, readerVars>>

\* buf->tail_offset += size, wrapped
PutAdvance ==
    /\ ppc = "advance"
    /\ tail_offset' = AdvanceOffset(tail_offset, pn)
    /\ ppc' = "idle" /\ pbuf' = <<>> /\ pn' = 0
    /\ UNCHANGED <<tail, data, readerVars>>

-----------------------------------------------------------------------------
(* The reader.                                                             *)

\* acts_ringbuf_get (and peek, which stops after the copy; and the source end
\* of acts_ringbuf_copy): n must be there.
GetBegin(n) ==
    /\ cpc = "idle" /\ n <= acts_ringbuf_length
    /\ cpc' = "copy" /\ cn' = n /\ cbuf' = <<>>
    /\ UNCHANGED <<head, head_offset, got, writerVars>>

\* acts_ringbuf_read: of the `size' elements that must be there the stream
\* accepts n.
StreamReadBegin(size, n) ==
    /\ size <= acts_ringbuf_length /\ n <= size
    /\ GetBegin(n)

\* acts_ringbuf_read when the second of its two stream_write calls fails:
\* the first has delivered the elements up to the end of the area, and the
\* negative code is added to their number.
StreamReadError(size, e) ==
    LET len == Size - head_offset IN
    /\ cpc = "idle" /\ size <= acts_ringbuf_length /\ len < size
    /\ cpc' = "publish" /\ cn' = Most(len - e, 0)
    /\ cbuf' = ReadBlock(head_offset, len)
    /\ UNCHANGED <<head, head_offset, got, writerVars>>

\* The memcpy or stream_write out of the data area.
GetCopy ==
    /\ cpc = "copy"
    /\ cbuf' = ReadBlock(head_offset, cn)
    /\ cpc' = "copied"
    /\ UNCHANGED <<head, head_offset, cn, got, writerVars>>

\* acts_ringbuf_peek returns: nothing moves.
PeekDone ==
    /\ cpc = "copied"
    /\ cpc' = "idle" /\ cbuf' = <<>> /\ cn' = 0
    /\ UNCHANGED <<head, head_offset, got, writerVars>>

\* Mutant: a claim is limited by the end of the area only.
GetClaimLimit_NoLength == Size - head_offset

\* acts_ringbuf_get_claim and acts_ringbuf_head_ptr.
GetClaimLimit == Least(Size - head_offset, acts_ringbuf_length)

GetClaim(size) ==
    /\ cpc = "idle"
    /\ cpc' = "claimed" /\ cn' = Least(size, GetClaimLimit) /\ cbuf' = <<>>
    /\ UNCHANGED <<head, head_offset, got, writerVars>>

\* acts_ringbuf_get_finish for the n claimed elements the user has read.
GetFinish(n) ==
    /\ cpc = "claimed" /\ n <= cn /\ n <= GetClaimLimit
    /\ cpc' = "publish" /\ cn' = n /\ cbuf' = ReadBlock(head_offset, n)
    /\ UNCHANGED <<head, head_offset, got, writerVars>>

\* acts_ringbuf_drop, and acts_ringbuf_drop_all with n = length.
Drop(n) ==
    /\ cpc = "idle" /\ n <= acts_ringbuf_length
    /\ cpc' = "publish" /\ cn' = n /\ cbuf' = <<>>
    /\ UNCHANGED <<head, head_offset, got, writerVars>>

\* buf->head += size.  `got' is all the reader was handed, which is more than
\* the head moves by after a stream error (see StreamReadError).
GetPublish ==
    /\ cpc \in {"copied", "publish"}
    /\ head' = U32(head + cn)
    /\ got' = cbuf
    /\ cpc' = "advance"
    /\ UNCHANGED <<head_offset, cbuf, cn, writerVars>>

\* buf->head_offset += size, wrapped
GetAdvance ==
    /\ cpc = "advance"
    /\ head_offset' = AdvanceOffset(head_offset, cn)
    /\ cpc' = "idle" /\ cbuf' = <<>> /\ cn' = 0
    /\ UNCHANGED <<head, got, writerVars>>

-----------------------------------------------------------------------------
(* Calls that write both ends and so need both users stopped.              *)

Quiet == ppc = "idle" /\ cpc = "idle"

\* acts_ringbuf_reset
Reset ==
    /\ Quiet
    /\ head' = 0 /\ tail' = 0 /\ head_offset' = 0 /\ tail_offset' = 0
    /\ got' = <<>>
    /\ UNCHANGED <<data, ppc, pbuf, pn, cpc, cbuf, cn>>

\* Mutant: the tail is renumbered without the wrap.
DefragWrapped_NoWrap ==
    /\ Quiet /\ head_offset # 0 /\ ~acts_ringbuf_is_empty
    /\ head_offset >= tail_offset
    /\ head' = head_offset /\ tail' = tail_offset
    /\ UNCHANGED <<head_offset, tail_offset, data,
                   ppc, pbuf, pn, cpc, cbuf, cn, got>>

\* acts_ringbuf_defrag, data that wraps: only the counters are renumbered.
DefragWrapped ==
    /\ Quiet /\ head_offset # 0 /\ ~acts_ringbuf_is_empty
    /\ head_offset >= tail_offset
    /\ head' = head_offset /\ tail' = U32(tail_offset + Size)
    /\ UNCHANGED <<head_offset, tail_offset, data,
                   ppc, pbuf, pn, cpc, cbuf, cn, got>>

\* acts_ringbuf_defrag otherwise: the data moves to the start of the area
\* (it is there already when head_offset is 0) and the tail is renumbered.
\* The source lies above the destination, so the overlapping memcpy of the
\* build, which copies upwards, moves it intact.
DefragMove ==
    /\ Quiet
    /\ head_offset = 0 \/ acts_ringbuf_is_empty \/ head_offset < tail_offset
    /\ data' = IF head_offset = 0 \/ acts_ringbuf_is_empty THEN data
               ELSE [c \in 0..(Size - 1) |->
                       IF c < tail_offset - head_offset
                       THEN data[head_offset + c] ELSE data[c]]
    /\ tail' = acts_ringbuf_length /\ tail_offset' = acts_ringbuf_length
    /\ head' = 0 /\ head_offset' = 0
    /\ UNCHANGED <<ppc, pbuf, pn, cpc, cbuf, cn, got>>

-----------------------------------------------------------------------------
Writer ==
    \/ \E s \in Blocks : PutBegin(s) \/ ClaimWrite(s)
    \/ \E c \in Elem, n \in 0..Size : FillBegin(c, n)
    \/ \E size \in 0..Size, s \in Blocks :
          \/ StreamWriteBegin(size, s)
          \/ \E e \in StreamErrors : StreamWriteError(size, s, e)
    \/ \E n \in 0..Size : FillNoneBegin(n) \/ PutClaim(n)
    \/ PutCopy \/ PutFinish \/ PutPublish \/ PutAdvance

Reader ==
    \/ \E n \in 0..Size : GetBegin(n) \/ GetClaim(n) \/ GetFinish(n) \/ Drop(n)
    \/ \E size, n \in 0..Size : StreamReadBegin(size, n)
    \/ \E size \in 0..Size, e \in StreamErrors : StreamReadError(size, e)
    \/ GetCopy \/ PeekDone \/ GetPublish \/ GetAdvance

Next == Writer \/ Reader \/ Reset \/ DefragWrapped \/ DefragMove

Spec == Init /\ [][Next]_vars

-----------------------------------------------------------------------------
(* Properties.                                                             *)

\* Every variable has its type.  tail_offset may be Size itself: defragmenting
\* a full buffer stores its length there.
TypeOK ==
    /\ head \in 0..(Wrap - 1) /\ tail \in 0..(Wrap - 1)
    /\ head_offset \in 0..(Size - 1) /\ tail_offset \in 0..Size
    /\ data \in [0..(Size - 1) -> Elem]
    /\ ppc \in {"idle", "copy", "claimed", "publish", "advance"}
    /\ pbuf \in Seq(Elem) /\ Len(pbuf) <= Size /\ pn \in 0..Size
    /\ cpc \in {"idle", "copy", "copied", "claimed", "publish", "advance"}
    /\ cbuf \in Seq(Elem) /\ Len(cbuf) <= Size /\ cn \in 0..Size
    /\ got \in Seq(Elem)

\* The place of the first unread and of the first free cell, also in the
\* window between the two additions of an update.
HeadPos == IF cpc = "advance" THEN AdvanceOffset(head_offset, cn) ELSE head_offset
TailPos == IF ppc = "advance" THEN AdvanceOffset(tail_offset, pn) ELSE tail_offset

\* The counters never claim more than the area holds and agree with the
\* offsets, through counter wrap-around at any Wrap and any interleaving.
CountersAgree ==
    /\ acts_ringbuf_length <= Size
    /\ Norm(TailPos) = Norm(HeadPos + acts_ringbuf_length)

\* What a side found room or data for, from counters the other side keeps
\* moving, is still there when it publishes: the check made at the start of
\* put, put_claim, fill, write, get, peek, get_claim, read never goes stale.
ClaimsStayValid ==
    /\ ppc \in {"copy", "claimed", "publish"} =>
          pn <= acts_ringbuf_space /\ Len(pbuf) <= acts_ringbuf_space
    /\ cpc \in {"copy", "copied", "claimed", "publish"} =>
          cn <= acts_ringbuf_length

Unread == Span(HeadPos, acts_ringbuf_length)

\* The cells the writer may store to from here to its publication.
Writing ==
    IF ppc \in {"copy", "claimed", "publish"}
    THEN Span(tail_offset, Most(pn, Len(pbuf)))
    ELSE {}

\* The lock-free discipline: no cell the reader may still read is one the
\* writer may be storing to (put, put_claim, fill, write against get, peek,
\* get_claim, read), so neither side needs a lock.
NoOverlap == Unread \cap Writing = {}

\* The unread elements in order.
Contents == [i \in 1..acts_ringbuf_length |-> data[Cell(HeadPos, i - 1)]]

\* The block the writer is handing over, from its publication to its return.
Handed == IF ppc = "advance" THEN pbuf ELSE <<>>

Fifo == INSTANCE BoundedFifo WITH q <- Contents, in <- Handed, out <- got

\* The publication of a transfer whose second stream callback failed.
StreamFails ==
    \/ PutPublish /\ Len(pbuf) > pn
    \/ GetPublish /\ Len(cbuf) > cn

\* The buffer implements the bounded FIFO queue: whatever the two sides
\* interleave, exactly the elements handed to put, fill, write or a claim come
\* out, once, unchanged and in order.  The one exception is the publication
\* after a failed second callback of acts_ringbuf_write or acts_ringbuf_read,
\* which adds the negative code to the count: the end of a written block is
\* lost, the end of a read block is delivered again, and the order still holds.
RefinesFifo ==
    /\ Fifo!Init
    /\ [][\/ Fifo!Next
          \/ StreamFails /\ (Fifo!PushPart \/ Fifo!PopPart)]_(Fifo!fifoVars)
==============================================================================
