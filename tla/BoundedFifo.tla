----------------------------- MODULE BoundedFifo -----------------------------
(***************************************************************************)
(* What a ring buffer promises its two users: a first-in first-out queue   *)
(* that holds at most Size elements.  `in' is the block the writer is      *)
(* handing over (empty between two calls), `out' the last block handed to  *)
(* the reader.  ActsRingbuf is shown to implement it.                      *)
(***************************************************************************)
EXTENDS Integers, Sequences

CONSTANTS Size,   \* capacity in elements
          Elem    \* what the queue can hold

VARIABLES q, in, out

fifoVars == <<q, in, out>>

Init == q = <<>> /\ in = <<>> /\ out = <<>>

\* Blocks that fit in the room that is left.
Fitting == UNION {[1..n -> Elem] : n \in 0..(Size - Len(q))}

\* The writer hands over a block, and exactly that block is appended; with
\* the empty block, its call returns.
Push ==
    \E s \in Fitting :
        in' = s /\ q' = q \o s /\ out' = out

\* The writer commits elements it put in place by other means (fill_none).
Place ==
    \E s \in Fitting :
        in' = <<>> /\ q' = q \o s /\ out' = out

\* The reader takes a prefix of the queue ...
Pop ==
    \E n \in 0..Len(q) :
        /\ out' = SubSeq(q, 1, n)
        /\ q' = SubSeq(q, n + 1, Len(q))
        /\ in' = in

\* ... or discards one.
Discard ==
    \E n \in 0..Len(q) :
        q' = SubSeq(q, n + 1, Len(q)) /\ out' = <<>> /\ in' = in

Next == Push \/ Place \/ Pop \/ Discard

Spec == Init /\ [][Next]_fifoVars

-----------------------------------------------------------------------------
(* Not steps of a queue: what becomes of a transfer whose stream fails     *)
(* half-way.                                                               *)

\* Only the front of the block handed over is appended, the rest is lost ...
PushPart ==
    \E s \in Fitting : \E n \in 0..Len(s) :
        in' = s /\ q' = q \o SubSeq(s, 1, n) /\ out' = out

\* ... or the reader is handed more than is removed, so that it will be
\* handed the difference again.
PopPart ==
    \E n \in 0..Len(q) : \E m \in 0..n :
        /\ out' = SubSeq(q, 1, n)
        /\ q' = SubSeq(q, m + 1, Len(q))
        /\ in' = in
==============================================================================
