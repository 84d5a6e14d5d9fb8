------------------------- MODULE NvramRegionProofs -------------------------
(***************************************************************************)
(* Proofs about NvramRegion for any number of segments, slots, keys and    *)
(* values.  First the operators (what a scan of the segments picks, where  *)
(* a segment's items end, what its valid items say); then the invariant    *)
(* that holds with any power failure but one between a new item and the    *)
(* obsolete mark of the old; then the order of the sequence numbers around *)
(* the ring, and on it the refinement of DurableStore.                     *)
(***************************************************************************)
EXTENDS NvramRegion, FiniteSetTheorems, WellFoundedInduction, TLAPS

USE NSegAssumption, SeqModAssumption

ItemType == [st : ItemStates, key : Keys \cup {None}, val : Vals \cup {None}]
SegType == [hdr : {"empty", "valid", "obsolete", "bad"}, seq : 0..(SeqMod - 1),
            slots : [Slots -> ItemType]]
FlashType == [Segs -> SegType]

-----------------------------------------------------------------------------
(* Numbers.                                                                *)

\* A set of numbers that is not empty has a least one.
LEMMA LeastExists ==
    ASSUME NEW S \in SUBSET Nat, S # {}
    PROVE  \E x \in S : \A y \in S : x <= y
<1> DEFINE R == OpToRel(<, Nat)
<1>1. PICK x \in S : \A y \in S : ~(<<y, x>> \in R)
  BY NatLessThanWellFounded, WFMin, Zenon DEF R
<1>2. \A y \in S : ~(y < x)
  BY <1>1 DEF OpToRel
<1> QED BY <1>2

\* What Least picks.
LEMMA LeastIs ==
    ASSUME NEW S \in SUBSET Nat, S # {}
    PROVE  Least(S) \in S /\ \A y \in S : Least(S) <= y
BY LeastExists DEF Least

\* The remainders that segment and sequence numbers need.
LEMMA ModSmall ==
    ASSUME NEW M \in Nat \ {0}
    PROVE  /\ \A x \in 0..(M - 1) : x % M = x
           /\ \A x \in M..(M + M - 1) : x % M = x - M
           /\ \A x \in (0 - M)..(0 - 1) : x % M = x + M
OBVIOUS

-----------------------------------------------------------------------------
(* region_scan.  The loop is a function defined by recursion; that there is *)
(* one, and what it computes, follows from the least i at which it fails.   *)

\* One step of the loop, after f.
Body(f, i) ==
    IF i = 0 THEN NoSeg
    ELSE LET best == f[i - 1]
             s == i - 1
         IN IF /\ flash[s].hdr = "valid"
               /\ best = NoSeg \/ SeqNewer(flash[s].seq, flash[best].seq)
            THEN s ELSE best

Loop(f, n) == f = [i \in 0..n |-> Body(f, i)]

\* The loop can be run for any number of segments.
LEMMA LoopExists == \A n \in Nat : \E f : Loop(f, n)
<1> DEFINE T == {n \in Nat : ~\E f : Loop(f, n)}
<1>1. SUFFICES ASSUME T # {} PROVE FALSE
  OBVIOUS
<1>2. PICK n \in T : \A m \in T : n <= m
  BY <1>1, LeastExists
<1>3. n \in Nat /\ ~\E f : Loop(f, n)
  BY <1>2
<1>4. CASE n = 0
  <2> DEFINE f == [i \in 0..0 |-> NoSeg]
  <2>1. \A i \in 0..0 : Body(f, i) = NoSeg
    BY DEF Body
  <2>2. Loop(f, 0)
    BY <2>1 DEF Loop
  <2> QED BY <1>3, <1>4, <2>2
<1>5. CASE n # 0
  <2>1. n - 1 \in Nat /\ n - 1 \notin T
    BY <1>2, <1>3, <1>5
  <2>2. PICK f : Loop(f, n - 1)
    BY <2>1
  <2> DEFINE g == [i \in 0..n |-> IF i = n THEN Body(f, n) ELSE f[i]]
  <2>3. \A i \in 0..(n - 1) : g[i] = f[i] /\ f[i] = Body(f, i)
    BY <1>3, <2>1, <2>2 DEF Loop
  <2>4. g[n] = Body(f, n)
    BY <1>3
  <2> HIDE DEF g
  <2>5. ASSUME NEW i \in 0..n PROVE Body(g, i) = Body(f, i)
    <3>1. CASE i = 0
      BY <3>1 DEF Body
    <3>2. CASE i # 0
      <4>1. i - 1 \in 0..(n - 1)
        BY <1>3, <3>2
      <4>2. g[i - 1] = f[i - 1]
        BY <2>3, <4>1
      <4> QED BY <4>2 DEF Body
    <3> QED BY <3>1, <3>2
  <2>6. \A i \in 0..n : g[i] = Body(g, i)
    BY <1>3, <2>3, <2>4, <2>5
  <2>7. Loop(g, n)
    BY <2>6 DEF Loop, g
  <2> QED BY <1>3, <2>7
<1> QED BY <1>4, <1>5

\* So Scan is the loop.
LEMMA ScanIsLoop == Loop(Scan, NSeg)
<1>1. PICK f : Loop(f, NSeg)
  BY LoopExists
<1> QED BY <1>1 DEF Scan, Loop, Body

\* The first segment, and the next.
LEMMA ScanStep ==
    /\ Scan[0] = NoSeg
    /\ \A s \in Segs : Scan[s + 1] =
          IF /\ flash[s].hdr = "valid"
             /\ Scan[s] = NoSeg \/ SeqNewer(flash[s].seq, flash[Scan[s]].seq)
          THEN s ELSE Scan[s]
<1>1. \A i \in 0..NSeg : Scan[i] = Body(Scan, i)
  BY ScanIsLoop DEF Loop
<1>2. Scan[0] = NoSeg
  BY <1>1 DEF Body
<1>3. ASSUME NEW s \in Segs
      PROVE  Scan[s + 1] =
          IF /\ flash[s].hdr = "valid"
             /\ Scan[s] = NoSeg \/ SeqNewer(flash[s].seq, flash[Scan[s]].seq)
          THEN s ELSE Scan[s]
  <2>1. s + 1 \in 0..NSeg /\ s + 1 # 0 /\ (s + 1) - 1 = s
    BY DEF Segs
  <2>2. Scan[s + 1] = Body(Scan, s + 1)
    BY <1>1, <2>1
  <2> QED BY <2>1, <2>2 DEF Body
<1> QED BY <1>2, <1>3

\* Up to i the loop has found a segment with a valid header, if there is one.
Found(i) ==
    \/ Scan[i] = NoSeg /\ \A s \in Segs : s < i => flash[s].hdr # "valid"
    \/ Scan[i] \in Segs /\ Scan[i] < i /\ flash[Scan[i]].hdr = "valid"

\* The loop of region_scan finds a valid header if there is one.
LEMMA ScanFound == \A i \in 0..NSeg : Found(i)
<1> DEFINE T == {i \in 0..NSeg : ~Found(i)}
<1>1. SUFFICES ASSUME T # {} PROVE FALSE
  OBVIOUS
<1>0. T \in SUBSET Nat
  OBVIOUS
<1>2. PICK n \in T : \A m \in T : n <= m
  BY <1>0, <1>1, LeastExists, Zenon
<1>3. CASE n = 0
  <2>1. Found(0)
    BY ScanStep DEF Found, Segs
  <2> QED BY <1>2, <1>3, <2>1
<1>4. CASE n # 0
  <2>1. n \in 0..NSeg /\ ~Found(n)
    BY <1>2
  <2> DEFINE s == n - 1
  <2>2. s \in Segs /\ s + 1 = n /\ s \in 0..NSeg
    BY <1>4, <2>1 DEF Segs
  <2>3. Found(s)
    BY <1>2, <2>2
  <2>4. \A r \in Segs : r < n => r = s \/ r < s
    BY <2>2 DEF Segs
  <2>5. Scan[n] = IF /\ flash[s].hdr = "valid"
                     /\ Scan[s] = NoSeg \/ SeqNewer(flash[s].seq, flash[Scan[s]].seq)
                  THEN s ELSE Scan[s]
    BY <2>2, ScanStep
  <2> HIDE DEF s
  <2>6. \A r \in Segs : r < s => r < n
    BY <2>2 DEF Segs
  <2>7. CASE Scan[n] = s /\ flash[s].hdr = "valid"
    BY <2>1, <2>2, <2>7 DEF Found, Segs
  <2>8. CASE Scan[n] = Scan[s] /\ (flash[s].hdr = "valid" => Scan[s] # NoSeg)
    <3>1. CASE Scan[s] = NoSeg /\ \A r \in Segs : r < s => flash[r].hdr # "valid"
      BY <2>1, <2>4, <2>8, <3>1 DEF Found
    <3>2. CASE Scan[s] \in Segs /\ Scan[s] < s /\ flash[Scan[s]].hdr = "valid"
      BY <2>1, <2>6, <2>8, <3>2 DEF Found
    <3> QED BY <2>3, <3>1, <3>2 DEF Found
  <2> QED BY <2>5, <2>7, <2>8
<1> QED BY <1>3, <1>4

\* The segment that boot picks has a valid header.
LEMMA CurrentIs ==
    /\ CurrentOnFlash \in Segs \cup {NoSeg}
    /\ CurrentOnFlash # NoSeg => flash[CurrentOnFlash].hdr = "valid"
    /\ CurrentOnFlash = NoSeg => \A s \in Segs : flash[s].hdr # "valid"
<1>1. Found(NSeg)
  BY ScanFound
<1>2. \A s \in Segs : s < NSeg /\ s # NoSeg
  BY DEF Segs, NoSeg
<1> QED BY <1>1, <1>2 DEF CurrentOnFlash, Found

-----------------------------------------------------------------------------
(* Flash contents: what one operation does to one segment.                 *)

\* A segment has room for at least one item.
LEMMA SlotsExist == NSlot \in Nat /\ NSlot >= 1
<1>1. Cardinality(Keys) \in Nat
  BY CapacityAssumption, FS_CardinalityType
<1> QED BY <1>1, CapacityAssumption

USE SlotsExist

\* g is the flash with one segment replaced, or with one item replaced.
Swap(g, s, r) ==
    /\ g \in FlashType
    /\ \A t \in Segs \ {s} : g[t] = flash[t]
    /\ g[s] = r

Put(g, s, j, x) ==
    /\ g \in FlashType
    /\ \A t \in Segs \ {s} : g[t] = flash[t]
    /\ g[s].hdr = flash[s].hdr /\ g[s].seq = flash[s].seq
    /\ \A i \in Slots : g[s].slots[i] = IF i = j THEN x ELSE flash[s].slots[i]

\* Replacing a segment's record replaces that segment only.
LEMMA SwapIs ==
    ASSUME flash \in FlashType, NEW s \in Segs, NEW r \in SegType
    PROVE  Swap([flash EXCEPT ![s] = r], s, r)
BY DEF Swap, FlashType

\* Replacing an item replaces that item only.
LEMMA PutIs ==
    ASSUME flash \in FlashType, NEW s \in Segs, NEW j \in Slots, NEW x \in ItemType
    PROVE  Put([flash EXCEPT ![s].slots[j] = x], s, j, x)
<1> DEFINE r == [flash[s] EXCEPT !.slots[j] = x]
<1>1. flash[s] \in SegType
  BY DEF FlashType
<1>2. r \in SegType
  BY <1>1 DEF SegType, Slots
<1>3. /\ r.hdr = flash[s].hdr /\ r.seq = flash[s].seq
      /\ \A i \in Slots : r.slots[i] = IF i = j THEN x ELSE flash[s].slots[i]
  BY <1>1 DEF SegType
<1>4. [flash EXCEPT ![s].slots[j] = x] = [flash EXCEPT ![s] = r]
  BY DEF FlashType
<1>5. Swap([flash EXCEPT ![s] = r], s, r)
  BY <1>2, SwapIs, Zenon
<1> HIDE DEF r
<1> QED BY <1>3, <1>4, <1>5 DEF Swap, Put

\* The contents the operations write.
LEMMA ContentTypes ==
    /\ EmptyItem \in ItemType /\ BadItem \in ItemType
    /\ ObsoletedItem \in ItemType /\ TornItem \in ItemType
    /\ EmptySeg \in SegType /\ GarbageSeg \in SegType
    /\ \A j \in Slots : EmptySeg.slots[j].st = "empty" /\ GarbageSeg.slots[j].st = "bad"
    /\ \A q \in 0..(SeqMod - 1) : [EmptySeg EXCEPT !.hdr = "valid", !.seq = q] \in SegType
<1>1. /\ EmptyItem \in ItemType /\ BadItem \in ItemType
      /\ ObsoletedItem \in ItemType /\ TornItem \in ItemType
  BY DEF EmptyItem, BadItem, ObsoletedItem, TornItem, Item, ItemType, ItemStates
<1>2. EmptySeg \in SegType /\ GarbageSeg \in SegType
  BY <1>1 DEF EmptySeg, GarbageSeg, SegType
<1>3. \A j \in Slots : EmptySeg.slots[j].st = "empty" /\ GarbageSeg.slots[j].st = "bad"
  BY DEF EmptySeg, GarbageSeg, EmptyItem, BadItem, Item
<1>4. \A q \in 0..(SeqMod - 1) : [EmptySeg EXCEPT !.hdr = "valid", !.seq = q] \in SegType
  BY <1>2 DEF SegType
<1> QED BY <1>1, <1>2, <1>3, <1>4

\* A segment's valid items have a key, and different ones.
Named(r) == \A j \in Slots : r.slots[j].st = "valid" => r.slots[j].key \in Keys

Unique(r) ==
    \A i, j \in Slots :
        /\ r.slots[i].st = "valid" /\ r.slots[j].st = "valid"
        /\ r.slots[i].key = r.slots[j].key
        => i = j

\* Both survive when nothing valid is added.
LEMMA FewerValid ==
    ASSUME NEW r, NEW q,
           \A j \in Slots : q.slots[j].st = "valid" => q.slots[j] = r.slots[j]
    PROVE  (Named(r) => Named(q)) /\ (Unique(r) => Unique(q))
BY DEF Named, Unique

\* The slots of a segment in use by a set of calls: `Clean' has intact items
\* below w and erased slots from there, `Full' has no obsolete ones.
Intact == {"valid", "obsolete"}
ValidIn(r) == {j \in Slots : r.slots[j].st = "valid"}
Clean(r, w) == \A j \in Slots : IF j < w THEN r.slots[j].st \in Intact
                                         ELSE r.slots[j].st = "empty"
Full(r, w) == \A j \in Slots : r.slots[j].st = IF j < w THEN "valid" ELSE "empty"

\* CapacityAssumption at work: items with different keys, and nothing else,
\* never fill a segment.
LEMMA FullFits ==
    ASSUME NEW r, NEW w \in 1..(NSlot + 1), Full(r, w), Named(r), Unique(r)
    PROVE  w <= NSlot
<1> DEFINE f == [j \in 1..(w - 1) |-> r.slots[j].key]
<1>1. \A j \in 1..(w - 1) : j \in Slots /\ r.slots[j].st = "valid"
  BY DEF Full, Slots
<1>2. f \in [1..(w - 1) -> Keys]
  BY <1>1 DEF Named
<1>3. \A i, j \in 1..(w - 1) : f[i] = f[j] => i = j
  BY <1>1 DEF Unique
<1> HIDE DEF f
<1>4. f \in Injection(1..(w - 1), Keys)
  BY <1>2, <1>3 DEF Injection, IsInjective
<1>5. IsFiniteSet(1..(w - 1)) /\ Cardinality(1..(w - 1)) = w - 1
  <2>1. 1 \in Int /\ w - 1 \in Int
    OBVIOUS
  <2>2. IsFiniteSet(1..(w - 1)) /\ Cardinality(1..(w - 1)) = IF 1 > w - 1 THEN 0 ELSE w - 1 - 1 + 1
    BY <2>1, FS_Interval, Zenon
  <2> QED BY <2>2
<1>6. Cardinality(1..(w - 1)) <= Cardinality(Keys)
  BY <1>4, CapacityAssumption, FS_Injection, Zenon
<1>7. Cardinality(Keys) \in Nat
  BY CapacityAssumption, FS_CardinalityType
<1> QED BY <1>5, <1>6, <1>7, CapacityAssumption

\* region_find_item and region_get, in a segment r with bitmap m.
FindIn(r, m, k) ==
    LET found == {j \in m : r.slots[j].st = "valid" /\ r.slots[j].key = k}
    IN IF found = {} THEN 0 ELSE Least(found)

GetIn(r, m, k) ==
    LET j == FindIn(r, m, k) IN IF j = 0 THEN None ELSE r.slots[j].val

\* With an exact bitmap and different keys, find answers the item of that key.
LEMMA FindIs ==
    ASSUME NEW r, NEW k, Unique(r)
    PROVE  LET m == ValidIn(r) IN
           /\ \A j \in m : r.slots[j].key = k =>
                 FindIn(r, m, k) = j /\ GetIn(r, m, k) = r.slots[j].val
           /\ (\A j \in m : r.slots[j].key # k) =>
                 FindIn(r, m, k) = 0 /\ GetIn(r, m, k) = None
<1> DEFINE m == ValidIn(r)
           S == {j \in m : r.slots[j].st = "valid" /\ r.slots[j].key = k}
<1>1. m \in SUBSET Slots /\ Slots \in SUBSET Nat /\ 0 \notin Slots
  BY DEF ValidIn, Slots
<1>2. ASSUME NEW j \in m, r.slots[j].key = k
      PROVE  FindIn(r, m, k) = j
  <2>1. S \in SUBSET Nat /\ S # {} /\ j \in S
    BY <1>1, <1>2 DEF ValidIn
  <2>2. Least(S) \in S
    BY <2>1, LeastIs, Zenon
  <2>3. \A i \in S : i = j
    BY <1>1, <2>1 DEF Unique
  <2> QED BY <2>1, <2>2, <2>3 DEF FindIn
<1>3. ASSUME \A j \in m : r.slots[j].key # k
      PROVE  FindIn(r, m, k) = 0
  BY <1>3 DEF FindIn
<1> HIDE DEF m
<1>4. ASSUME NEW j \in m, r.slots[j].key = k
      PROVE  GetIn(r, m, k) = r.slots[j].val
  BY <1>1, <1>2, <1>4 DEF GetIn
<1>5. ASSUME \A j \in m : r.slots[j].key # k
      PROVE  GetIn(r, m, k) = None
  BY <1>3, <1>5 DEF GetIn
<1> QED BY <1>2, <1>3, <1>4, <1>5 DEF m

\* Where region_seg_scan stops.
LEMMA ScanEndIs ==
    ASSUME NEW s \in Segs
    PROVE  /\ ScanEnd(s) \in 1..(NSlot + 1)
           /\ \A j \in Slots : j < ScanEnd(s) => flash[s].slots[j].st \in Intact
           /\ ScanEnd(s) <= NSlot =>
                 ScanEnd(s) \in Slots /\ flash[s].slots[ScanEnd(s)].st \notin Intact
<1> DEFINE S == {j \in Slots : flash[s].slots[j].st \notin Intact} \cup {NSlot + 1}
<1>1. S \in SUBSET Nat /\ S # {} /\ S \subseteq 1..(NSlot + 1)
  BY DEF Slots
<1>2. Least(S) \in S /\ \A y \in S : Least(S) <= y
  BY <1>1, LeastIs, Zenon
<1>3. ScanEnd(s) = Least(S)
  BY DEF ScanEnd, Intact
<1>4. \A j \in Slots : j \in Nat /\ j \in 1..NSlot
  BY DEF Slots
<1>5. \A j \in Slots : j < Least(S) => flash[s].slots[j].st \in Intact
  <2> SUFFICES ASSUME NEW j \in Slots, j < Least(S), flash[s].slots[j].st \notin Intact
               PROVE  FALSE
    OBVIOUS
  <2>1. Least(S) <= j
    BY <1>2
  <2> QED BY <1>1, <1>2, <1>4, <2>1
<1>6. Least(S) <= NSlot => Least(S) \in Slots /\ flash[s].slots[Least(S)].st \notin Intact
  BY <1>1, <1>2
<1> QED BY <1>1, <1>2, <1>3, <1>5, <1>6

-----------------------------------------------------------------------------
(* The inductive invariant, for any choice of the purge and wipe windows.  *)

Pcs == {"off", "scan", "erase", "header", "copy", "retire", "clear", "idle",
        "item", "data", "obsolete", "done", "wipe"}
Purging == {"erase", "header", "copy", "retire"}
ReqType == [kind : {"none", "set", "clear"}, key : Keys \cup {None},
            val : Vals \cup {None}]

\* Which call is in progress, and where its purge is.
ControlInv ==
    /\ pc \in Pcs /\ ret \in {"clear", "item", "done"} /\ req \in ReqType
    /\ req.kind = "set" => req.key \in Keys
    /\ pc \in {"item", "data", "obsolete"} \/ ret = "item" => req.kind = "set"
    /\ pc \in {"item", "data"} \/ ret = "item" => req.val \in Vals
    /\ pc = "wipe" \/ ret = "done" => req.kind = "clear"
    /\ ret = "item" => pc \in Purging /\ src # NoSeg
    /\ ret = "done" => pc \in {"erase", "header", "done"} /\ src = NoSeg
    /\ src # NoSeg => pc \in Purging
    /\ pc \in {"erase", "header"} /\ src # NoSeg => src = seg /\ new = NextSeg(seg)
    /\ pc \in {"copy", "retire"} => src \in Segs /\ new = seg /\ src # seg
    /\ pc \in {"item", "data"} => wofs <= NSlot
    /\ pc = "copy" => 1 <= ci /\ ci <= upto /\ wofs <= ci
    /\ pc = "clear" => ci >= 1

\* In every segment, also those no longer current, valid items are good ones.
SoundInv ==
    /\ \A s \in Segs : Named(flash[s])
    /\ \A s \in Segs : Unique(flash[s]) \/ (pc = "obsolete" /\ s = seg)

\* The bitmap and the write offset match the current segment; during a purge
\* the target holds copies of what was read of the source, which is intact.
RamInv ==
    /\ pc \in {"copy", "retire", "clear", "idle", "item", "data", "obsolete", "done"}
          => map = ValidIn(flash[seg])
    /\ pc \in {"clear", "idle", "item", "obsolete", "done"} => Clean(flash[seg], wofs)
    /\ pc = "data" =>
          \A j \in Slots : /\ j < wofs => flash[seg].slots[j].st \in Intact
                           /\ j = wofs => flash[seg].slots[j].st = "nocrc"
                           /\ j > wofs => flash[seg].slots[j].st = "empty"
    /\ pc \in {"copy", "retire"} => Full(flash[seg], wofs)
    /\ pc = "copy" =>
          \A j \in 1..(wofs - 1) : \E i \in 1..(ci - 1) :
              flash[seg].slots[j] = flash[src].slots[i]
    /\ src # NoSeg => \A j \in 1..(upto - 1) : flash[src].slots[j].st \in Intact
    /\ pc = "header" => flash[new] = EmptySeg

\* The old item is the one of the key being set, and until it is obsoleted
\* the new one, just before the write offset, is its only double.
OldInv ==
    /\ pc = "data" =>
          /\ old = 0 => \A j \in map : flash[seg].slots[j].key # req.key
          /\ old # 0 => old \in map /\ flash[seg].slots[old].key = req.key
    /\ pc = "obsolete" =>
          /\ old \in map /\ flash[seg].slots[old].key = req.key
          /\ req.val = None => Unique(flash[seg])
          /\ req.val # None =>
                /\ wofs - 1 \in map /\ wofs - 1 # old
                /\ flash[seg].slots[wofs - 1] = Item("valid", req.key, req.val)
                /\ \A i, j \in map :
                      flash[seg].slots[i].key = flash[seg].slots[j].key
                      => i = j \/ {i, j} = {old, wofs - 1}

DoneInv == pc = "done" /\ req.kind = "set" => GetIn(flash[seg], map, req.key) = req.val

IInv == TypeOK /\ ControlInv /\ SoundInv /\ RamInv /\ OldInv /\ DoneInv

\* region_find_item and region_get are those of the current segment.
LEMMA FindHere ==
    /\ \A k : region_find_item(k) = FindIn(flash[seg], map, k)
    /\ \A k : region_get(k) = GetIn(flash[seg], map, k)
<1>1. \A k : region_find_item(k) = FindIn(flash[seg], map, k)
  BY DEF region_find_item, FindIn
<1> QED BY <1>1 DEF region_get, GetIn

\* The types, without the numbers.
LEMMA TypeFacts ==
    ASSUME TypeOK
    PROVE  /\ flash \in FlashType /\ seg \in Segs /\ new \in Segs
           /\ \A s \in Segs : flash[s] \in SegType
BY DEF TypeOK, FlashType, SegType, ItemType

\* The next segment around the ring is another one (there are two).
LEMMA NextSegIs ==
    ASSUME NEW s \in Segs PROVE NextSeg(s) \in Segs /\ NextSeg(s) # s
BY DEF NextSeg, Segs

\* region_scan starts over with a current segment, or a new region.
LEMMA BootInv == ASSUME IInv, Boot PROVE IInv'
<1>1. flash' = flash /\ pc = "off" /\ src' = NoSeg /\ ret' = "clear" /\ req' = req
  BY DEF Boot
<1>2. pc' \in {"erase", "scan"}
  BY DEF Boot
<1>3. TypeOK'
  <2>1. CASE CurrentOnFlash = NoSeg
    BY <2>1 DEF IInv, TypeOK, Boot, Segs
  <2>2. CASE CurrentOnFlash # NoSeg
    <3>1. CurrentOnFlash \in Segs
      BY <2>2, CurrentIs
    <3>2. flash[CurrentOnFlash].seq \in 0..(SeqMod - 1)
      BY <3>1, TypeFacts DEF IInv, SegType
    <3> HIDE DEF CurrentOnFlash
    <3> QED BY <2>2, <3>1, <3>2 DEF IInv, TypeOK, Boot
  <2> QED BY <2>1, <2>2
<1>4. ControlInv'
  BY <1>1, <1>2 DEF IInv, ControlInv, Pcs, Purging
<1>5. SoundInv'
  BY <1>1 DEF IInv, SoundInv
<1>6. RamInv' /\ OldInv' /\ DoneInv'
  BY <1>1, <1>2 DEF RamInv, OldInv, DoneInv
<1> QED BY <1>3, <1>4, <1>5, <1>6 DEF IInv

\* region_seg_scan rebuilds bitmap and offset; a damaged item is obsoleted at
\* the wrong place, which must not hurt.
LEMMA SegScanInv == ASSUME IInv, SegScan PROVE IInv'
<1> DEFINE end == ScanEnd(seg)
           dirty == \E j \in end..NSlot : flash[seg].slots[j].st # "empty"
           torn == end <= NSlot /\ flash[seg].slots[end].st = "nocrc"
<1>1. /\ pc = "scan" /\ map' = ValidBefore(seg, end) /\ wofs' = end
      /\ flash' = IF torn THEN ObsoleteItem(0, end) ELSE flash
      /\ UNCHANGED <<seg, seq, req, old, ret>>
  BY DEF SegScan
<1>2. \/ /\ end > NSlot \/ dirty
         /\ pc' = "erase" /\ new' = NextSeg(seg) /\ src' = seg /\ upto' = end
         /\ ci' = ci
      \/ /\ ~(end > NSlot \/ dirty)
         /\ pc' = "clear" /\ ci' = 1 /\ UNCHANGED <<new, src, upto>>
  BY DEF SegScan
<1>3. /\ end \in 1..(NSlot + 1)
      /\ \A j \in Slots : j < end => flash[seg].slots[j].st \in Intact
      /\ end <= NSlot => end \in Slots /\ flash[seg].slots[end].st \notin Intact
  BY ScanEndIs, TypeFacts DEF IInv
<1> HIDE DEF end
<1>4. flash \in FlashType /\ seg \in Segs /\ 0 \in Segs
  BY TypeFacts DEF IInv, Segs
\* Whatever byte is written, no item becomes valid and only slot `end' changes.
<1>5. /\ flash' \in FlashType
      /\ \A s \in Segs, j \in Slots : j # end => flash'[s].slots[j] = flash[s].slots[j]
      /\ \A s \in Segs, j \in Slots :
            flash'[s].slots[j].st = "valid" => flash'[s].slots[j] = flash[s].slots[j]
  <2>1. CASE ~torn
    BY <1>1, <1>4, <2>1
  <2>2. CASE torn
    <3> DEFINE x == IF flash[0].slots[end].st \in {"valid", "nocrc", "obsolete"}
                    THEN ObsoletedItem ELSE BadItem
    <3>1. x \in ItemType /\ x.st # "valid"
      BY ContentTypes DEF ObsoletedItem, BadItem, Item
    <3>2. flash' = [flash EXCEPT ![0].slots[end] = x]
      BY <1>1, <2>2 DEF ObsoleteItem
    <3> HIDE DEF x
    <3>3. Put(flash', 0, end, x)
      BY <1>3, <1>4, <2>2, <3>1, <3>2, PutIs
    <3> QED BY <1>4, <3>1, <3>3 DEF Put
  <2> QED BY <2>1, <2>2
<1>6. SoundInv'
  <2>1. \A s \in Segs : Named(flash[s]) /\ Unique(flash[s])
    BY <1>1 DEF IInv, SoundInv
  <2>2. \A s \in Segs : Named(flash'[s]) /\ Unique(flash'[s])
    BY <1>5, <2>1, FewerValid
  <2> QED BY <2>2 DEF SoundInv
<1>7. NextSeg(seg) \in Segs /\ NextSeg(seg) # seg
  BY <1>4, NextSegIs
<1>8. TypeOK'
  <2>1. map' \subseteq Slots /\ wofs' \in 1..(NSlot + 1)
    BY <1>1, <1>3 DEF ValidBefore, Slots
  <2>2. seg' \in Segs /\ seq' \in 0..(SeqMod - 1) /\ old' \in 0..NSlot
    BY <1>1 DEF IInv, TypeOK
  <2>3. /\ new' \in Segs /\ src' \in Segs \cup {NoSeg}
        /\ upto' \in 1..(NSlot + 1) /\ ci' \in 0..(NSlot + NSeg)
    BY <1>2, <1>3, <1>4, <1>7 DEF IInv, TypeOK
  <2> QED BY <1>5, <2>1, <2>2, <2>3 DEF TypeOK, FlashType, SegType, ItemType
<1>9. seg # NoSeg
  BY <1>4 DEF Segs, NoSeg
<1>10. ControlInv'
  BY <1>1, <1>2, <1>9 DEF IInv, ControlInv, Pcs, Purging
<1>11. RamInv'
  <2>1. CASE pc' = "erase"
    <3>1. src' = seg /\ upto' = end
      BY <1>2, <2>1
    <3>2. \A j \in 1..(end - 1) : j \in Slots /\ j < end
      BY <1>3 DEF Slots
    <3>3. \A j \in 1..(end - 1) : flash'[seg].slots[j].st \in Intact
      BY <1>3, <1>4, <1>5, <3>2
    <3> QED BY <2>1, <3>1, <3>3 DEF RamInv
  <2>2. CASE pc' = "clear"
    <3>1. ~(end > NSlot \/ dirty) /\ UNCHANGED <<src, upto>>
      BY <1>2, <2>2
    <3>2. end <= NSlot /\ \A j \in Slots : j >= end => flash[seg].slots[j].st = "empty"
      BY <1>3, <3>1 DEF Slots
    <3>3. flash' = flash
      BY <1>1, <1>3, <3>2
    <3>4. src' = NoSeg
      BY <1>1, <3>1 DEF IInv, ControlInv, Purging
    <3>5. map' = ValidIn(flash[seg])
      BY <1>1, <1>3, <3>2 DEF ValidBefore, ValidIn, Slots
    <3>6. Clean(flash[seg], end)
      BY <1>3, <3>2 DEF Clean, Slots
    <3> QED BY <1>1, <2>2, <3>3, <3>4, <3>5, <3>6 DEF RamInv
  <2> QED BY <1>2, <2>1, <2>2
<1>12. OldInv' /\ DoneInv'
  BY <1>2 DEF OldInv, DoneInv
<1> QED BY <1>6, <1>8, <1>10, <1>11, <1>12 DEF IInv

\* The new segment is erased, and is not the one the items come from.
LEMMA NewSegEraseInv == ASSUME IInv, NewSegErase PROVE IInv'
<1>1. /\ pc = "erase" /\ pc' = "header" /\ flash' = [flash EXCEPT ![new] = EmptySeg]
      /\ UNCHANGED <<seg, seq, wofs, map, req, old, new, src, upto, ci, ret>>
  BY DEF NewSegErase, Erased, ram, purgeVars
<1>2. new \in Segs /\ seg \in Segs
  BY TypeFacts DEF IInv
<1>3. Swap(flash', new, EmptySeg)
  BY <1>1, <1>2, TypeFacts, SwapIs, ContentTypes DEF IInv
<1>4. TypeOK'
  <2>1. flash' \in FlashType
    BY <1>3 DEF Swap
  <2> QED BY <1>1, <2>1 DEF IInv, TypeOK, FlashType, SegType, ItemType
<1>5. ControlInv'
  BY <1>1 DEF IInv, ControlInv, Pcs, Purging
<1>6. SoundInv'
  <2>1. Named(EmptySeg) /\ Unique(EmptySeg)
    BY ContentTypes DEF Named, Unique
  <2>2. \A s \in Segs : Named(flash[s]) /\ Unique(flash[s])
    BY <1>1 DEF IInv, SoundInv
  <2> QED BY <1>2, <1>3, <2>1, <2>2 DEF SoundInv, Swap
<1>7. RamInv'
  <2>1. flash'[new] = EmptySeg
    BY <1>3 DEF Swap
  <2>2. CASE src = NoSeg
    BY <1>1, <2>1, <2>2 DEF RamInv
  <2>3. CASE src # NoSeg
    <3>1. src = seg /\ src # new
      BY <1>1, <1>2, <2>3, NextSegIs DEF IInv, ControlInv
    <3>2. flash'[src] = flash[src]
      BY <1>2, <1>3, <3>1 DEF Swap
    <3>3. \A j \in 1..(upto - 1) : flash[src].slots[j].st \in Intact
      BY <2>3 DEF IInv, RamInv
    <3> QED BY <1>1, <2>1, <3>2, <3>3 DEF RamInv
  <2> QED BY <2>2, <2>3
<1>8. OldInv' /\ DoneInv'
  BY <1>1 DEF OldInv, DoneInv
<1> QED BY <1>4, <1>5, <1>6, <1>7, <1>8 DEF IInv

\* The new segment becomes current with an empty bitmap.
LEMMA NewSegHeaderInv == ASSUME IInv, NewSegHeader PROVE IInv'
<1> DEFINE n == (seq + 1) % SeqMod
           r == [EmptySeg EXCEPT !.hdr = "valid", !.seq = n]
<1>1. /\ pc = "header"
      /\ flash' = [flash EXCEPT ![new].hdr = IF @ = "empty" THEN "valid" ELSE "bad",
                                ![new].seq = n]
      /\ seg' = new /\ seq' = n /\ wofs' = 1 /\ map' = {}
      /\ pc' = (IF src = NoSeg THEN ret ELSE "copy")
      /\ ci' = 1 /\ UNCHANGED <<req, old, new, src, upto, ret>>
  BY DEF NewSegHeader
<1>2. new \in Segs /\ seg \in Segs /\ flash \in FlashType
  BY TypeFacts DEF IInv
<1>3. flash[new] = EmptySeg
  BY <1>1 DEF IInv, RamInv
<1>4. n \in 0..(SeqMod - 1)
  BY DEF IInv, TypeOK
<1> HIDE DEF n
<1>5. r \in SegType
  BY <1>4, ContentTypes
<1>6. flash' = [flash EXCEPT ![new] = r]
  <2> DEFINE q == [EmptySeg EXCEPT !.hdr = "valid"]
             f == [flash EXCEPT ![new] = q]
  <2>1. EmptySeg.hdr = "empty"
    BY DEF EmptySeg
  <2>2. flash' = [f EXCEPT ![new].seq = n]
    BY <1>1, <1>2, <1>3, <2>1 DEF FlashType
  <2>3. f[new] = q
    BY <1>2 DEF FlashType
  <2>4. r = [q EXCEPT !.seq = n]
    BY DEF EmptySeg
  <2> QED BY <1>2, <2>2, <2>3, <2>4 DEF FlashType
<1>7. Swap(flash', new, r)
  BY <1>2, <1>5, <1>6, SwapIs
<1>8. \A j \in Slots : r.slots[j].st = "empty"
  BY ContentTypes DEF EmptySeg
<1> HIDE DEF r
<1>9. TypeOK'
  <2>1. flash' \in FlashType
    BY <1>7 DEF Swap
  <2> QED BY <1>1, <1>4, <2>1 DEF IInv, TypeOK, FlashType, SegType, ItemType
<1>10. src # NoSeg => src = seg /\ src # new
  BY <1>1, <1>2, NextSegIs DEF IInv, ControlInv
<1>11. ControlInv'
  <2>1. CASE src = NoSeg
    <3>1. ret # "item"
      BY <2>1 DEF IInv, ControlInv
    <3> QED BY <1>1, <2>1, <3>1 DEF IInv, ControlInv, Pcs, Purging
  <2>2. CASE src # NoSeg
    <3>1. src \in Segs /\ ret # "done" /\ upto >= 1
      BY <2>2 DEF IInv, TypeOK, ControlInv
    <3> QED BY <1>1, <1>10, <2>2, <3>1 DEF IInv, ControlInv, Pcs, Purging
  <2> QED BY <2>1, <2>2
<1>12. SoundInv'
  <2>1. Named(r) /\ Unique(r)
    BY <1>8 DEF Named, Unique
  <2>2. \A s \in Segs : Named(flash[s]) /\ Unique(flash[s])
    BY <1>1 DEF IInv, SoundInv
  <2> QED BY <1>2, <1>7, <2>1, <2>2 DEF SoundInv, Swap
<1>13. RamInv'
  <2>1. flash'[seg'] = r
    BY <1>1, <1>7 DEF Swap
  <2>2. map' = ValidIn(r) /\ Clean(r, 1) /\ Full(r, 1)
    BY <1>1, <1>8 DEF ValidIn, Clean, Full, Slots
  <2>3. src' # NoSeg => \A j \in 1..(upto' - 1) : flash'[src'].slots[j].st \in Intact
    <3> HAVE src' # NoSeg
    <3>1. src \in Segs /\ src # new
      BY <1>1, <1>2, <1>10
    <3>2. \A j \in 1..(upto - 1) : flash[src].slots[j].st \in Intact
      BY <1>1 DEF IInv, RamInv
    <3> QED BY <1>1, <1>7, <3>1, <3>2 DEF Swap
  <2>4. pc' \in {"clear", "done", "copy"}
    BY <1>1 DEF IInv, ControlInv
  <2>5. 1..(wofs' - 1) = {}
    BY <1>1
  <2>6. map' = ValidIn(flash'[seg']) /\ Clean(flash'[seg'], wofs') /\ Full(flash'[seg'], wofs')
    BY <1>1, <2>1, <2>2
  <2> QED BY <2>3, <2>4, <2>5, <2>6 DEF RamInv
<1>14. OldInv' /\ DoneInv'
  <2>1. pc' \in {"clear", "copy"} \/ (pc' = "done" /\ req'.kind = "clear")
    BY <1>1 DEF IInv, ControlInv
  <2> QED BY <2>1 DEF OldInv, DoneInv
<1> QED BY <1>9, <1>11, <1>12, <1>13, <1>14 DEF IInv

\* An item that is copied is valid, and the slot it goes to is erased.
LEMMA CopyFacts ==
    ASSUME IInv, pc = "copy", CopyContinues
    PROVE  /\ src \in Segs /\ seg \in Segs /\ src # seg /\ new = seg
           /\ ci \in Slots /\ ci < upto /\ wofs \in Slots /\ wofs <= ci
           /\ flash[src].slots[ci] \in ItemType
           /\ flash[src].slots[ci].st \in Intact
           /\ flash[seg].slots[wofs].st = "empty"
<1>1. src \in Segs /\ seg \in Segs /\ src # seg /\ new = seg /\ src # NoSeg
  BY DEF IInv, TypeOK, ControlInv, Segs, NoSeg
<1>2. ci \in Slots /\ ci < upto /\ wofs \in Slots /\ wofs <= ci
  BY DEF IInv, TypeOK, ControlInv, CopyContinues, Slots
<1>3. flash[src].slots[ci] \in ItemType
  BY <1>1, <1>2, TypeFacts DEF IInv, SegType
<1>4. flash[src].slots[ci].st \in Intact
  <2>1. ci \in 1..(upto - 1)
    BY <1>2 DEF IInv, TypeOK, Slots
  <2> QED BY <1>1, <2>1 DEF IInv, RamInv
<1>5. flash[seg].slots[wofs].st = "empty"
  <2>1. Full(flash[seg], wofs)
    BY DEF IInv, RamInv
  <2> QED BY <1>2, <2>1 DEF Full, Slots
<1> QED BY <1>1, <1>2, <1>3, <1>4, <1>5

\* The copy is written behind the last one and recorded in the bitmap.
LEMMA CopyItemInv == ASSUME IInv, CopyItem PROVE IInv'
<1> DEFINE item == flash[src].slots[ci]
<1>1. /\ pc = "copy" /\ CopyContinues /\ ci' = ci + 1
      /\ UNCHANGED <<seg, seq, pc, req, old, new, src, upto, ret>>
  BY DEF CopyItem
<1>2. \/ /\ item.st # "obsolete" /\ flash' = Program(new, wofs, item)
         /\ map' = map \cup {wofs} /\ wofs' = wofs + 1
      \/ item.st = "obsolete" /\ UNCHANGED <<flash, map, wofs>>
  BY DEF CopyItem
<1>3. /\ src \in Segs /\ seg \in Segs /\ src # seg /\ new = seg
      /\ ci \in Slots /\ ci < upto /\ wofs \in Slots /\ wofs <= ci
      /\ item \in ItemType /\ item.st \in Intact
      /\ flash[seg].slots[wofs].st = "empty"
  BY <1>1, CopyFacts
<1>4. flash \in FlashType /\ src # NoSeg
  BY <1>3, TypeFacts DEF IInv, Segs, NoSeg
<1>5. ControlInv'
  <2>1. wofs' <= ci' /\ 1 <= ci' /\ ci' <= upto'
    BY <1>1, <1>2, <1>3 DEF IInv, TypeOK, Slots
  <2> QED BY <1>1, <2>1 DEF IInv, ControlInv
<1>6. OldInv' /\ DoneInv'
  BY <1>1 DEF OldInv, DoneInv
<1>7. ci' \in 0..(NSlot + NSeg)
  BY <1>1, <1>3 DEF Slots
<1>8. CASE item.st = "obsolete"
  <2>1. UNCHANGED <<flash, map, wofs>>
    BY <1>2, <1>8
  <2>2. TypeOK' /\ SoundInv'
    BY <1>1, <1>7, <2>1 DEF IInv, TypeOK, SoundInv
  <2>3. RamInv'
    <3>1. \A j \in 1..(wofs - 1) : \E i \in 1..(ci - 1) :
              flash[seg].slots[j] = flash[src].slots[i]
      BY <1>1 DEF IInv, RamInv
    <3>2. \A i \in 1..(ci - 1) : i \in 1..(ci' - 1)
      BY <1>1, <1>3 DEF Slots
    <3> QED BY <1>1, <2>1, <3>1, <3>2 DEF IInv, RamInv
  <2> QED BY <1>5, <1>6, <2>2, <2>3 DEF IInv
<1>9. CASE item.st = "valid"
  <2>1. flash' = [flash EXCEPT ![seg].slots[wofs] = item]
    BY <1>2, <1>3, <1>9 DEF Program
  <2>2. map' = map \cup {wofs} /\ wofs' = wofs + 1
    BY <1>2, <1>9
  <2>3. Put(flash', seg, wofs, item)
    BY <1>3, <1>4, <2>1, PutIs
  <2>4. TypeOK'
    <3>1. map \subseteq Slots
      BY DEF IInv, TypeOK
    <3>2. map' \subseteq Slots /\ wofs' \in 1..(NSlot + 1)
      BY <1>3, <2>2, <3>1 DEF Slots
    <3>3. flash' \in FlashType
      BY <2>3 DEF Put
    <3> QED BY <1>1, <1>7, <3>2, <3>3 DEF IInv, TypeOK, FlashType, SegType, ItemType
  <2>5. map = ValidIn(flash[seg]) /\ Full(flash[seg], wofs)
    BY <1>1 DEF IInv, RamInv
  <2>6. \A j \in 1..(wofs - 1) : \E i \in 1..(ci - 1) :
            flash[seg].slots[j] = flash[src].slots[i]
    BY <1>1 DEF IInv, RamInv
  <2>7. \A s \in Segs : Named(flash[s]) /\ Unique(flash[s])
    BY <1>1 DEF IInv, SoundInv
  <2>8. item.key \in Keys
    BY <1>3, <1>9, <2>7 DEF Named
  <2> HIDE DEF item
  <2>9. \A s \in Segs \ {seg} : flash'[s] = flash[s]
    BY <2>3 DEF Put
  <2>10. \A i \in Slots : flash'[seg].slots[i] = IF i = wofs THEN item ELSE flash[seg].slots[i]
    BY <2>3 DEF Put
  <2>11. SoundInv'
    <3>1. Named(flash'[seg])
      BY <1>3, <2>7, <2>8, <2>10 DEF Named
    <3>2. Unique(flash'[seg])
      <4>1. \A j \in Slots : flash[seg].slots[j].st = "valid" => flash[seg].slots[j].key # item.key
        <5> SUFFICES ASSUME NEW j \in Slots, flash[seg].slots[j].st = "valid",
                            flash[seg].slots[j].key = item.key
                     PROVE  FALSE
          OBVIOUS
        <5>1. j \in 1..(wofs - 1)
          BY <1>3, <2>5 DEF Full, Slots
        <5>2. PICK i \in 1..(ci - 1) : flash[seg].slots[j] = flash[src].slots[i]
          BY <2>6, <5>1
        <5>3. i \in Slots /\ i # ci
          BY <1>3, <5>2 DEF Slots
        <5> QED BY <1>3, <1>9, <2>7, <5>2, <5>3 DEF Unique, item
      <4>2. Unique(flash[seg])
        BY <1>3, <2>7
      <4> QED BY <2>10, <4>1, <4>2 DEF Unique
    <3> QED BY <1>1, <2>7, <2>9, <3>1, <3>2 DEF SoundInv
  <2>12. RamInv'
    <3>1. map' = ValidIn(flash'[seg])
      BY <1>3, <1>9, <2>2, <2>5, <2>10 DEF ValidIn
    <3>2. Full(flash'[seg], wofs')
      BY <1>3, <1>9, <2>2, <2>5, <2>10 DEF Full, Slots
    <3>3. \A j \in 1..(wofs' - 1) : \E i \in 1..(ci' - 1) :
              flash'[seg].slots[j] = flash'[src].slots[i]
      <4> SUFFICES ASSUME NEW j \in 1..(wofs' - 1)
                   PROVE  \E i \in 1..(ci' - 1) : flash'[seg].slots[j] = flash[src].slots[i]
        BY <1>3, <2>9
      <4>1. CASE j = wofs
        <5>1. ci \in 1..(ci' - 1)
          BY <1>1, <1>3 DEF Slots
        <5>2. flash'[seg].slots[j] = flash[src].slots[ci]
          BY <1>3, <2>10, <4>1 DEF item
        <5> QED BY <5>1, <5>2
      <4>2. CASE j # wofs
        <5>1. j \in 1..(wofs - 1) /\ j \in Slots
          BY <1>3, <2>2, <4>2 DEF Slots
        <5>2. PICK i \in 1..(ci - 1) : flash[seg].slots[j] = flash[src].slots[i]
          BY <2>6, <5>1
        <5>3. i \in 1..(ci' - 1)
          BY <1>1, <1>3 DEF Slots
        <5> QED BY <2>10, <4>2, <5>1, <5>2, <5>3
      <4> QED BY <4>1, <4>2
    <3>4. \A j \in 1..(upto - 1) : flash[src].slots[j].st \in Intact
      BY <1>4 DEF IInv, RamInv
    <3>5. \A j \in 1..(upto' - 1) : flash'[src'].slots[j].st \in Intact
      BY <1>1, <1>3, <2>9, <3>4
    <3> QED BY <1>1, <3>1, <3>2, <3>3, <3>5 DEF RamInv
  <2> QED BY <1>5, <1>6, <2>4, <2>11, <2>12 DEF IInv
<1> QED BY <1>3, <1>8, <1>9 DEF Intact

\* After the last item there is room for one more.
LEMMA CopyDoneInv == ASSUME IInv, CopyDone PROVE IInv'
<1>1. /\ pc = "copy" /\ pc' = "retire"
      /\ UNCHANGED <<flash, seg, seq, wofs, map, req, old, new, src, upto, ci, ret>>
  BY DEF CopyDone, ram, purgeVars
<1>2. TypeOK' /\ SoundInv'
  BY <1>1 DEF IInv, TypeOK, SoundInv
<1>3. ControlInv'
  BY <1>1 DEF IInv, ControlInv, Pcs, Purging
<1>4. RamInv'
  BY <1>1 DEF IInv, RamInv
<1>5. OldInv' /\ DoneInv'
  BY <1>1 DEF OldInv, DoneInv
<1> QED BY <1>2, <1>3, <1>4, <1>5 DEF IInv

\* Only the old segment's state byte changes.
LEMMA RetireSegInv == ASSUME IInv, RetireSeg PROVE IInv'
<1> DEFINE r == [flash[src] EXCEPT !.hdr = "obsolete"]
<1>1. /\ pc = "retire" /\ flash' = [flash EXCEPT ![src].hdr = "obsolete"] /\ pc' = ret
      /\ new' = 0 /\ src' = NoSeg /\ upto' = 1 /\ ci' = 1 /\ ret' = "clear"
      /\ UNCHANGED <<seg, seq, wofs, map, req, old>>
  BY DEF RetireSeg, ram
<1>2. src \in Segs /\ seg \in Segs /\ src # seg /\ flash \in FlashType /\ src # NoSeg
  BY <1>1, TypeFacts DEF IInv, ControlInv, Segs, NoSeg
<1>3. flash[src] \in SegType
  BY <1>2 DEF FlashType
<1>4. r \in SegType /\ r.slots = flash[src].slots
  BY <1>3 DEF SegType
<1>5. flash' = [flash EXCEPT ![src] = r]
  BY <1>1, <1>2 DEF FlashType
<1> HIDE DEF r
<1>6. Swap(flash', src, r)
  BY <1>2, <1>4, <1>5, SwapIs
<1>7. \A s \in Segs : Named(flash[s]) /\ Unique(flash[s])
  BY <1>1 DEF IInv, SoundInv
<1>8. SoundInv'
  <2>1. Named(r) /\ Unique(r)
    BY <1>2, <1>4, <1>7, FewerValid
  <2> QED BY <1>2, <1>6, <1>7, <2>1 DEF SoundInv, Swap
<1>9. Full(flash[seg], wofs) /\ map = ValidIn(flash[seg])
  BY <1>1 DEF IInv, RamInv
<1>10. wofs <= NSlot
  <2>1. wofs \in 1..(NSlot + 1)
    BY DEF IInv, TypeOK
  <2> QED BY <1>2, <1>7, <1>9, <2>1, FullFits
<1>11. TypeOK'
  <2>1. flash' \in FlashType
    BY <1>6 DEF Swap
  <2>2. /\ new' \in Segs /\ src' \in Segs \cup {NoSeg}
        /\ upto' \in 1..(NSlot + 1) /\ ci' \in 0..(NSlot + NSeg)
    BY <1>1 DEF Segs
  <2> QED BY <1>1, <2>1, <2>2 DEF IInv, TypeOK, FlashType, SegType, ItemType
<1>12. pc' \in {"clear", "item"}
  BY <1>1 DEF IInv, ControlInv
<1>13. ControlInv'
  BY <1>1, <1>10, <1>12 DEF IInv, ControlInv, Pcs, Purging
<1>14. RamInv'
  <2>1. flash'[seg'] = flash[seg]
    BY <1>1, <1>2, <1>6 DEF Swap
  <2>2. Clean(flash[seg], wofs)
    BY <1>9 DEF Full, Clean, Intact
  <2> QED BY <1>1, <1>9, <1>12, <2>1, <2>2 DEF RamInv
<1>15. OldInv' /\ DoneInv'
  BY <1>12 DEF OldInv, DoneInv
<1> QED BY <1>8, <1>11, <1>13, <1>14, <1>15 DEF IInv

\* region_clear never reaches the current segment.
LEMMA ClearedSeg ==
    ASSUME NEW i \in 1..ClearCount, seg \in Segs
    PROVE  (seg + i) % NSeg \in Segs /\ (seg + i) % NSeg # seg
<1>1. ClearCount <= NSeg - 1 /\ ClearCount \in Nat
  BY DEF ClearCount
<1>2. seg \in 0..(NSeg - 1) /\ i \in 1..(NSeg - 1)
  BY <1>1 DEF Segs
<1>3. CASE seg + i < NSeg
  <2>1. seg + i \in 0..(NSeg - 1) /\ NSeg \in Nat \ {0}
    BY <1>2, <1>3
  <2>2. (seg + i) % NSeg = seg + i
    BY <2>1, ModSmall, Zenon
  <2> QED BY <1>2, <1>3, <2>2 DEF Segs
<1>4. CASE seg + i >= NSeg
  <2>1. seg + i \in NSeg..(NSeg + NSeg - 1) /\ NSeg \in Nat \ {0}
    BY <1>2, <1>4
  <2>2. (seg + i) % NSeg = (seg + i) - NSeg
    BY <2>1, ModSmall, Zenon
  <2> QED BY <1>2, <1>4, <2>2 DEF Segs
<1> QED BY <1>2, <1>3, <1>4

\* The segments region_clear erases do not reach the current one.
LEMMA RegionClearInv == ASSUME IInv, RegionClear PROVE IInv'
<1> DEFINE t == (seg + ci) % NSeg
<1>1. /\ pc = "clear" /\ ci <= ClearCount /\ flash' = [flash EXCEPT ![t] = EmptySeg]
      /\ ci' = ci + 1
      /\ UNCHANGED <<seg, seq, wofs, map, pc, req, old, new, src, upto, ret>>
  BY DEF RegionClear, Erased, ram
<1>2. seg \in Segs /\ flash \in FlashType
  BY TypeFacts DEF IInv
<1>3. ci \in 1..ClearCount
  BY <1>1 DEF IInv, TypeOK, ControlInv, ClearCount
<1>4. t \in Segs /\ t # seg
  BY <1>2, <1>3, ClearedSeg
<1> HIDE DEF t
<1>5. Swap(flash', t, EmptySeg)
  BY <1>1, <1>2, <1>4, SwapIs, ContentTypes
<1>6. TypeOK'
  <2>1. flash' \in FlashType /\ ci' \in 0..(NSlot + NSeg)
    BY <1>1, <1>3, <1>5 DEF Swap, ClearCount
  <2> QED BY <1>1, <2>1 DEF IInv, TypeOK, FlashType, SegType, ItemType
<1>7. ControlInv'
  BY <1>1, <1>3 DEF IInv, ControlInv, ClearCount
<1>8. SoundInv'
  <2>1. Named(EmptySeg) /\ Unique(EmptySeg)
    BY ContentTypes DEF Named, Unique
  <2>2. \A s \in Segs : Named(flash[s]) /\ Unique(flash[s])
    BY <1>1 DEF IInv, SoundInv
  <2> QED BY <1>4, <1>5, <2>1, <2>2 DEF SoundInv, Swap
<1>9. RamInv'
  <2>1. flash'[seg'] = flash[seg] /\ src' = NoSeg
    BY <1>1, <1>2, <1>4, <1>5 DEF Swap, IInv, ControlInv, Purging
  <2> QED BY <1>1, <2>1 DEF IInv, RamInv
<1>10. OldInv' /\ DoneInv'
  BY <1>1 DEF OldInv, DoneInv
<1> QED BY <1>6, <1>7, <1>8, <1>9, <1>10 DEF IInv

\* After the boot the region is idle.
LEMMA BootDoneInv == ASSUME IInv, BootDone PROVE IInv'
<1>1. /\ pc = "clear" /\ pc' = "idle" /\ ci' = 1
      /\ UNCHANGED <<flash, seg, seq, wofs, map, req, old, new, src, upto, ret>>
  BY DEF BootDone, ram
<1>2. TypeOK' /\ SoundInv'
  BY <1>1 DEF IInv, TypeOK, SoundInv
<1>3. ControlInv'
  BY <1>1 DEF IInv, ControlInv, Pcs, Purging
<1>4. RamInv'
  BY <1>1 DEF IInv, RamInv
<1>5. OldInv' /\ DoneInv'
  BY <1>1 DEF OldInv, DoneInv
<1> QED BY <1>2, <1>3, <1>4, <1>5 DEF IInv

\* region_set writes at once, purges first, or finds the value unchanged.
LEMMA SetInv ==
    ASSUME IInv, NEW k \in Keys, NEW v \in Vals, Set(k, v)
    PROVE  IInv'
<1>1. /\ pc = "idle" /\ req' = [kind |-> "set", key |-> k, val |-> v]
      /\ UNCHANGED <<flash, seg, seq, wofs, map, old, ci>>
  BY DEF Set, ram
<1>2. \/ region_get(k) = v /\ pc' = "done" /\ UNCHANGED <<new, src, upto, ret>>
      \/ /\ pc' = "erase" /\ new' = NextSeg(seg) /\ src' = seg /\ upto' = wofs
         /\ ret' = "item" /\ wofs > NSlot
      \/ wofs <= NSlot /\ pc' = "item" /\ UNCHANGED <<new, src, upto, ret>>
  BY DEF Set, IInv, TypeOK
<1>3. seg \in Segs /\ NextSeg(seg) \in Segs /\ seg # NoSeg /\ wofs \in 1..(NSlot + 1)
  BY NextSegIs DEF IInv, TypeOK, Segs, NoSeg
<1>4. src = NoSeg /\ ret = "clear"
  BY <1>1 DEF IInv, ControlInv, Purging
<1>5. /\ req' \in ReqType /\ req'.kind = "set" /\ req'.key \in Keys /\ req'.val \in Vals
      /\ req'.key = k /\ req'.val = v
  BY <1>1 DEF ReqType
<1>6. TypeOK'
  BY <1>1, <1>2, <1>3 DEF IInv, TypeOK
<1>7. ControlInv'
  BY <1>1, <1>2, <1>3, <1>4, <1>5 DEF IInv, ControlInv, Pcs, Purging
<1>8. SoundInv'
  BY <1>1 DEF IInv, SoundInv
<1>9. map = ValidIn(flash[seg]) /\ Clean(flash[seg], wofs)
  BY <1>1 DEF IInv, RamInv
<1>10. RamInv'
  <2>1. \A j \in 1..(wofs - 1) : flash[seg].slots[j].st \in Intact
    BY <1>3, <1>9 DEF Clean, Slots
  <2> QED BY <1>1, <1>2, <1>4, <1>9, <2>1 DEF RamInv
<1>11. OldInv'
  BY <1>2 DEF OldInv
<1>12. DoneInv'
  <2>1. pc' = "done" => region_get(k) = v
    BY <1>2
  <2>2. region_get(k) = GetIn(flash[seg], map, k)
    BY FindHere
  <2> QED BY <1>1, <1>5, <2>1, <2>2 DEF DoneInv
<1> QED BY <1>6, <1>7, <1>8, <1>10, <1>11, <1>12 DEF IInv

\* Between calls find answers the item of a key, or that there is none.
LEMMA FindAnswers ==
    ASSUME IInv, pc \in {"idle", "item"}, NEW k
    PROVE  LET o == region_find_item(k) IN
           /\ o = 0 => (\A j \in map : flash[seg].slots[j].key # k) /\ region_get(k) = None
           /\ o # 0 => o \in map /\ flash[seg].slots[o].key = k
<1>1. map = ValidIn(flash[seg]) /\ Unique(flash[seg])
  BY DEF IInv, RamInv, SoundInv, TypeOK
<1>2. /\ region_find_item(k) = FindIn(flash[seg], map, k)
      /\ region_get(k) = GetIn(flash[seg], map, k)
  BY FindHere, Zenon
<1>3. 0 \notin map
  BY DEF IInv, TypeOK, Slots
<1>4. CASE \A j \in map : flash[seg].slots[j].key # k
  BY <1>1, <1>2, <1>4, FindIs
<1>5. CASE \E j \in map : flash[seg].slots[j].key = k
  <2>1. PICK j \in map : flash[seg].slots[j].key = k
    BY <1>5
  <2>2. region_find_item(k) = j
    BY <1>1, <1>2, <2>1, FindIs
  <2> QED BY <1>3, <2>1, <2>2
<1> QED BY <1>4, <1>5

\* region_set without data goes to the old item, or returns.
LEMMA DeleteInv == ASSUME IInv, NEW k \in Keys, Delete(k) PROVE IInv'
<1>1. /\ pc = "idle" /\ req' = [kind |-> "set", key |-> k, val |-> None]
      /\ old' = region_find_item(k) /\ pc' = IF old' = 0 THEN "done" ELSE "obsolete"
      /\ UNCHANGED <<flash, seg, seq, wofs, map, new, src, upto, ci, ret>>
  BY DEF Delete, ram, purgeVars
<1>2. /\ old' = 0 => region_get(k) = None
      /\ old' # 0 => old' \in map /\ flash[seg].slots[old'].key = k
  BY <1>1, FindAnswers
<1>3. src = NoSeg /\ ret = "clear"
  BY <1>1 DEF IInv, ControlInv, Purging
<1>4. /\ req' \in ReqType /\ req'.kind = "set" /\ req'.key = k /\ req'.val = None
  BY <1>1 DEF ReqType
<1>5. TypeOK'
  <2>1. \A j \in map : j \in 0..NSlot
    BY DEF IInv, TypeOK, Slots
  <2>2. old' \in 0..NSlot
    BY <1>2, <2>1
  <2> QED BY <1>1, <2>2 DEF IInv, TypeOK
<1>6. ControlInv'
  BY <1>1, <1>3, <1>4 DEF IInv, ControlInv, Pcs, Purging
<1>7. SoundInv'
  BY <1>1 DEF IInv, SoundInv
<1>8. RamInv'
  BY <1>1 DEF IInv, RamInv
<1>9. OldInv'
  <2>1. Unique(flash[seg])
    BY <1>1 DEF IInv, SoundInv, TypeOK
  <2> QED BY <1>1, <1>2, <1>4, <2>1 DEF OldInv
<1>10. DoneInv'
  <2>1. region_get(k) = GetIn(flash[seg], map, k)
    BY FindHere
  <2> QED BY <1>1, <1>2, <1>4, <2>1 DEF DoneInv
<1> QED BY <1>5, <1>6, <1>7, <1>8, <1>9, <1>10 DEF IInv

\* The header goes into an erased slot.
LEMMA WriteItemHeaderInv == ASSUME IInv, WriteItemHeader PROVE IInv'
<1>1. /\ pc = "item" /\ old' = region_find_item(req.key)
      /\ flash' = Program(seg, wofs, TornItem) /\ pc' = "data"
      /\ UNCHANGED <<seg, seq, wofs, map, req, new, src, upto, ci, ret>>
  BY DEF WriteItemHeader, ram, purgeVars
<1>2. seg \in Segs /\ flash \in FlashType /\ wofs \in Slots
  BY <1>1, TypeFacts DEF IInv, ControlInv, TypeOK, Slots
<1>3. map = ValidIn(flash[seg]) /\ Clean(flash[seg], wofs)
  BY <1>1 DEF IInv, RamInv
<1>4. flash[seg].slots[wofs].st = "empty"
  BY <1>2, <1>3 DEF Clean, Slots
<1>5. flash' = [flash EXCEPT ![seg].slots[wofs] = TornItem]
  BY <1>1, <1>4 DEF Program
<1>6. Put(flash', seg, wofs, TornItem)
  BY <1>2, <1>5, PutIs, ContentTypes
<1>7. /\ flash' \in FlashType
      /\ \A s \in Segs \ {seg} : flash'[s] = flash[s]
      /\ \A i \in Slots : flash'[seg].slots[i] = IF i = wofs THEN TornItem ELSE flash[seg].slots[i]
  BY <1>6 DEF Put
<1>8. TornItem.st = "nocrc"
  BY DEF TornItem, Item
<1>9. /\ old' = 0 => \A j \in map : flash[seg].slots[j].key # req.key
      /\ old' # 0 => old' \in map /\ flash[seg].slots[old'].key = req.key
  BY <1>1, FindAnswers
<1>10. wofs \notin map /\ map \subseteq Slots
  BY <1>3, <1>4 DEF ValidIn
<1>11. TypeOK'
  <2>1. \A j \in map : j \in 0..NSlot
    BY <1>10 DEF Slots
  <2>2. old' \in 0..NSlot
    BY <1>9, <2>1
  <2> QED BY <1>1, <1>7, <2>2 DEF IInv, TypeOK, FlashType, SegType, ItemType
<1>12. ControlInv'
  BY <1>1 DEF IInv, ControlInv, Pcs, Purging
<1>13. SoundInv'
  <2>1. \A s \in Segs : Named(flash[s]) /\ Unique(flash[s])
    BY <1>1 DEF IInv, SoundInv
  <2>2. Named(flash'[seg]) /\ Unique(flash'[seg])
    BY <1>2, <1>7, <1>8, <2>1, FewerValid
  <2> QED BY <1>7, <2>1, <2>2 DEF SoundInv
<1>14. RamInv'
  <2>1. map' = ValidIn(flash'[seg])
    BY <1>1, <1>3, <1>4, <1>7, <1>8 DEF ValidIn
  <2>2. \A j \in Slots : /\ j < wofs => flash'[seg].slots[j].st \in Intact
                         /\ j = wofs => flash'[seg].slots[j].st = "nocrc"
                         /\ j > wofs => flash'[seg].slots[j].st = "empty"
    BY <1>2, <1>3, <1>7, <1>8 DEF Clean, Slots
  <2>3. src' = NoSeg
    BY <1>1 DEF IInv, ControlInv, Purging
  <2> QED BY <1>1, <2>1, <2>2, <2>3 DEF RamInv
<1>15. OldInv'
  <2>1. \A j \in map : flash'[seg].slots[j].key = flash[seg].slots[j].key
    BY <1>7, <1>10
  <2> QED BY <1>1, <1>9, <2>1 DEF OldInv
<1>16. DoneInv'
  BY <1>1 DEF DoneInv
<1> QED BY <1>11, <1>12, <1>13, <1>14, <1>15, <1>16 DEF IInv

\* The item is complete, and the old one of its key its only double.
LEMMA WriteItemDataInv == ASSUME IInv, WriteItemData PROVE IInv'
<1> DEFINE x == Item("valid", req.key, req.val)
<1>1. /\ pc = "data"
      /\ flash' = [flash EXCEPT ![seg].slots[wofs] = IF @.st = "nocrc" THEN x ELSE BadItem]
      /\ map' = map \cup {wofs} /\ wofs' = wofs + 1
      /\ pc' = IF old = 0 THEN "done" ELSE "obsolete"
      /\ UNCHANGED <<seg, seq, req, old, new, src, upto, ci, ret>>
  BY DEF WriteItemData, purgeVars
<1>2. seg \in Segs /\ flash \in FlashType /\ wofs \in Slots
  BY <1>1, TypeFacts DEF IInv, ControlInv, TypeOK, Slots
<1>3. /\ map = ValidIn(flash[seg])
      /\ \A j \in Slots : /\ j < wofs => flash[seg].slots[j].st \in Intact
                          /\ j = wofs => flash[seg].slots[j].st = "nocrc"
                          /\ j > wofs => flash[seg].slots[j].st = "empty"
  BY <1>1 DEF IInv, RamInv
<1>4. flash[seg].slots[wofs].st = "nocrc"
  BY <1>2, <1>3
<1>5. req.kind = "set" /\ req.key \in Keys /\ req.val \in Vals /\ req.val # None
  BY <1>1, NoneAssumption DEF IInv, ControlInv
<1>6. x \in ItemType /\ x.st = "valid" /\ x.key = req.key /\ x.val = req.val
  BY <1>5 DEF Item, ItemType, ItemStates
<1>7. flash' = [flash EXCEPT ![seg].slots[wofs] = x]
  BY <1>1, <1>4
<1>8. x = Item("valid", req.key, req.val)
  OBVIOUS
<1> HIDE DEF x
<1>9. Put(flash', seg, wofs, x)
  BY <1>2, <1>6, <1>7, PutIs
<1>10. /\ flash' \in FlashType
       /\ \A s \in Segs \ {seg} : flash'[s] = flash[s]
       /\ \A i \in Slots : flash'[seg].slots[i] = IF i = wofs THEN x ELSE flash[seg].slots[i]
  BY <1>9 DEF Put
<1>11. wofs \notin map /\ map \subseteq Slots
  BY <1>3, <1>4 DEF ValidIn
<1>12. TypeOK'
  <2>1. map' \subseteq Slots /\ wofs' \in 1..(NSlot + 1)
    BY <1>1, <1>2, <1>11 DEF Slots
  <2> QED BY <1>1, <1>10, <2>1 DEF IInv, TypeOK, FlashType, SegType, ItemType
<1>13. ControlInv'
  BY <1>1, <1>5 DEF IInv, ControlInv, Pcs, Purging
<1>14. map' = ValidIn(flash'[seg])
  BY <1>1, <1>2, <1>3, <1>6, <1>10 DEF ValidIn
<1>15. RamInv'
  <2>1. Clean(flash'[seg], wofs')
    BY <1>1, <1>2, <1>3, <1>6, <1>10 DEF Clean, Slots, Intact
  <2>2. src' = NoSeg
    BY <1>1 DEF IInv, ControlInv, Purging
  <2> QED BY <1>1, <1>14, <2>1, <2>2 DEF RamInv
<1>16. \A s \in Segs : Named(flash[s]) /\ Unique(flash[s])
  BY <1>1 DEF IInv, SoundInv
<1>17. Named(flash'[seg])
  BY <1>2, <1>5, <1>6, <1>10, <1>16 DEF Named
<1>18. CASE old = 0
  <2>1. \A j \in map : flash[seg].slots[j].key # req.key
    BY <1>1, <1>18 DEF IInv, OldInv
  <2>2. Unique(flash'[seg])
    <3>1. \A j \in Slots : flash[seg].slots[j].st = "valid" => flash[seg].slots[j].key # req.key
      BY <1>3, <2>1 DEF ValidIn
    <3>2. Unique(flash[seg])
      BY <1>2, <1>16
    <3> QED BY <1>6, <1>10, <3>1, <3>2 DEF Unique
  <2>3. SoundInv'
    BY <1>1, <1>10, <1>16, <1>17, <2>2 DEF SoundInv
  <2>4. OldInv'
    BY <1>1, <1>18 DEF OldInv
  <2>5. DoneInv'
    <3>1. wofs \in ValidIn(flash'[seg]) /\ flash'[seg].slots[wofs] = x
      BY <1>1, <1>2, <1>10, <1>14
    <3>2. GetIn(flash'[seg], ValidIn(flash'[seg]), req.key) = req.val
      BY <1>6, <2>2, <3>1, FindIs
    <3> QED BY <1>1, <1>14, <3>2 DEF DoneInv
  <2> QED BY <1>12, <1>13, <1>15, <2>3, <2>4, <2>5 DEF IInv
<1>19. CASE old # 0
  <2>1. old \in map /\ flash[seg].slots[old].key = req.key
    BY <1>1, <1>19 DEF IInv, OldInv
  <2>2. SoundInv'
    BY <1>1, <1>10, <1>16, <1>17, <1>19 DEF SoundInv
  <2>3. OldInv'
    <3>1. wofs' - 1 = wofs /\ wofs # old /\ wofs \in map'
      BY <1>1, <1>2, <1>11, <2>1 DEF Slots
    <3>2. flash'[seg].slots[old].key = req.key /\ old \in map'
      BY <1>1, <1>10, <1>11, <2>1
    <3>3. flash'[seg].slots[wofs] = x
      BY <1>2, <1>10
    <3>4. ASSUME NEW i \in map', NEW j \in map',
                 flash'[seg].slots[i].key = flash'[seg].slots[j].key
          PROVE  i = j \/ {i, j} = {old, wofs}
      <4>1. \A h \in map : /\ h \in Slots /\ h # wofs
                           /\ flash'[seg].slots[h] = flash[seg].slots[h]
                           /\ flash[seg].slots[h].st = "valid"
        BY <1>3, <1>10, <1>11 DEF ValidIn
      <4>2. \A h, l \in map : flash[seg].slots[h].key = flash[seg].slots[l].key => h = l
        BY <1>2, <1>16, <4>1 DEF Unique
      <4>3. \A h \in map : flash[seg].slots[h].key = x.key => h = old
        BY <1>6, <2>1, <4>2
      <4>4. i \in map \/ i = wofs
        BY <1>1
      <4>5. j \in map \/ j = wofs
        BY <1>1
      <4>6. CASE i \in map /\ j \in map
        BY <3>4, <4>1, <4>2, <4>6
      <4>7. CASE i = wofs /\ j \in map
        BY <3>3, <3>4, <4>1, <4>3, <4>7
      <4>8. CASE i \in map /\ j = wofs
        BY <3>3, <3>4, <4>1, <4>3, <4>8
      <4> QED BY <4>4, <4>5, <4>6, <4>7, <4>8
    <3>5. /\ pc' = "obsolete" /\ req' = req /\ seg' = seg /\ old' = old
          /\ req'.val # None /\ wofs' - 1 = wofs
      BY <1>1, <1>5, <1>19, <3>1
    <3>6. /\ old' \in map' /\ flash'[seg'].slots[old'].key = req'.key
          /\ wofs' - 1 \in map' /\ wofs' - 1 # old'
          /\ flash'[seg'].slots[wofs' - 1] = Item("valid", req'.key, req'.val)
      BY <1>8, <3>1, <3>2, <3>3, <3>5
    <3>7. \A i, j \in map' : flash'[seg'].slots[i].key = flash'[seg'].slots[j].key
                             => i = j \/ {i, j} = {old', wofs' - 1}
      BY <3>4, <3>5
    <3> QED BY <3>5, <3>6, <3>7 DEF OldInv
  <2>4. DoneInv'
    BY <1>1, <1>19 DEF DoneInv
  <2> QED BY <1>12, <1>13, <1>15, <2>2, <2>3, <2>4 DEF IInv
<1> QED BY <1>18, <1>19

\* Without the old item keys are unique again, and the new value is found.
LEMMA ObsoleteOldInv == ASSUME IInv, ObsoleteOld PROVE IInv'
<1>1. /\ pc = "obsolete" /\ flash' = ObsoleteItem(seg, old) /\ map' = map \ {old}
      /\ pc' = "done"
      /\ UNCHANGED <<seg, seq, wofs, req, old, new, src, upto, ci, ret>>
  BY DEF ObsoleteOld, purgeVars
<1>2. /\ map = ValidIn(flash[seg]) /\ Clean(flash[seg], wofs)
      /\ old \in map /\ flash[seg].slots[old].key = req.key
  BY <1>1 DEF IInv, RamInv, OldInv
<1>3. /\ seg \in Segs /\ flash \in FlashType
      /\ old \in Slots /\ flash[seg].slots[old].st = "valid"
  BY <1>2, TypeFacts DEF IInv, ValidIn
<1>4. flash' = [flash EXCEPT ![seg].slots[old] = ObsoletedItem]
  BY <1>1, <1>3 DEF ObsoleteItem
<1>5. Put(flash', seg, old, ObsoletedItem)
  BY <1>3, <1>4, PutIs, ContentTypes
<1>6. /\ flash' \in FlashType
      /\ \A s \in Segs \ {seg} : flash'[s] = flash[s]
      /\ \A i \in Slots : flash'[seg].slots[i] = IF i = old THEN ObsoletedItem
                                                 ELSE flash[seg].slots[i]
  BY <1>5 DEF Put
<1>7. ObsoletedItem.st = "obsolete"
  BY DEF ObsoletedItem, Item
<1>8. req.kind = "set"
  BY <1>1 DEF IInv, ControlInv
<1>9. TypeOK'
  <2>1. map' \subseteq Slots
    BY <1>1 DEF IInv, TypeOK
  <2> QED BY <1>1, <1>6, <2>1 DEF IInv, TypeOK, FlashType, SegType, ItemType
<1>10. ControlInv'
  BY <1>1 DEF IInv, ControlInv, Pcs, Purging
<1>11. map' = ValidIn(flash'[seg])
  BY <1>1, <1>2, <1>6, <1>7 DEF ValidIn
<1>12. RamInv'
  <2>1. Clean(flash'[seg], wofs)
    <3>1. ASSUME NEW j \in Slots
          PROVE  IF j < wofs THEN flash'[seg].slots[j].st \in Intact
                             ELSE flash'[seg].slots[j].st = "empty"
      <4>1. CASE j = old
        BY <1>2, <1>3, <1>6, <1>7, <4>1 DEF Clean, Intact
      <4>2. CASE j # old
        BY <1>2, <1>6, <4>2 DEF Clean
      <4> QED BY <4>1, <4>2
    <3> QED BY <3>1 DEF Clean
  <2>2. src' = NoSeg
    BY <1>1 DEF IInv, ControlInv, Purging
  <2> QED BY <1>1, <1>11, <2>1, <2>2 DEF RamInv
<1>13. \A j \in map' : j \in map /\ j # old /\ flash'[seg].slots[j] = flash[seg].slots[j]
  BY <1>1, <1>2, <1>6 DEF ValidIn
<1>14. Unique(flash'[seg])
  <2>1. SUFFICES ASSUME NEW i \in map', NEW j \in map',
                        flash[seg].slots[i].key = flash[seg].slots[j].key
                 PROVE  i = j
    BY <1>11, <1>13 DEF Unique, ValidIn
  <2>2. i \in map /\ j \in map /\ i # old /\ j # old
    BY <1>13
  <2>3. CASE req.val = None
    <3>1. Unique(flash[seg])
      BY <1>1, <2>3 DEF IInv, OldInv
    <3> QED BY <1>2, <2>1, <2>2, <3>1 DEF Unique, ValidIn
  <2>4. CASE req.val # None
    <3>1. i = j \/ {i, j} = {old, wofs - 1}
      BY <1>1, <2>1, <2>2, <2>4 DEF IInv, OldInv
    <3> QED BY <2>2, <3>1
  <2> QED BY <2>3, <2>4
<1>15. SoundInv'
  <2>1. \A s \in Segs : Named(flash[s])
    BY DEF IInv, SoundInv
  <2>2. Named(flash'[seg])
    BY <1>3, <1>6, <1>7, <2>1 DEF Named
  <2>3. \A s \in Segs \ {seg} : Unique(flash[s])
    BY DEF IInv, SoundInv
  <2> QED BY <1>1, <1>6, <1>14, <2>1, <2>2, <2>3 DEF SoundInv
<1>16. DoneInv'
  <2>1. CASE req.val = None
    <3>1. Unique(flash[seg])
      BY <1>1, <2>1 DEF IInv, OldInv
    <3>2. \A j \in map : flash[seg].slots[j].key = req.key => j = old
      BY <1>2, <3>1 DEF Unique, ValidIn
    <3>3. \A j \in ValidIn(flash'[seg]) : flash'[seg].slots[j].key # req.key
      BY <1>11, <1>13, <3>2
    <3>4. GetIn(flash'[seg], ValidIn(flash'[seg]), req.key) = None
      BY <1>14, <3>3, FindIs
    <3> QED BY <1>1, <1>11, <2>1, <3>4 DEF DoneInv
  <2>2. CASE req.val # None
    <3> DEFINE l == wofs - 1
    <3>1. /\ l \in map /\ l # old
          /\ flash[seg].slots[l] = Item("valid", req.key, req.val)
      BY <1>1, <2>2 DEF IInv, OldInv
    <3> HIDE DEF l
    <3>2. l \in ValidIn(flash'[seg]) /\ flash'[seg].slots[l] = Item("valid", req.key, req.val)
      BY <1>1, <1>11, <1>13, <3>1
    <3>3. flash'[seg].slots[l].key = req.key /\ flash'[seg].slots[l].val = req.val
      BY <3>2 DEF Item
    <3>4. GetIn(flash'[seg], ValidIn(flash'[seg]), req.key) = req.val
      BY <1>14, <3>2, <3>3, FindIs
    <3> QED BY <1>1, <1>11, <3>4 DEF DoneInv
  <2> QED BY <2>1, <2>2
<1>17. OldInv'
  BY <1>1 DEF OldInv
<1> QED BY <1>9, <1>10, <1>12, <1>15, <1>16, <1>17 DEF IInv

\* A call that returns leaves nothing behind.
LEMMA ReturnInv == ASSUME IInv, Return PROVE IInv'
<1>1. /\ pc = "done" /\ pc' = "idle" /\ req' = NoReq /\ old' = 0 /\ ret' = "clear"
      /\ UNCHANGED <<flash, seg, seq, wofs, map, new, src, upto, ci>>
  BY DEF Return, ram
<1>2. TypeOK' /\ SoundInv'
  BY <1>1 DEF IInv, TypeOK, SoundInv
<1>3. req' \in ReqType /\ req'.kind = "none"
  BY <1>1 DEF NoReq, ReqType
<1>4. ControlInv'
  BY <1>1, <1>3 DEF IInv, ControlInv, Pcs, Purging
<1>5. RamInv'
  BY <1>1 DEF IInv, RamInv
<1>6. OldInv' /\ DoneInv'
  BY <1>1 DEF OldInv, DoneInv
<1> QED BY <1>2, <1>4, <1>5, <1>6 DEF IInv

\* nvram_config_clear_all begins at segment 0.
LEMMA ClearAllInv == ASSUME IInv, ClearAll PROVE IInv'
<1>1. /\ pc = "idle" /\ req' = [kind |-> "clear", key |-> None, val |-> None]
      /\ pc' = "wipe" /\ ci' = 0
      /\ UNCHANGED <<flash, seg, seq, wofs, map, old, new, src, upto, ret>>
  BY DEF ClearAll, ram
<1>2. TypeOK' /\ SoundInv'
  BY <1>1 DEF IInv, TypeOK, SoundInv
<1>3. req' \in ReqType /\ req'.kind = "clear"
  BY <1>1 DEF ReqType
<1>4. ControlInv'
  BY <1>1, <1>3 DEF IInv, ControlInv, Pcs, Purging
<1>5. RamInv'
  BY <1>1 DEF IInv, RamInv
<1>6. OldInv' /\ DoneInv'
  BY <1>1 DEF OldInv, DoneInv
<1> QED BY <1>2, <1>4, <1>5, <1>6 DEF IInv

\* An erased segment has no items.
LEMMA WipeSegInv == ASSUME IInv, WipeSeg PROVE IInv'
<1>1. /\ pc = "wipe" /\ ci < NSeg /\ flash' = [flash EXCEPT ![ci] = EmptySeg]
      /\ ci' = ci + 1
      /\ UNCHANGED <<seg, seq, wofs, map, pc, req, old, new, src, upto, ret>>
  BY DEF WipeSeg, Erased, ram
<1>2. ci \in Segs /\ flash \in FlashType
  BY <1>1, TypeFacts DEF IInv, TypeOK, Segs
<1>3. Swap(flash', ci, EmptySeg)
  BY <1>1, <1>2, SwapIs, ContentTypes
<1>4. TypeOK'
  <2>1. flash' \in FlashType /\ ci' \in 0..(NSlot + NSeg)
    BY <1>1, <1>2, <1>3 DEF Swap, Segs
  <2> QED BY <1>1, <2>1 DEF IInv, TypeOK, FlashType, SegType, ItemType
<1>5. ControlInv'
  BY <1>1 DEF IInv, ControlInv
<1>6. SoundInv'
  <2>1. Named(EmptySeg) /\ Unique(EmptySeg)
    BY ContentTypes DEF Named, Unique
  <2>2. \A s \in Segs : Named(flash[s]) /\ Unique(flash[s])
    BY <1>1 DEF IInv, SoundInv
  <2> QED BY <1>2, <1>3, <2>1, <2>2 DEF SoundInv, Swap
<1>7. RamInv'
  BY <1>1 DEF IInv, ControlInv, RamInv, Purging
<1>8. OldInv' /\ DoneInv'
  BY <1>1 DEF OldInv, DoneInv
<1> QED BY <1>4, <1>5, <1>6, <1>7, <1>8 DEF IInv

\* The rescan of the erased region starts a new one.
LEMMA WipeDoneInv == ASSUME IInv, WipeDone PROVE IInv'
<1>1. /\ pc = "wipe" /\ pc' = "erase" /\ new' = 0 /\ src' = NoSeg /\ ret' = "done"
      /\ UNCHANGED <<flash, seg, seq, wofs, map, req, old, upto, ci>>
  BY DEF WipeDone, ram
<1>2. TypeOK' /\ SoundInv'
  BY <1>1 DEF IInv, TypeOK, SoundInv, Segs
<1>3. ControlInv'
  BY <1>1 DEF IInv, ControlInv, Pcs, Purging
<1>4. RamInv' /\ OldInv' /\ DoneInv'
  BY <1>1 DEF RamInv, OldInv, DoneInv
<1> QED BY <1>2, <1>3, <1>4 DEF IInv

\* Whatever a power failure leaves of the operation it interrupts, the types
\* hold and no item becomes valid.
LEMMA TornIs ==
    ASSUME IInv, NEW g \in {flash} \cup TornFlash
    PROVE  /\ g \in FlashType
           /\ \A s \in Segs, j \in Slots :
                 g[s].slots[j].st = "valid" => g[s].slots[j] = flash[s].slots[j]
<1> DEFINE Safe == /\ g \in FlashType
                   /\ \A s \in Segs, j \in Slots :
                         g[s].slots[j].st = "valid" => g[s].slots[j] = flash[s].slots[j]
<1>1. flash \in FlashType /\ seg \in Segs /\ new \in Segs
  BY TypeFacts DEF IInv
<1>2. ASSUME NEW t \in Segs, g = [flash EXCEPT ![t] = GarbageSeg] PROVE Safe
  <2>1. Swap(g, t, GarbageSeg)
    BY <1>1, <1>2, SwapIs, ContentTypes
  <2> QED BY <2>1, ContentTypes DEF Swap
<1>3. ASSUME NEW t \in Segs, NEW j \in Slots, NEW x \in {BadItem, TornItem},
             g = Program(t, j, x)
      PROVE  Safe
  <2> DEFINE y == IF flash[t].slots[j].st = "empty" THEN x ELSE BadItem
  <2>1. y \in ItemType /\ y.st # "valid"
    <3>1. BadItem.st # "valid" /\ TornItem.st # "valid"
      BY DEF BadItem, TornItem, Item
    <3>2. y = BadItem \/ y = TornItem
      OBVIOUS
    <3> QED BY <3>1, <3>2, ContentTypes
  <2>2. g = [flash EXCEPT ![t].slots[j] = y]
    BY <1>3 DEF Program
  <2> HIDE DEF y
  <2>3. Put(g, t, j, y)
    BY <1>1, <2>1, <2>2, PutIs
  <2> QED BY <2>1, <2>3 DEF Put
<1>4. CASE g = flash
  BY <1>1, <1>4
<1>5. CASE g \in TornFlash
  <2>1. CASE pc = "erase"
    BY <1>1, <1>2, <1>5, <2>1 DEF TornFlash
  <2>2. CASE pc = "wipe"
    <3>1. ci < NSeg /\ g = [flash EXCEPT ![ci] = GarbageSeg]
      BY <1>5, <2>2 DEF TornFlash
    <3>2. ci \in Segs
      BY <3>1 DEF IInv, TypeOK, Segs
    <3> QED BY <1>2, <3>1, <3>2
  <2>3. CASE pc = "clear"
    <3>1. ci <= ClearCount /\ g = [flash EXCEPT ![(seg + ci) % NSeg] = GarbageSeg]
      BY <1>5, <2>3 DEF TornFlash
    <3>2. ci \in 1..ClearCount
      BY <2>3, <3>1 DEF IInv, TypeOK, ControlInv, ClearCount
    <3>3. (seg + ci) % NSeg \in Segs
      BY <1>1, <3>2, ClearedSeg
    <3> QED BY <1>2, <3>1, <3>3
  <2>4. CASE pc = "header"
    <3> DEFINE r == [flash[new] EXCEPT !.hdr = "bad"]
    <3>1. g = [flash EXCEPT ![new].hdr = "bad"]
      BY <1>5, <2>4 DEF TornFlash
    <3>2. flash[new] \in SegType
      BY <1>1 DEF FlashType
    <3>3. r \in SegType /\ r.slots = flash[new].slots
      BY <3>2 DEF SegType
    <3>4. g = [flash EXCEPT ![new] = r]
      BY <1>1, <3>1 DEF FlashType
    <3> HIDE DEF r
    <3>5. Swap(g, new, r)
      BY <1>1, <3>3, <3>4, SwapIs
    <3> QED BY <3>3, <3>5 DEF Swap
  <2>5. CASE pc = "item"
    <3>1. g = Program(seg, wofs, BadItem)
      BY <1>5, <2>5 DEF TornFlash
    <3>2. wofs \in Slots
      BY <2>5 DEF IInv, TypeOK, ControlInv, Slots
    <3> QED BY <1>1, <1>3, <3>1, <3>2
  <2>6. CASE pc = "copy"
    <3>1. CopyContinues /\ \E x \in {BadItem, TornItem} : g = Program(new, wofs, x)
      BY <1>5, <2>6 DEF TornFlash
    <3>2. wofs \in Slots
      BY <2>6, <3>1, CopyFacts
    <3> QED BY <1>1, <1>3, <3>1, <3>2
  <2> QED BY <1>5, <2>1, <2>2, <2>3, <2>4, <2>5, <2>6 DEF TornFlash
<1> QED BY <1>4, <1>5

\* Power failure loses the RAM and tears one flash operation, outside the
\* excluded window.
LEMMA PowerFailureInv ==
    ASSUME IInv, PowerFailure, "dup" \notin Windows
    PROVE  IInv'
<1>1. /\ pc' = "off" /\ req' = NoReq /\ old' = 0
      /\ seg' = 0 /\ seq' = 0 /\ wofs' = 1 /\ map' = {}
      /\ new' = 0 /\ src' = NoSeg /\ upto' = 1 /\ ci' = 0 /\ ret' = "clear"
      /\ flash' \in {flash} \cup TornFlash
  BY DEF PowerFailure
<1>2. /\ flash' \in FlashType
      /\ \A s \in Segs, j \in Slots :
            flash'[s].slots[j].st = "valid" => flash'[s].slots[j] = flash[s].slots[j]
  BY <1>1, TornIs
<1>3. \A s \in Segs : Named(flash[s]) /\ Unique(flash[s])
  <2>1. pc = "obsolete" => req.val = None
    BY DEF PowerFailure, InDupWindow
  <2>2. pc = "obsolete" => Unique(flash[seg])
    BY <2>1 DEF IInv, OldInv
  <2> QED BY <2>2 DEF IInv, SoundInv
<1>4. SoundInv'
  <2>1. \A s \in Segs : Named(flash'[s]) /\ Unique(flash'[s])
    BY <1>2, <1>3, FewerValid
  <2> QED BY <2>1 DEF SoundInv
<1>5. TypeOK'
  BY <1>1, <1>2 DEF TypeOK, FlashType, SegType, ItemType, Segs, Slots
<1>6. req' \in ReqType /\ req'.kind = "none"
  BY <1>1 DEF NoReq, ReqType
<1>7. ControlInv'
  BY <1>1, <1>6 DEF ControlInv, Pcs, Purging
<1>8. RamInv' /\ OldInv' /\ DoneInv'
  BY <1>1 DEF RamInv, OldInv, DoneInv
<1> QED BY <1>4, <1>5, <1>7, <1>8 DEF IInv

\* An erased region satisfies the invariant.
LEMMA InitInv == Init => IInv
<1> HAVE Init
<1>1. /\ flash = [s \in Segs |-> EmptySeg] /\ pc = "off"
      /\ seg = 0 /\ seq = 0 /\ wofs = 1 /\ map = {}
      /\ req = NoReq /\ old = 0
      /\ new = 0 /\ src = NoSeg /\ upto = 1 /\ ci = 0 /\ ret = "clear"
  BY DEF Init, RamInit
<1>2. flash \in FlashType /\ \A s \in Segs : flash[s] = EmptySeg
  BY <1>1, ContentTypes DEF FlashType
<1>3. TypeOK
  BY <1>1, <1>2 DEF TypeOK, FlashType, SegType, ItemType, Segs, Slots
<1>4. req \in ReqType /\ req.kind = "none"
  BY <1>1 DEF NoReq, ReqType
<1>5. ControlInv
  BY <1>1, <1>4 DEF ControlInv, Pcs, Purging
<1>6. SoundInv
  <2>1. Named(EmptySeg) /\ Unique(EmptySeg)
    BY ContentTypes DEF Named, Unique
  <2> QED BY <1>2, <2>1 DEF SoundInv
<1>7. RamInv /\ OldInv /\ DoneInv
  BY <1>1 DEF RamInv, OldInv, DoneInv
<1> QED BY <1>3, <1>5, <1>6, <1>7 DEF IInv

\* Steps that change nothing keep it.
LEMMA StutterInv == ASSUME IInv, UNCHANGED vars PROVE IInv'
<1> USE DEF vars
<1>1. TypeOK'
  BY DEF IInv, TypeOK
<1>2. ControlInv'
  BY DEF IInv, ControlInv
<1>3. SoundInv'
  BY DEF IInv, SoundInv
<1>4. RamInv'
  BY DEF IInv, RamInv
<1>5. OldInv' /\ DoneInv'
  BY DEF IInv, OldInv, DoneInv
<1> QED BY <1>1, <1>2, <1>3, <1>4, <1>5 DEF IInv

\* Every step keeps it.
LEMMA NextInv ==
    ASSUME "dup" \notin Windows, IInv, [Next]_vars
    PROVE  IInv'
<1>1. CASE Boot \/ SegScan \/ NewSegErase \/ NewSegHeader \/ CopyItem \/ CopyDone
  BY <1>1, BootInv, SegScanInv, NewSegEraseInv, NewSegHeaderInv, CopyItemInv, CopyDoneInv
<1>2. CASE RetireSeg \/ RegionClear \/ BootDone \/ WriteItemHeader \/ WriteItemData
  BY <1>2, RetireSegInv, RegionClearInv, BootDoneInv, WriteItemHeaderInv, WriteItemDataInv
<1>3. CASE ObsoleteOld \/ Return \/ ClearAll \/ WipeSeg \/ WipeDone \/ PowerFailure
  BY <1>3, ObsoleteOldInv, ReturnInv, ClearAllInv, WipeSegInv, WipeDoneInv, PowerFailureInv
<1>4. CASE \E k \in Keys : Delete(k) \/ \E v \in Vals : Set(k, v)
  BY <1>4, DeleteInv, SetInv
<1>5. CASE UNCHANGED vars
  BY <1>5, StutterInv
<1> QED BY <1>1, <1>2, <1>3, <1>4, <1>5 DEF Next

\* So it always holds.
LEMMA Inductive == "dup" \notin Windows => (Spec => []IInv)
<1> SUFFICES ASSUME "dup" \notin Windows PROVE Spec => []IInv
  OBVIOUS
<1>1. Init => IInv
  BY InitInv
<1>2. IInv /\ [Next]_vars => IInv'
  BY NextInv
<1> QED BY <1>1, <1>2, PTL DEF Spec

-----------------------------------------------------------------------------
(* The theorems.  The window they exclude is the one in which region_set   *)
(* has written the new item and not yet obsoleted the old: power failing   *)
(* there leaves two valid items of one key, which nvram_duplicate shows.   *)

\* Every variable of the region keeps its type, for any geometry.
THEOREM TypeCorrect == "dup" \notin Windows => (Spec => []TypeOK)
<1> SUFFICES ASSUME "dup" \notin Windows PROVE Spec => []TypeOK
  OBVIOUS
<1>1. IInv => TypeOK
  BY DEF IInv
<1> QED BY <1>1, Inductive, PTL

\* region_write_item always finds an erased slot inside the segment: the one
\* purge of region_prepare_write_item makes room for any set of keys that
\* satisfies CapacityAssumption, whatever power failures came before.
THEOREM AlwaysRoomForWrite == "dup" \notin Windows => (Spec => []RoomForWrite)
<1> SUFFICES ASSUME "dup" \notin Windows PROVE Spec => []RoomForWrite
  OBVIOUS
<1>1. IInv => RoomForWrite
  <2> SUFFICES ASSUME IInv, pc = "item"
               PROVE  wofs <= NSlot /\ flash[seg].slots[wofs].st = "empty"
    BY DEF RoomForWrite
  <2>1. wofs \in Slots /\ wofs <= NSlot
    BY DEF IInv, TypeOK, ControlInv, Slots
  <2>2. Clean(flash[seg], wofs)
    BY DEF IInv, RamInv
  <2> QED BY <2>1, <2>2 DEF Clean, Slots
<1> QED BY <1>1, Inductive, PTL

\* A set or delete that returns 0 is what the next get answers.
THEOREM SetAlwaysTakesEffect == "dup" \notin Windows => (Spec => []SetTakesEffect)
<1> SUFFICES ASSUME "dup" \notin Windows PROVE Spec => []SetTakesEffect
  OBVIOUS
<1>1. IInv => SetTakesEffect
  <2>1. region_get(req.key) = GetIn(flash[seg], map, req.key)
    BY FindHere, Zenon
  <2> QED BY <2>1 DEF IInv, DoneInv, SetTakesEffect
<1> QED BY <1>1, Inductive, PTL

-----------------------------------------------------------------------------
(* Sequence numbers: which segment region_scan would choose.  With few     *)
(* enough segments the signed difference of two of their numbers tells     *)
(* which one is newer, so the choice is the one with the youngest header.  *)

RingFits == NSeg - 1 <= (SeqMod - 1) \div 2

\* How many purges before segment c segment s was started, and the number
\* that lies d before q.
Age(s, c) == IF s <= c THEN c - s ELSE c - s + NSeg
Back(q, d) == IF d <= q THEN q - d ELSE q - d + SeqMod

\* The numbers of the valid headers of g count up, around the ring, to q at c.
LinedUp(g, c, q) == \A s \in Segs : g[s].hdr = "valid" => g[s].seq = Back(q, Age(s, c))

NoneValid(g) == \A s \in Segs : g[s].hdr # "valid"

\* A region that is started from scratch has no current segment yet.
Fresh == pc \in {"erase", "header"} /\ src = NoSeg

RingInv ==
    /\ pc = "off" => \E c \in Segs, q \in 0..(SeqMod - 1) : LinedUp(flash, c, q)
    /\ Fresh => NoneValid(flash)
    /\ pc # "off" /\ ~Fresh => LinedUp(flash, seg, seq)
    /\ pc \notin {"off", "wipe"} /\ ~Fresh => flash[seg].hdr = "valid"
    /\ pc = "wipe" => /\ ci <= NSeg
                      /\ ci <= seg => flash[seg].hdr = "valid"
                      /\ \A s \in Segs : s < ci => flash[s].hdr # "valid"

\* Erasing a segment, or tearing its header, keeps the others lined up.
LEMMA FewerHeaders ==
    ASSUME NEW f, NEW g, NEW c, NEW q, LinedUp(f, c, q),
           \A s \in Segs : g[s].hdr = "valid" => f[s].hdr = "valid" /\ g[s].seq = f[s].seq
    PROVE  LinedUp(g, c, q)
BY DEF LinedUp

\* Ages are different and less than the number of segments.
LEMMA AgeIs ==
    ASSUME NEW s \in Segs, NEW c \in Segs
    PROVE  /\ Age(s, c) \in 0..(NSeg - 1) /\ Age(c, c) = 0
           /\ s # c => Age(s, c) >= 1
BY DEF Age, Segs

\* The distance of two numbers that are d apart.
LEMMA Distance ==
    ASSUME NEW q \in 0..(SeqMod - 1), NEW d \in 1..(SeqMod - 1)
    PROVE  /\ (q - Back(q, d)) % SeqMod = d
           /\ (Back(q, d) - q) % SeqMod = SeqMod - d
<1>0. SeqMod \in Nat \ {0}
  OBVIOUS
<1>1. CASE d <= q
  <2>1. q - Back(q, d) = d /\ Back(q, d) - q = 0 - d
    BY <1>1 DEF Back
  <2>2. d \in 0..(SeqMod - 1) /\ (0 - d) \in (0 - SeqMod)..(0 - 1)
    OBVIOUS
  <2>3. d % SeqMod = d /\ (0 - d) % SeqMod = (0 - d) + SeqMod
    BY <1>0, <2>2, ModSmall, Zenon
  <2> QED BY <2>1, <2>3
<1>2. CASE d > q
  <2>1. q - Back(q, d) = d - SeqMod /\ Back(q, d) - q = SeqMod - d
    BY <1>2 DEF Back
  <2>2. (SeqMod - d) \in 0..(SeqMod - 1) /\ (d - SeqMod) \in (0 - SeqMod)..(0 - 1)
    OBVIOUS
  <2>3. (SeqMod - d) % SeqMod = SeqMod - d /\ (d - SeqMod) % SeqMod = (d - SeqMod) + SeqMod
    BY <1>0, <2>2, ModSmall, Zenon
  <2> QED BY <2>1, <2>3
<1> QED BY <1>1, <1>2

\* So of c and any other valid segment, c's number is newer and never older.
LEMMA Newest ==
    ASSUME RingFits, NEW q \in 0..(SeqMod - 1), NEW c \in Segs, NEW s \in Segs, s # c
    PROVE  /\ SeqNewer(q, Back(q, Age(s, c)))
           /\ ~SeqNewer(Back(q, Age(s, c)), q)
<1> DEFINE d == Age(s, c)
<1>1. d \in 1..(NSeg - 1)
  BY AgeIs
<1> HIDE DEF d
<1>2. d \in 1..((SeqMod - 1) \div 2) /\ d \in 1..(SeqMod - 1)
  BY <1>1 DEF RingFits
<1>3. (q - Back(q, d)) % SeqMod = d /\ (Back(q, d) - q) % SeqMod = SeqMod - d
  BY <1>2, Distance
<1>4. SeqMod - d \notin 1..((SeqMod - 1) \div 2)
  BY <1>2
<1> QED BY <1>2, <1>3, <1>4 DEF SeqNewer, d

\* region_scan picks the youngest valid header, wraps included: up to it the
\* loop holds an older one, after it none is newer.
LEMMA ScanPicks ==
    ASSUME RingFits, NEW c \in Segs, NEW q \in 0..(SeqMod - 1),
           LinedUp(flash, c, q), flash[c].hdr = "valid"
    PROVE  CurrentOnFlash = c
<1>1. flash[c].seq = q
  BY AgeIs DEF LinedUp, Back
<1>2. Scan[c + 1] = c
  <2>1. c \in 0..NSeg
    BY DEF Segs
  <2>2. Found(c)
    BY <2>1, ScanFound
  <2>3. CASE Scan[c] = NoSeg
    BY <2>3, ScanStep
  <2>4. CASE Scan[c] \in Segs /\ Scan[c] < c /\ flash[Scan[c]].hdr = "valid"
    <3>1. Scan[c] # c
      BY <2>4 DEF Segs
    <3>2. flash[Scan[c]].seq = Back(q, Age(Scan[c], c))
      BY <2>4 DEF LinedUp
    <3>3. SeqNewer(flash[c].seq, flash[Scan[c]].seq)
      BY <1>1, <2>4, <3>1, <3>2, Newest
    <3> QED BY <3>3, ScanStep
  <2> QED BY <2>2, <2>3, <2>4 DEF Found
<1> DEFINE T == {i \in (c + 1)..NSeg : Scan[i] # c}
<1>3. T = {}
  <2> SUFFICES ASSUME T # {} PROVE FALSE
    OBVIOUS
  <2>0. T \in SUBSET Nat
    BY DEF Segs
  <2>1. PICK n \in T : \A m \in T : n <= m
    BY <2>0, LeastExists, Zenon
  <2>2. n \in (c + 1)..NSeg /\ Scan[n] # c
    BY <2>1
  <2>3. n # c + 1
    BY <1>2, <2>2
  <2> DEFINE s == n - 1
  <2>4. s \in Segs /\ s + 1 = n /\ s # c /\ s \in (c + 1)..NSeg
    BY <2>2, <2>3 DEF Segs
  <2>5. ~(n <= s)
    BY <2>2
  <2>6. Scan[s] = c
    BY <2>1, <2>4, <2>5
  <2>7. Scan[n] = IF /\ flash[s].hdr = "valid"
                     /\ Scan[s] = NoSeg \/ SeqNewer(flash[s].seq, flash[Scan[s]].seq)
                  THEN s ELSE Scan[s]
    BY <2>4, ScanStep
  <2> HIDE DEF s
  <2>8. \/ flash[s].hdr = "valid" /\ SeqNewer(flash[s].seq, q)
        \/ Scan[s] = NoSeg
    BY <1>1, <2>2, <2>6, <2>7
  <2>9. c # NoSeg
    BY DEF Segs, NoSeg
  <2>10. flash[s].hdr = "valid" => flash[s].seq = Back(q, Age(s, c))
    BY <2>4 DEF LinedUp
  <2>11. ~SeqNewer(Back(q, Age(s, c)), q)
    BY <2>4, Newest
  <2> QED BY <2>6, <2>8, <2>9, <2>10, <2>11
<1>4. NSeg \in (c + 1)..NSeg
  BY DEF Segs
<1> HIDE DEF T
<1>5. NSeg \notin T
  BY <1>3
<1> QED BY <1>4, <1>5 DEF CurrentOnFlash, T

\* Counted from the youngest valid segment they are still lined up.
LEMMA Rebase ==
    ASSUME RingFits, NEW c \in Segs, NEW q \in 0..(SeqMod - 1), NEW b \in Segs,
           flash \in FlashType, LinedUp(flash, c, q), flash[b].hdr = "valid",
           \A s \in Segs : flash[s].hdr = "valid" => Age(b, c) <= Age(s, c)
    PROVE  LinedUp(flash, b, flash[b].seq)
<1> SUFFICES ASSUME NEW s \in Segs, flash[s].hdr = "valid"
             PROVE  flash[s].seq = Back(flash[b].seq, Age(s, b))
  BY DEF LinedUp
<1>1. /\ flash[s].seq = Back(q, Age(s, c)) /\ flash[b].seq = Back(q, Age(b, c))
      /\ Age(b, c) <= Age(s, c)
  BY DEF LinedUp
<1>2. Age(s, b) = Age(s, c) - Age(b, c)
  BY <1>1 DEF Age, Segs
<1>3. Age(s, c) \in 0..(NSeg - 1) /\ Age(b, c) \in 0..(NSeg - 1)
  BY AgeIs
<1>4. NSeg - 1 < SeqMod
  BY DEF RingFits
<1>5. Back(q, Age(s, c)) = Back(Back(q, Age(b, c)), Age(s, c) - Age(b, c))
  BY <1>1, <1>3, <1>4 DEF Back
<1> QED BY <1>1, <1>2, <1>5

\* What boot finds: nothing, or the youngest segment with the rest lined up.
LEMMA BootFinds ==
    ASSUME RingFits, flash \in FlashType,
           \E c \in Segs, q \in 0..(SeqMod - 1) : LinedUp(flash, c, q)
    PROVE  \/ CurrentOnFlash = NoSeg /\ NoneValid(flash)
           \/ /\ CurrentOnFlash \in Segs
              /\ flash[CurrentOnFlash].hdr = "valid"
              /\ LinedUp(flash, CurrentOnFlash, flash[CurrentOnFlash].seq)
<1>1. PICK c \in Segs, q \in 0..(SeqMod - 1) : LinedUp(flash, c, q)
  OBVIOUS
<1>2. CASE NoneValid(flash)
  BY <1>2, CurrentIs DEF NoneValid
<1>3. CASE ~NoneValid(flash)
  <2> DEFINE A == {Age(s, c) : s \in {t \in Segs : flash[t].hdr = "valid"}}
  <2>1. A \in SUBSET Nat
    BY AgeIs
  <2>2. A # {}
    BY <1>3 DEF NoneValid
  <2>3. PICK a \in A : \A y \in A : a <= y
    BY <2>1, <2>2, LeastExists, Zenon
  <2>4. PICK b \in Segs : flash[b].hdr = "valid" /\ a = Age(b, c)
    BY <2>3
  <2>5. \A s \in Segs : flash[s].hdr = "valid" => Age(b, c) <= Age(s, c)
    BY <2>3, <2>4
  <2> HIDE DEF A
  <2>6. LinedUp(flash, b, flash[b].seq)
    BY <1>1, <2>4, <2>5, Rebase
  <2>7. flash[b].seq \in 0..(SeqMod - 1)
    BY <2>4 DEF FlashType, SegType
  <2>8. CurrentOnFlash = b
    BY <2>4, <2>6, <2>7, ScanPicks
  <2> QED BY <2>4, <2>6, <2>8
<1> QED BY <1>2, <1>3

\* Writing an item leaves all headers alone.
LEMMA SlotOnly ==
    ASSUME flash \in FlashType, NEW s, NEW j, NEW x, NEW g,
           g = [flash EXCEPT ![s].slots[j] = x]
    PROVE  \A t \in Segs : g[t].hdr = flash[t].hdr /\ g[t].seq = flash[t].seq
<1> SUFFICES ASSUME NEW t \in Segs
             PROVE  g[t].hdr = flash[t].hdr /\ g[t].seq = flash[t].seq
  OBVIOUS
<1>1. flash[t] \in SegType
  BY DEF FlashType
<1>2. CASE t # s
  BY <1>2 DEF FlashType
<1>3. CASE t = s
  <2>1. g[t] = [flash[t] EXCEPT !.slots[j] = x]
    BY <1>3 DEF FlashType
  <2> QED BY <1>1, <2>1 DEF SegType
<1> QED BY <1>2, <1>3

HeadersKept == \A s \in Segs : flash'[s].hdr = flash[s].hdr /\ flash'[s].seq = flash[s].seq

\* What is done to items leaves the headers alone.
LEMMA ItemSteps ==
    ASSUME IInv,
           \/ Boot \/ SegScan \/ CopyItem \/ CopyDone \/ BootDone \/ WriteItemHeader
           \/ WriteItemData \/ ObsoleteOld \/ Return \/ ClearAll \/ WipeDone
           \/ \E k \in Keys : Delete(k) \/ \E v \in Vals : Set(k, v)
    PROVE  HeadersKept
<1>1. flash \in FlashType
  BY TypeFacts DEF IInv
<1>2. CASE flash' = flash
  BY <1>2 DEF HeadersKept
<1>3. CASE \E s, j, x : flash' = [flash EXCEPT ![s].slots[j] = x]
  BY <1>1, <1>3, SlotOnly DEF HeadersKept
<1>4. CASE SegScan
  BY <1>2, <1>3, <1>4 DEF SegScan, ObsoleteItem
<1>5. CASE CopyItem
  BY <1>2, <1>3, <1>5 DEF CopyItem, Program
<1>6. CASE WriteItemHeader
  BY <1>3, <1>6 DEF WriteItemHeader, Program
<1>7. CASE WriteItemData
  BY <1>3, <1>7 DEF WriteItemData
<1>8. CASE ObsoleteOld
  BY <1>3, <1>8 DEF ObsoleteOld, ObsoleteItem
<1>9. CASE Boot \/ CopyDone \/ BootDone \/ Return \/ ClearAll \/ WipeDone
  BY <1>2, <1>9 DEF Boot, CopyDone, BootDone, Return, ClearAll, WipeDone
<1>10. CASE \E k \in Keys : Delete(k) \/ \E v \in Vals : Set(k, v)
  BY <1>2, <1>10 DEF Delete, Set
<1> QED BY <1>4, <1>5, <1>6, <1>7, <1>8, <1>9, <1>10

\* And with them the order of the segments.
LEMMA KeptLined ==
    ASSUME HeadersKept
    PROVE  /\ \A c, q : LinedUp(flash, c, q) => LinedUp(flash', c, q)
           /\ NoneValid(flash) => NoneValid(flash')
BY DEF HeadersKept, LinedUp, NoneValid

\* The steps of calls that keep the current segment and leave headers alone.
LEMMA CallRing ==
    ASSUME IInv, RingInv,
           \/ SegScan \/ CopyItem \/ CopyDone \/ BootDone \/ WriteItemHeader
           \/ WriteItemData \/ ObsoleteOld \/ Return
           \/ \E k \in Keys : Delete(k) \/ \E v \in Vals : Set(k, v)
    PROVE  RingInv'
<1>1. HeadersKept
  BY ItemSteps
<1>2. /\ pc \notin {"off", "wipe", "erase", "header"} /\ pc' \notin {"off", "wipe"}
      /\ UNCHANGED <<seg, seq>>
      /\ pc' \in {"erase", "header"} => src' # NoSeg
  <2>0. seg # NoSeg
    BY DEF IInv, TypeOK, Segs, NoSeg
  <2>1. CASE SegScan
    BY <2>0, <2>1 DEF SegScan
  <2>2. CASE CopyItem \/ CopyDone \/ BootDone
    BY <2>2 DEF CopyItem, CopyDone, BootDone, ram
  <2>3. CASE WriteItemHeader \/ WriteItemData \/ ObsoleteOld \/ Return
    BY <2>3 DEF WriteItemHeader, WriteItemData, ObsoleteOld, Return, ram
  <2>4. CASE \E k \in Keys : Delete(k) \/ \E v \in Vals : Set(k, v)
    BY <2>0, <2>4 DEF Delete, Set, ram
  <2> QED BY <2>1, <2>2, <2>3, <2>4
<1>3. LinedUp(flash, seg, seq) /\ flash[seg].hdr = "valid" /\ ~Fresh'
  BY <1>2 DEF RingInv, Fresh
<1>4. LinedUp(flash', seg', seq') /\ flash'[seg'].hdr = "valid"
  <2>1. seg \in Segs
    BY DEF IInv, TypeOK
  <2> QED BY <1>1, <1>2, <1>3, <2>1, KeptLined DEF HeadersKept
<1> QED BY <1>2, <1>3, <1>4 DEF RingInv

\* The segment region_scan picks is the youngest.
LEMMA BootRing == ASSUME RingFits, IInv, RingInv, Boot PROVE RingInv'
<1>1. flash \in FlashType /\ pc = "off" /\ flash' = flash /\ src' = NoSeg
  BY TypeFacts DEF IInv, Boot
<1>2. \/ CurrentOnFlash = NoSeg /\ NoneValid(flash)
      \/ /\ CurrentOnFlash \in Segs
         /\ flash[CurrentOnFlash].hdr = "valid"
         /\ LinedUp(flash, CurrentOnFlash, flash[CurrentOnFlash].seq)
  BY <1>1, BootFinds DEF RingInv
<1>3. CASE CurrentOnFlash = NoSeg
  <2>1. NoneValid(flash) /\ pc' = "erase"
    BY <1>2, <1>3 DEF Boot, Segs, NoSeg
  <2> QED BY <1>1, <2>1 DEF RingInv, Fresh
<1>4. CASE CurrentOnFlash # NoSeg
  <2>1. pc' = "scan" /\ seg' = CurrentOnFlash /\ seq' = flash[CurrentOnFlash].seq
    BY <1>4 DEF Boot
  <2> HIDE DEF CurrentOnFlash
  <2> QED BY <1>1, <1>2, <1>4, <2>1 DEF RingInv, Fresh
<1> QED BY <1>3, <1>4

\* Erasing the segment next to be used keeps the order of the others.
LEMMA EraseRing == ASSUME IInv, RingInv, NewSegErase PROVE RingInv'
<1>1. /\ pc = "erase" /\ pc' = "header" /\ flash' = [flash EXCEPT ![new] = EmptySeg]
      /\ UNCHANGED <<seg, seq, src, ci>>
  BY DEF NewSegErase, Erased, ram, purgeVars
<1>2. new \in Segs /\ seg \in Segs
  BY TypeFacts DEF IInv
<1>3. Swap(flash', new, EmptySeg) /\ EmptySeg.hdr = "empty"
  BY <1>1, <1>2, TypeFacts, SwapIs, ContentTypes DEF IInv, EmptySeg
<1>4. \A s \in Segs : flash'[s].hdr = "valid" => flash'[s] = flash[s]
  BY <1>3 DEF Swap
<1>5. CASE src = NoSeg
  <2>1. NoneValid(flash')
    BY <1>1, <1>4, <1>5 DEF RingInv, Fresh, NoneValid
  <2> QED BY <1>1, <1>5, <2>1 DEF RingInv, Fresh
<1>6. CASE src # NoSeg
  <2>1. seg # new /\ LinedUp(flash, seg, seq) /\ flash[seg].hdr = "valid"
    BY <1>1, <1>2, <1>6, NextSegIs DEF RingInv, Fresh, IInv, ControlInv
  <2>2. LinedUp(flash', seg, seq) /\ flash'[seg].hdr = "valid"
    BY <1>2, <1>3, <1>4, <2>1, FewerHeaders DEF Swap
  <2> QED BY <1>1, <1>6, <2>2 DEF RingInv, Fresh
<1> QED BY <1>5, <1>6

\* The new header is the youngest, one step ahead in ring and number.
LEMMA HeaderRing == ASSUME RingFits, IInv, RingInv, NewSegHeader PROVE RingInv'
<1> DEFINE n == (seq + 1) % SeqMod
<1>1. /\ pc = "header"
      /\ flash' = [flash EXCEPT ![new].hdr = IF @ = "empty" THEN "valid" ELSE "bad",
                                ![new].seq = n]
      /\ seg' = new /\ seq' = n
      /\ pc' = (IF src = NoSeg THEN ret ELSE "copy")
      /\ UNCHANGED <<new, src>>
  BY DEF NewSegHeader
<1>2. new \in Segs /\ seg \in Segs /\ flash \in FlashType /\ seq \in 0..(SeqMod - 1)
  BY TypeFacts DEF IInv, TypeOK
<1>3. flash[new] = EmptySeg /\ EmptySeg.hdr = "empty" /\ EmptySeg.seq = 0
  BY <1>1 DEF IInv, RamInv, EmptySeg
<1>4. n = (IF seq = SeqMod - 1 THEN 0 ELSE seq + 1) /\ n \in 0..(SeqMod - 1)
  BY <1>2
<1> HIDE DEF n
<1>5. /\ \A s \in Segs \ {new} : flash'[s] = flash[s]
      /\ flash'[new].hdr = "valid" /\ flash'[new].seq = n
  <2>1. flash[new] \in SegType
    BY <1>2 DEF FlashType
  <2> QED BY <1>1, <1>2, <1>3, <2>1 DEF FlashType, SegType
<1>6. LinedUp(flash', new, n)
  <2> SUFFICES ASSUME NEW s \in Segs, flash'[s].hdr = "valid"
               PROVE  flash'[s].seq = Back(n, Age(s, new))
    BY DEF LinedUp
  <2>1. CASE s = new
    <3>1. Age(s, new) = 0
      BY <1>2, <2>1, AgeIs
    <3> QED BY <1>4, <1>5, <2>1, <3>1 DEF Back
  <2>2. CASE s # new
    <3>1. flash[s].hdr = "valid" /\ flash'[s].seq = flash[s].seq
      BY <1>5, <2>2
    <3>2. src # NoSeg /\ new = NextSeg(seg)
      BY <1>1, <3>1 DEF RingInv, Fresh, NoneValid, IInv, ControlInv
    <3>3. flash[s].seq = Back(seq, Age(s, seg))
      BY <1>1, <3>1, <3>2 DEF RingInv, Fresh, LinedUp
    <3>4. Age(s, new) = Age(s, seg) + 1
      BY <1>2, <2>2, <3>2 DEF Age, NextSeg, Segs
    <3>5. Age(s, new) \in 0..(NSeg - 1) /\ NSeg - 1 < SeqMod
      BY <1>2, AgeIs DEF RingFits
    <3>6. Age(s, seg) \in 0..(NSeg - 1)
      BY <1>2, AgeIs
    <3>7. Back(n, Age(s, seg) + 1) = Back(seq, Age(s, seg))
      BY <1>2, <1>4, <3>4, <3>5, <3>6 DEF Back
    <3> QED BY <3>1, <3>3, <3>4, <3>7
  <2> QED BY <2>1, <2>2
<1>7. pc' \in {"clear", "done", "copy"}
  BY <1>1 DEF IInv, ControlInv
<1> QED BY <1>1, <1>5, <1>6, <1>7 DEF RingInv, Fresh

\* A segment that is no longer valid may be anywhere.
LEMMA RetireRing == ASSUME IInv, RingInv, RetireSeg PROVE RingInv'
<1>1. /\ pc = "retire" /\ flash' = [flash EXCEPT ![src].hdr = "obsolete"] /\ pc' = ret
      /\ UNCHANGED <<seg, seq>>
  BY DEF RetireSeg, ram
<1>2. src \in Segs /\ seg \in Segs /\ src # seg /\ flash \in FlashType /\ pc' \in {"clear", "item"}
  BY <1>1, TypeFacts DEF IInv, ControlInv, Segs, NoSeg
<1>3. flash[src] \in SegType
  BY <1>2 DEF FlashType
<1>4. \A s \in Segs : flash'[s].hdr = "valid" => flash'[s] = flash[s]
  BY <1>1, <1>2, <1>3 DEF FlashType, SegType
<1>5. flash'[seg] = flash[seg]
  BY <1>1, <1>2 DEF FlashType
<1>6. LinedUp(flash, seg, seq) /\ flash[seg].hdr = "valid"
  BY <1>1 DEF RingInv, Fresh
<1>7. LinedUp(flash', seg, seq)
  BY <1>4, <1>6, FewerHeaders
<1> QED BY <1>1, <1>2, <1>5, <1>6, <1>7 DEF RingInv, Fresh

\* So may one that is erased.
LEMMA ClearRing == ASSUME IInv, RingInv, RegionClear PROVE RingInv'
<1> DEFINE t == (seg + ci) % NSeg
<1>1. /\ pc = "clear" /\ ci <= ClearCount /\ flash' = [flash EXCEPT ![t] = EmptySeg]
      /\ UNCHANGED <<seg, seq, pc, src>>
  BY DEF RegionClear, Erased, ram
<1>2. seg \in Segs /\ flash \in FlashType
  BY TypeFacts DEF IInv
<1>3. ci \in 1..ClearCount
  BY <1>1 DEF IInv, TypeOK, ControlInv, ClearCount
<1>4. t \in Segs /\ t # seg
  BY <1>2, <1>3, ClearedSeg
<1> HIDE DEF t
<1>5. Swap(flash', t, EmptySeg) /\ EmptySeg.hdr = "empty"
  BY <1>1, <1>2, <1>4, SwapIs, ContentTypes DEF EmptySeg
<1>6. /\ \A s \in Segs : flash'[s].hdr = "valid" => flash'[s] = flash[s]
      /\ flash'[seg] = flash[seg]
  BY <1>2, <1>4, <1>5 DEF Swap
<1>7. LinedUp(flash, seg, seq) /\ flash[seg].hdr = "valid"
  BY <1>1 DEF RingInv, Fresh
<1>8. LinedUp(flash', seg, seq)
  BY <1>6, <1>7, FewerHeaders
<1> QED BY <1>1, <1>6, <1>7, <1>8 DEF RingInv, Fresh

\* nvram_config_clear_all begins with the order as it is.
LEMMA ClearAllRing == ASSUME IInv, RingInv, ClearAll PROVE RingInv'
<1>1. pc = "idle" /\ pc' = "wipe" /\ ci' = 0 /\ UNCHANGED <<flash, seg, seq>>
  BY DEF ClearAll, ram
<1>2. LinedUp(flash, seg, seq) /\ flash[seg].hdr = "valid"
  BY <1>1 DEF RingInv, Fresh
<1>3. \A s \in Segs : ~(s < 0)
  BY DEF Segs
<1> QED BY <1>1, <1>2, <1>3 DEF RingInv, Fresh

\* The segments not yet wiped keep their order.
LEMMA WipeSegRing == ASSUME IInv, RingInv, WipeSeg PROVE RingInv'
<1>1. /\ pc = "wipe" /\ pc' = "wipe" /\ ci < NSeg /\ flash' = [flash EXCEPT ![ci] = EmptySeg]
      /\ ci' = ci + 1 /\ UNCHANGED <<seg, seq>>
  BY DEF WipeSeg, Erased, ram
<1>2. ci \in Segs /\ seg \in Segs /\ flash \in FlashType
  BY <1>1, TypeFacts DEF IInv, TypeOK, Segs
<1>3. Swap(flash', ci, EmptySeg) /\ EmptySeg.hdr = "empty"
  BY <1>1, <1>2, SwapIs, ContentTypes DEF EmptySeg
<1>4. \A s \in Segs : flash'[s].hdr = "valid" => s # ci /\ flash'[s] = flash[s]
  BY <1>3 DEF Swap
<1>5. LinedUp(flash, seg, seq)
  BY <1>1 DEF RingInv, Fresh
<1>6. LinedUp(flash', seg, seq)
  BY <1>4, <1>5, FewerHeaders
<1>7. \A s \in Segs : s < ci' => flash'[s].hdr # "valid"
  <2> SUFFICES ASSUME NEW s \in Segs, s < ci', flash'[s].hdr = "valid" PROVE FALSE
    OBVIOUS
  <2>1. s # ci /\ flash[s].hdr = "valid"
    BY <1>4
  <2>2. s < ci
    BY <1>1, <1>2, <2>1 DEF Segs
  <2> QED BY <1>1, <2>1, <2>2 DEF RingInv
<1>8. ci' <= seg => flash'[seg].hdr = "valid"
  <2> HAVE ci' <= seg
  <2>1. seg # ci /\ ci <= seg
    BY <1>1, <1>2 DEF Segs
  <2> QED BY <1>1, <1>2, <1>3, <2>1 DEF RingInv, Swap
<1>9. ci' <= NSeg
  BY <1>1, <1>2 DEF Segs
<1> QED BY <1>1, <1>6, <1>7, <1>8, <1>9 DEF RingInv, Fresh

\* When all are wiped none is valid.
LEMMA WipeDoneRing == ASSUME IInv, RingInv, WipeDone PROVE RingInv'
<1>1. pc = "wipe" /\ ci = NSeg /\ pc' = "erase" /\ src' = NoSeg /\ UNCHANGED flash
  BY DEF WipeDone
<1>2. \A s \in Segs : s < NSeg
  BY DEF Segs
<1>3. NoneValid(flash)
  BY <1>1, <1>2 DEF RingInv, NoneValid
<1> QED BY <1>1, <1>3 DEF RingInv, Fresh

\* A failure inside an operation destroys headers and makes none.
LEMMA TornHeaders ==
    ASSUME IInv, NEW g \in {flash} \cup TornFlash
    PROVE  \A s \in Segs : g[s].hdr = "valid" =>
              flash[s].hdr = "valid" /\ g[s].seq = flash[s].seq
<1> DEFINE Safe == \A s \in Segs : g[s].hdr = "valid" =>
                      flash[s].hdr = "valid" /\ g[s].seq = flash[s].seq
<1>1. flash \in FlashType /\ GarbageSeg.hdr = "bad"
  BY TypeFacts DEF IInv, GarbageSeg
<1>2. CASE g = flash
  BY <1>2
<1>3. ASSUME NEW t, g = [flash EXCEPT ![t] = GarbageSeg] PROVE Safe
  BY <1>1, <1>3 DEF FlashType
<1>4. ASSUME NEW t, NEW j, NEW x, g = [flash EXCEPT ![t].slots[j] = x] PROVE Safe
  BY <1>1, <1>4, SlotOnly
<1>5. ASSUME NEW t, g = [flash EXCEPT ![t].hdr = "bad"] PROVE Safe
  <2>1. \A s \in Segs : flash[s] \in SegType
    BY <1>1 DEF FlashType
  <2> QED BY <1>1, <1>5, <2>1 DEF FlashType, SegType
<1>6. CASE g \in TornFlash
  <2>1. CASE pc = "erase" \/ pc = "wipe" \/ pc = "clear"
    BY <1>3, <1>6, <2>1 DEF TornFlash
  <2>2. CASE pc = "header"
    BY <1>5, <1>6, <2>2 DEF TornFlash
  <2>3. CASE pc = "item" \/ pc = "copy"
    <3>1. ASSUME NEW t, NEW j, NEW x, g = Program(t, j, x) PROVE Safe
      BY <1>4, <3>1 DEF Program
    <3>2. \E t, j, x : g = Program(t, j, x)
      BY <1>6, <2>3 DEF TornFlash
    <3> QED BY <3>1, <3>2
  <2> QED BY <1>6, <2>1, <2>2, <2>3 DEF TornFlash
<1> QED BY <1>2, <1>6

\* A torn operation changes no valid header but its own.
LEMMA FailureRing == ASSUME IInv, RingInv, PowerFailure PROVE RingInv'
<1>1. pc # "off" /\ pc' = "off" /\ flash' \in {flash} \cup TornFlash
  BY DEF PowerFailure
<1>2. \A s \in Segs : flash'[s].hdr = "valid" =>
          flash[s].hdr = "valid" /\ flash'[s].seq = flash[s].seq
  BY <1>1, TornHeaders
<1>3. seg \in Segs /\ seq \in 0..(SeqMod - 1)
  BY DEF IInv, TypeOK
<1>4. LinedUp(flash, seg, seq)
  BY <1>1 DEF RingInv, NoneValid, LinedUp
<1>5. LinedUp(flash', seg, seq)
  BY <1>2, <1>4, FewerHeaders
<1> QED BY <1>1, <1>3, <1>5 DEF RingInv, Fresh

\* Every step keeps the order.
LEMMA NextRing == ASSUME RingFits, IInv, RingInv, [Next]_vars PROVE RingInv'
<1>1. CASE \/ SegScan \/ CopyItem \/ CopyDone \/ BootDone \/ WriteItemHeader
           \/ WriteItemData \/ ObsoleteOld \/ Return
           \/ \E k \in Keys : Delete(k) \/ \E v \in Vals : Set(k, v)
  BY <1>1, CallRing
<1>2. CASE Boot \/ NewSegErase \/ NewSegHeader \/ RetireSeg \/ RegionClear
  BY <1>2, BootRing, EraseRing, HeaderRing, RetireRing, ClearRing
<1>3. CASE ClearAll \/ WipeSeg \/ WipeDone \/ PowerFailure
  BY <1>3, ClearAllRing, WipeSegRing, WipeDoneRing, FailureRing
<1>4. CASE UNCHANGED vars
  BY <1>4 DEF RingInv, Fresh, vars
<1> QED BY <1>1, <1>2, <1>3, <1>4 DEF Next

\* An erased region is in order.
LEMMA InitRing == Init => RingInv
<1> HAVE Init
<1>1. /\ flash = [s \in Segs |-> EmptySeg] /\ pc = "off" /\ EmptySeg.hdr = "empty"
  BY DEF Init, EmptySeg
<1>2. LinedUp(flash, 0, 0) /\ 0 \in Segs /\ 0 \in 0..(SeqMod - 1)
  BY <1>1 DEF LinedUp, Segs
<1> QED BY <1>1, <1>2 DEF RingInv, Fresh

\* So the order always holds.
LEMMA RingInductive ==
    ASSUME "dup" \notin Windows, RingFits PROVE Spec => [](IInv /\ RingInv)
<1>1. Init => IInv /\ RingInv
  BY InitInv, InitRing
<1>2. IInv /\ RingInv /\ [Next]_vars => (IInv /\ RingInv)'
  BY NextInv, NextRing
<1> QED BY <1>1, <1>2, PTL DEF Spec

\* The segment the RAM works on is the one a boot would choose.
LEMMA CurrentIsSeg ==
    ASSUME RingFits, IInv, RingInv, pc \notin {"off", "wipe"}, ~Fresh
    PROVE  CurrentOnFlash = seg
<1>1. seg \in Segs /\ seq \in 0..(SeqMod - 1)
  BY DEF IInv, TypeOK
<1>2. LinedUp(flash, seg, seq) /\ flash[seg].hdr = "valid"
  BY DEF RingInv
<1> QED BY <1>1, <1>2, ScanPicks

\* Between calls the bitmap, the write offset and the current segment in RAM
\* are what a scan of the flash would find.  The number of segments must be
\* at most half of the sequence numbers, as (int8_t) in region_scan needs.
THEOREM BitmapAlwaysExact ==
    ASSUME "dup" \notin Windows, RingFits PROVE Spec => []BitmapExact
<1>1. IInv /\ RingInv => BitmapExact
  <2> SUFFICES ASSUME IInv, RingInv, pc = "idle"
               PROVE  /\ map = {j \in Slots : flash[seg].slots[j].st = "valid"}
                      /\ \A j \in wofs..NSlot : flash[seg].slots[j].st = "empty"
                      /\ seg = CurrentOnFlash
    BY DEF BitmapExact
  <2>1. map = ValidIn(flash[seg]) /\ Clean(flash[seg], wofs)
    BY DEF IInv, RamInv
  <2>2. wofs \in 1..(NSlot + 1)
    BY DEF IInv, TypeOK
  <2>3. \A j \in wofs..NSlot : flash[seg].slots[j].st = "empty"
    BY <2>1, <2>2 DEF Clean, Slots
  <2>4. seg = CurrentOnFlash
    BY CurrentIsSeg DEF Fresh
  <2> QED BY <2>1, <2>3, <2>4 DEF ValidIn
<1> QED BY <1>1, RingInductive, PTL

-----------------------------------------------------------------------------
(* The contents of the store, and what the refinement needs to know: valid *)
(* items lie before anything that is not intact, so a scan finds them all; *)
(* a purge has copied all of the items it has passed; requests.            *)

Prefixed(r) ==
    \A i, j \in Slots : i < j /\ r.slots[j].st = "valid" => r.slots[i].st \in Intact

PrefixInv == \A s \in Segs : Prefixed(flash[s])

CopiedInv ==
    /\ src # NoSeg => \A j \in ValidIn(flash[src]) : j < upto
    /\ pc = "copy" =>
          \A i \in 1..(ci - 1) : flash[src].slots[i].st = "valid" =>
              \E j \in 1..(wofs - 1) : flash[seg].slots[j] = flash[src].slots[i]

CallInv ==
    /\ pc \in {"off", "scan", "clear", "idle"} => req = NoReq
    /\ pc \in Purging /\ ret = "clear" => req = NoReq
    /\ pc = "done" => req.kind \in {"set", "clear"}
    /\ pc = "done" /\ req.kind = "clear" => ValidIn(flash[seg]) = {}

\* Nothing new is valid and nothing intact is damaged.
LEMMA StillPrefixed ==
    ASSUME NEW r, NEW q, Prefixed(r),
           \A j \in Slots : q.slots[j].st = "valid" => r.slots[j].st = "valid",
           \A j \in Slots : r.slots[j].st \in Intact => q.slots[j].st \in Intact
    PROVE  Prefixed(q)
BY DEF Prefixed

\* Everything below w is intact and nothing from there on is valid.
LEMMA CutPrefixed ==
    ASSUME NEW r, NEW w \in Int,
           \A j \in Slots : j < w => r.slots[j].st \in Intact,
           \A j \in Slots : j >= w => r.slots[j].st # "valid"
    PROVE  Prefixed(r)
<1> SUFFICES ASSUME NEW i \in Slots, NEW j \in Slots, i < j, r.slots[j].st = "valid"
             PROVE  r.slots[i].st \in Intact
  BY DEF Prefixed
<1>1. j < w
  BY DEF Slots
<1>2. i < w
  BY <1>1 DEF Slots
<1> QED BY <1>2

\* Erased and garbled segments have no valid items.
LEMMA EmptyPrefixed == Prefixed(EmptySeg) /\ Prefixed(GarbageSeg)
BY ContentTypes DEF Prefixed

\* The steps of a call or of the copy change the current segment only.
LEMMA SegOnly ==
    ASSUME IInv, CopyItem \/ WriteItemHeader \/ WriteItemData \/ ObsoleteOld
    PROVE  seg' = seg /\ \A s \in Segs \ {seg} : flash'[s] = flash[s]
<1>1. flash \in FlashType
  BY TypeFacts DEF IInv
<1>2. ASSUME NEW j, NEW x, flash' = [flash EXCEPT ![seg].slots[j] = x]
      PROVE  \A s \in Segs \ {seg} : flash'[s] = flash[s]
  BY <1>1, <1>2 DEF FlashType
<1>3. CASE CopyItem
  <2>1. new = seg /\ seg' = seg
    BY <1>3 DEF CopyItem, IInv, ControlInv
  <2> QED BY <1>2, <1>3, <2>1 DEF CopyItem, Program
<1>4. CASE WriteItemHeader
  BY <1>2, <1>4 DEF WriteItemHeader, Program, ram
<1>5. CASE WriteItemData
  BY <1>2, <1>5 DEF WriteItemData
<1>6. CASE ObsoleteOld
  BY <1>2, <1>6 DEF ObsoleteOld, ObsoleteItem
<1> QED BY <1>3, <1>4, <1>5, <1>6

\* Items are written behind the intact ones.
LEMMA WritePrefix ==
    ASSUME IInv, IInv', PrefixInv,
           CopyItem \/ WriteItemHeader \/ WriteItemData \/ ObsoleteOld
    PROVE  PrefixInv'
<1>1. seg' = seg /\ \A s \in Segs \ {seg} : flash'[s] = flash[s]
  BY SegOnly
<1>2. wofs' \in Int
  BY DEF IInv, TypeOK
<1>3. CASE pc' = "copy"
  <2>1. Full(flash'[seg'], wofs')
    BY <1>3 DEF IInv, RamInv
  <2>2. /\ \A j \in Slots : j < wofs' => flash'[seg'].slots[j].st \in Intact
        /\ \A j \in Slots : j >= wofs' => flash'[seg'].slots[j].st # "valid"
    BY <1>2, <2>1 DEF Full, Intact, Slots
  <2>3. Prefixed(flash'[seg'])
    BY <1>2, <2>2, CutPrefixed
  <2> QED BY <1>1, <2>3 DEF PrefixInv
<1>4. CASE pc' = "data"
  <2>1. \A j \in Slots : /\ j < wofs' => flash'[seg'].slots[j].st \in Intact
                         /\ j = wofs' => flash'[seg'].slots[j].st = "nocrc"
                         /\ j > wofs' => flash'[seg'].slots[j].st = "empty"
    BY <1>4 DEF IInv, RamInv
  <2>2. \A j \in Slots : j >= wofs' => flash'[seg'].slots[j].st # "valid"
    BY <1>2, <2>1 DEF Slots
  <2>3. Prefixed(flash'[seg'])
    BY <1>2, <2>1, <2>2, CutPrefixed
  <2> QED BY <1>1, <2>3 DEF PrefixInv
<1>5. CASE pc' \in {"obsolete", "done"}
  <2>1. Clean(flash'[seg'], wofs')
    BY <1>5 DEF IInv, RamInv
  <2>2. \A j \in Slots : j \in Int
    BY DEF Slots
  <2>3. Prefixed(flash'[seg'])
    BY <1>2, <2>1, <2>2, CutPrefixed DEF Clean
  <2> QED BY <1>1, <2>3 DEF PrefixInv
<1>6. pc' \in {"copy", "data", "obsolete", "done"}
  BY DEF CopyItem, WriteItemHeader, WriteItemData, ObsoleteOld
<1> QED BY <1>3, <1>4, <1>5, <1>6

\* The obsolete mark written for a damaged item makes no item valid.
LEMMA SegScanPrefix == ASSUME IInv, PrefixInv, SegScan PROVE PrefixInv'
<1> DEFINE end == ScanEnd(seg)
<1>1. flash \in FlashType /\ 0 \in Segs /\ seg \in Segs
  BY TypeFacts DEF IInv, Segs
<1>2. CASE flash' = flash
  BY <1>2 DEF PrefixInv
<1>3. CASE end <= NSlot /\ flash' = ObsoleteItem(0, end)
  <2>1. end \in Slots
    BY <1>1, <1>3, ScanEndIs
  <2> HIDE DEF end
  <2> DEFINE x == IF flash[0].slots[end].st \in {"valid", "nocrc", "obsolete"}
                  THEN ObsoletedItem ELSE BadItem
  <2>2. x \in ItemType /\ x.st # "valid"
    BY ContentTypes DEF ObsoletedItem, BadItem, Item
  <2>3. flash[0].slots[end].st \in Intact => x.st \in Intact
    BY DEF ObsoletedItem, Item, Intact
  <2>4. flash' = [flash EXCEPT ![0].slots[end] = x]
    BY <1>3 DEF ObsoleteItem
  <2> HIDE DEF x
  <2>5. Put(flash', 0, end, x)
    BY <1>1, <2>1, <2>2, <2>4, PutIs
  <2>6. Prefixed(flash[0])
    BY <1>1 DEF PrefixInv
  <2>7. Prefixed(flash'[0])
    BY <2>2, <2>3, <2>5, <2>6, StillPrefixed DEF Put
  <2> QED BY <2>5, <2>7 DEF PrefixInv, Put
<1> QED BY <1>2, <1>3 DEF SegScan

\* An erase empties one segment.
LEMMA EraseIs ==
    ASSUME flash \in FlashType, NEW t \in Segs, flash' = [flash EXCEPT ![t] = EmptySeg]
    PROVE  flash'[t] = EmptySeg /\ \A s \in Segs \ {t} : flash'[s] = flash[s]
BY DEF FlashType

\* Steps on headers and whole segments leave the items' order alone.
LEMMA ErasePrefix ==
    ASSUME IInv, PrefixInv, NewSegErase \/ NewSegHeader \/ RetireSeg \/ RegionClear \/ WipeSeg
    PROVE  PrefixInv'
<1>1. flash \in FlashType /\ new \in Segs /\ seg \in Segs
  BY TypeFacts DEF IInv
<1>2. ASSUME NEW t \in Segs, flash' = [flash EXCEPT ![t] = EmptySeg] PROVE PrefixInv'
  BY <1>1, <1>2, EraseIs, EmptyPrefixed DEF PrefixInv
<1>3. CASE NewSegErase
  BY <1>1, <1>2, <1>3 DEF NewSegErase, Erased
<1>4. CASE RegionClear
  <2>1. ci \in 1..ClearCount
    BY <1>4 DEF RegionClear, IInv, TypeOK, ControlInv, ClearCount
  <2>2. (seg + ci) % NSeg \in Segs
    BY <1>1, <2>1, ClearedSeg
  <2> QED BY <1>2, <1>4, <2>2 DEF RegionClear, Erased
<1>5. CASE WipeSeg
  <2>1. ci \in Segs
    BY <1>5 DEF WipeSeg, IInv, TypeOK, Segs
  <2> QED BY <1>2, <1>5, <2>1 DEF WipeSeg, Erased
<1>6. CASE NewSegHeader \/ RetireSeg
  <2>1. \A s \in Segs : flash'[s].slots = flash[s].slots
    <3>1. \A s \in Segs : flash[s] \in SegType
      BY <1>1 DEF FlashType
    <3>2. CASE NewSegHeader
      BY <1>1, <3>1, <3>2 DEF NewSegHeader, FlashType, SegType
    <3>3. CASE RetireSeg
      BY <1>1, <3>1, <3>3 DEF RetireSeg, FlashType, SegType
    <3> QED BY <1>6, <3>2, <3>3
  <2> QED BY <2>1 DEF PrefixInv, Prefixed
<1> QED BY <1>3, <1>4, <1>5, <1>6

\* What a power failure leaves of the valid items: all of them, unless it
\* happens in the erasure of their segment.
LEMMA TornItems ==
    ASSUME IInv, NEW g \in {flash} \cup TornFlash, NEW s \in Segs
    PROVE  \/ g[s].hdr # "valid" /\ \A j \in Slots : g[s].slots[j].st = "bad"
           \/ \A j \in Slots :
                 \/ g[s].slots[j] = flash[s].slots[j]
                 \/ flash[s].slots[j].st = "empty" /\ g[s].slots[j].st \in {"bad", "nocrc"}
<1> DEFINE Gone == g[s].hdr # "valid" /\ \A j \in Slots : g[s].slots[j].st = "bad"
           Kept == \A j \in Slots :
                      \/ g[s].slots[j] = flash[s].slots[j]
                      \/ /\ flash[s].slots[j].st = "empty"
                         /\ g[s].slots[j].st \in {"bad", "nocrc"}
<1>1. flash \in FlashType /\ seg \in Segs /\ new \in Segs
  BY TypeFacts DEF IInv
<1>2. CASE g = flash
  BY <1>2
<1>3. ASSUME NEW t, g = [flash EXCEPT ![t] = GarbageSeg] PROVE Gone \/ Kept
  <2>1. GarbageSeg.hdr = "bad" /\ \A j \in Slots : GarbageSeg.slots[j].st = "bad"
    BY ContentTypes DEF GarbageSeg
  <2>2. CASE t = s
    BY <1>1, <1>3, <2>1, <2>2 DEF FlashType
  <2>3. CASE t # s
    BY <1>1, <1>3, <2>3 DEF FlashType
  <2> QED BY <2>2, <2>3
<1>4. ASSUME NEW j \in Slots, NEW x \in {BadItem, TornItem},
             flash[seg].slots[j].st = "empty", g = Program(seg, j, x)
      PROVE  Kept
  <2>1. x \in ItemType /\ x.st \in {"bad", "nocrc"}
    <3>1. BadItem.st = "bad" /\ TornItem.st = "nocrc"
      BY DEF BadItem, TornItem, Item
    <3> QED BY <3>1, ContentTypes
  <2>2. g = [flash EXCEPT ![seg].slots[j] = x]
    BY <1>4 DEF Program
  <2>3. Put(g, seg, j, x)
    BY <1>1, <2>1, <2>2, PutIs
  <2>4. CASE s = seg
    BY <1>4, <2>1, <2>3, <2>4 DEF Put
  <2>5. CASE s # seg
    BY <2>3, <2>5 DEF Put
  <2> QED BY <2>4, <2>5
<1>5. CASE g \in TornFlash
  <2>1. CASE pc = "erase" \/ pc = "wipe" \/ pc = "clear"
    BY <1>3, <1>5, <2>1 DEF TornFlash
  <2>2. CASE pc = "header"
    <3>1. g = [flash EXCEPT ![new].hdr = "bad"]
      BY <1>5, <2>2 DEF TornFlash
    <3>2. \A t \in Segs : flash[t] \in SegType
      BY <1>1 DEF FlashType
    <3>3. g[s].slots = flash[s].slots
      BY <1>1, <3>1, <3>2 DEF FlashType, SegType
    <3> QED BY <3>3
  <2>3. CASE pc = "item"
    <3>1. g = Program(seg, wofs, BadItem)
      BY <1>5, <2>3 DEF TornFlash
    <3>2. wofs \in Slots /\ Clean(flash[seg], wofs)
      BY <2>3 DEF IInv, TypeOK, ControlInv, RamInv, Slots
    <3>3. flash[seg].slots[wofs].st = "empty"
      BY <3>2 DEF Clean, Slots
    <3> QED BY <1>4, <3>1, <3>2, <3>3
  <2>4. CASE pc = "copy"
    <3>1. CopyContinues /\ \E x \in {BadItem, TornItem} : g = Program(new, wofs, x)
      BY <1>5, <2>4 DEF TornFlash
    <3>2. wofs \in Slots /\ new = seg /\ flash[seg].slots[wofs].st = "empty"
      BY <2>4, <3>1, CopyFacts
    <3> QED BY <1>4, <3>1, <3>2
  <2> QED BY <1>5, <2>1, <2>2, <2>3, <2>4 DEF TornFlash
<1> QED BY <1>2, <1>5

\* A torn write is the first that is not intact.
LEMMA FailurePrefix == ASSUME IInv, PrefixInv, PowerFailure PROVE PrefixInv'
<1> SUFFICES ASSUME NEW s \in Segs PROVE Prefixed(flash'[s])
  BY DEF PrefixInv
<1>1. flash' \in {flash} \cup TornFlash
  BY DEF PowerFailure
<1>2. CASE \A j \in Slots : flash'[s].slots[j].st = "bad"
  BY <1>2 DEF Prefixed
<1>3. CASE \A j \in Slots :
              \/ flash'[s].slots[j] = flash[s].slots[j]
              \/ flash[s].slots[j].st = "empty" /\ flash'[s].slots[j].st \in {"bad", "nocrc"}
  <2>1. Prefixed(flash[s])
    BY DEF PrefixInv
  <2>2. \A j \in Slots : flash'[s].slots[j].st = "valid" => flash[s].slots[j].st = "valid"
    BY <1>3
  <2>3. \A j \in Slots : flash[s].slots[j].st \in Intact => flash'[s].slots[j].st \in Intact
    BY <1>3 DEF Intact
  <2> QED BY <2>1, <2>2, <2>3, StillPrefixed
<1> QED BY <1>1, <1>2, <1>3, TornItems

\* Every step keeps valid items before damaged ones.
LEMMA NextPrefix == ASSUME IInv, IInv', PrefixInv, [Next]_vars PROVE PrefixInv'
<1>1. CASE CopyItem \/ WriteItemHeader \/ WriteItemData \/ ObsoleteOld
  BY <1>1, WritePrefix
<1>2. CASE NewSegErase \/ NewSegHeader \/ RetireSeg \/ RegionClear \/ WipeSeg
  BY <1>2, ErasePrefix
<1>3. CASE SegScan \/ PowerFailure
  BY <1>3, SegScanPrefix, FailurePrefix
<1>4. CASE flash' = flash
  BY <1>4 DEF PrefixInv
<1>5. CASE \/ Boot \/ CopyDone \/ BootDone \/ Return \/ ClearAll \/ WipeDone \/ UNCHANGED vars
           \/ \E k \in Keys : Delete(k) \/ \E v \in Vals : Set(k, v)
  BY <1>4, <1>5 DEF Boot, CopyDone, BootDone, Return, ClearAll, WipeDone, Delete, Set, vars
<1> QED BY <1>1, <1>2, <1>3, <1>5 DEF Next

\* What has been passed has been copied.
LEMMA CopyItemCopied == ASSUME IInv, CopiedInv, CopyItem PROVE CopiedInv'
<1> DEFINE item == flash[src].slots[ci]
<1>1. /\ pc = "copy" /\ CopyContinues /\ ci' = ci + 1
      /\ UNCHANGED <<seg, pc, new, src, upto>>
      /\ \/ /\ item.st # "obsolete" /\ flash' = Program(new, wofs, item) /\ wofs' = wofs + 1
         \/ item.st = "obsolete" /\ UNCHANGED <<flash, wofs>>
  BY DEF CopyItem
<1>2. /\ src \in Segs /\ seg \in Segs /\ src # seg /\ new = seg
      /\ ci \in Slots /\ ci < upto /\ wofs \in Slots
      /\ item \in ItemType /\ item.st \in Intact
      /\ flash[seg].slots[wofs].st = "empty"
  BY <1>1, CopyFacts
<1>3. flash \in FlashType /\ src # NoSeg
  BY <1>2, TypeFacts DEF IInv, Segs, NoSeg
<1>4. flash'[src] = flash[src]
  BY <1>2, SegOnly
<1>5. \A j \in ValidIn(flash[src]) : j < upto
  BY <1>3 DEF CopiedInv
<1>6. \A i \in 1..(ci - 1) : flash[src].slots[i].st = "valid" =>
          \E j \in 1..(wofs - 1) : flash[seg].slots[j] = flash[src].slots[i]
  BY <1>1 DEF CopiedInv
<1>7. ASSUME NEW i \in 1..(ci' - 1), flash[src].slots[i].st = "valid"
      PROVE  \E j \in 1..(wofs' - 1) : flash'[seg].slots[j] = flash[src].slots[i]
  <2>1. i \in 1..(ci - 1) \/ i = ci
    BY <1>1, <1>2 DEF Slots
  <2>2. CASE item.st = "obsolete"
    <3>1. i \in 1..(ci - 1) /\ flash' = flash /\ wofs' = wofs
      BY <1>1, <1>7, <2>1, <2>2
    <3> QED BY <1>6, <1>7, <3>1
  <2>3. CASE item.st = "valid"
    <3>1. flash' = [flash EXCEPT ![seg].slots[wofs] = item] /\ wofs' = wofs + 1
      BY <1>1, <1>2, <2>3 DEF Program
    <3>2. Put(flash', seg, wofs, item)
      BY <1>2, <1>3, <3>1, PutIs
    <3> HIDE DEF item
    <3>3. /\ flash'[seg].slots[wofs] = item
          /\ \A j \in 1..(wofs - 1) : flash'[seg].slots[j] = flash[seg].slots[j]
      BY <1>2, <3>2 DEF Put, Slots
    <3>4. wofs \in 1..(wofs' - 1) /\ \A j \in 1..(wofs - 1) : j \in 1..(wofs' - 1)
      BY <1>2, <3>1 DEF Slots
    <3>5. CASE i = ci
      BY <3>3, <3>4, <3>5 DEF item
    <3>6. CASE i \in 1..(ci - 1)
      <4>1. PICK j \in 1..(wofs - 1) : flash[seg].slots[j] = flash[src].slots[i]
        BY <1>6, <1>7, <3>6
      <4> QED BY <3>3, <3>4, <4>1
    <3> QED BY <2>1, <3>5, <3>6
  <2> QED BY <1>2, <2>2, <2>3 DEF Intact
<1> QED BY <1>1, <1>4, <1>5, <1>7 DEF CopiedInv

\* A purge at boot begins with all valid items of the segment to copy.
LEMMA ScanCopied ==
    ASSUME IInv, PrefixInv, CopiedInv, SegScan PROVE CopiedInv'
<1> DEFINE end == ScanEnd(seg)
<1>1. pc' \in {"erase", "clear"} /\ (pc' = "erase" => src' = seg /\ upto' = end)
  BY DEF SegScan
<1>2. pc' = "clear" => src' = NoSeg
  BY DEF SegScan, IInv, ControlInv, Purging
<1>3. seg \in Segs /\ flash \in FlashType /\ 0 \in Segs
  BY TypeFacts DEF IInv, Segs
<1>4. /\ end \in 1..(NSlot + 1)
      /\ end <= NSlot => end \in Slots /\ flash[seg].slots[end].st \notin Intact
  BY <1>3, ScanEndIs
<1>5. \A j \in ValidIn(flash[seg]) : j < end
  <2> SUFFICES ASSUME NEW j \in ValidIn(flash[seg]), ~(j < end) PROVE FALSE
    OBVIOUS
  <2>1. j \in Slots /\ flash[seg].slots[j].st = "valid"
    BY DEF ValidIn
  <2> HIDE DEF end
  <2>2. end <= NSlot /\ (j = end \/ end < j)
    BY <1>4, <2>1 DEF Slots
  <2>3. Prefixed(flash[seg])
    BY <1>3 DEF PrefixInv
  <2>4. CASE j = end
    BY <1>4, <2>1, <2>2, <2>4 DEF Intact
  <2>5. CASE end < j
    BY <1>4, <2>1, <2>2, <2>3, <2>5 DEF Prefixed
  <2> QED BY <2>2, <2>4, <2>5
<1>6. \A j \in Slots : flash'[seg].slots[j].st = "valid" => flash[seg].slots[j].st = "valid"
  <2>1. CASE flash' = flash
    BY <2>1
  <2>2. CASE end <= NSlot /\ flash' = ObsoleteItem(0, end)
    <3> DEFINE x == IF flash[0].slots[end].st \in {"valid", "nocrc", "obsolete"}
                    THEN ObsoletedItem ELSE BadItem
    <3>1. x \in ItemType /\ x.st # "valid"
      BY ContentTypes DEF ObsoletedItem, BadItem, Item
    <3>2. flash' = [flash EXCEPT ![0].slots[end] = x]
      BY <2>2 DEF ObsoleteItem
    <3> HIDE DEF x, end
    <3>3. Put(flash', 0, end, x)
      BY <1>3, <1>4, <2>2, <3>1, <3>2, PutIs
    <3> QED BY <1>3, <3>1, <3>3 DEF Put
  <2> QED BY <2>1, <2>2 DEF SegScan
<1>7. \A j \in ValidIn(flash'[seg]) : j < end
  BY <1>5, <1>6 DEF ValidIn
<1> QED BY <1>1, <1>2, <1>7 DEF CopiedInv

\* So does a purge for a set.
LEMMA SetCopied ==
    ASSUME IInv, CopiedInv, NEW k \in Keys, NEW v \in Vals, Set(k, v)
    PROVE  CopiedInv'
<1>1. /\ pc = "idle" /\ flash' = flash /\ pc' \in {"done", "erase", "item"}
      /\ pc' = "erase" => src' = seg /\ upto' = wofs
      /\ pc' # "erase" => src' = src
  BY DEF Set
<1>2. Clean(flash[seg], wofs) /\ src = NoSeg
  BY <1>1 DEF IInv, RamInv, ControlInv, Purging
<1>3. wofs \in Int /\ \A j \in Slots : j \in Int
  BY DEF IInv, TypeOK, Slots
<1>4. \A j \in ValidIn(flash[seg]) : j < wofs
  BY <1>2, <1>3 DEF Clean, ValidIn
<1> QED BY <1>1, <1>2, <1>4 DEF CopiedInv

\* Every step keeps the copies complete.
LEMMA NextCopied ==
    ASSUME IInv, IInv', PrefixInv, CopiedInv, [Next]_vars PROVE CopiedInv'
<1>1. CASE CopyItem \/ SegScan
  BY <1>1, CopyItemCopied, ScanCopied
<1>2. CASE \E k \in Keys : \E v \in Vals : Set(k, v)
  BY <1>2, SetCopied
<1>3. flash \in FlashType /\ new \in Segs /\ seg \in Segs
  BY TypeFacts DEF IInv
<1>4. CASE NewSegErase \/ NewSegHeader
  <2>1. \A s \in Segs \ {new} : flash'[s] = flash[s]
    BY <1>3, <1>4 DEF NewSegErase, Erased, NewSegHeader, FlashType
  <2>2. pc \in {"erase", "header"} /\ src' = src /\ upto' = upto
    BY <1>4 DEF NewSegErase, NewSegHeader, purgeVars
  <2>3. src # NoSeg => src \in Segs /\ src # new
    BY <1>3, <2>2, NextSegIs DEF IInv, ControlInv
  <2>4. src' # NoSeg => \A j \in ValidIn(flash'[src']) : j < upto'
    BY <2>1, <2>2, <2>3 DEF CopiedInv
  <2>5. pc' = "copy" => ci' = 1
    BY <1>4 DEF NewSegErase, NewSegHeader
  <2> QED BY <2>4, <2>5 DEF CopiedInv
<1>5. CASE CopyDone \/ UNCHANGED vars
  <2>1. CASE CopyDone
    BY <2>1 DEF CopyDone, CopiedInv, ram, purgeVars
  <2>2. CASE UNCHANGED vars
    BY <2>2 DEF CopiedInv, vars
  <2> QED BY <1>5, <2>1, <2>2
<1>6. CASE \/ Boot \/ RetireSeg \/ RegionClear \/ BootDone \/ WriteItemHeader
           \/ WriteItemData \/ ObsoleteOld \/ Return \/ ClearAll \/ WipeSeg \/ WipeDone
           \/ PowerFailure \/ \E k \in Keys : Delete(k)
  <2>1. pc' # "copy"
    BY <1>6 DEF Boot, RetireSeg, RegionClear, BootDone, WriteItemHeader, WriteItemData,
                ObsoleteOld, Return, ClearAll, WipeSeg, WipeDone, PowerFailure, Delete,
                IInv, ControlInv
  <2>2. src' = NoSeg
    <3>1. CASE Boot \/ RetireSeg \/ WipeDone \/ PowerFailure
      BY <3>1 DEF Boot, RetireSeg, WipeDone, PowerFailure
    <3>2. CASE \/ RegionClear \/ BootDone \/ WriteItemHeader \/ WriteItemData \/ ObsoleteOld
               \/ Return \/ ClearAll \/ WipeSeg \/ \E k \in Keys : Delete(k)
      <4>1. src' = src /\ pc \notin Purging
        BY <3>2 DEF RegionClear, BootDone, WriteItemHeader, WriteItemData, ObsoleteOld,
                    Return, ClearAll, WipeSeg, Delete, purgeVars, Purging
      <4> QED BY <4>1 DEF IInv, ControlInv
    <3> QED BY <1>6, <3>1, <3>2
  <2> QED BY <2>1, <2>2 DEF CopiedInv
<1> QED BY <1>1, <1>2, <1>4, <1>5, <1>6 DEF Next

\* A call keeps its request until it returns; a clear ends with no items.
LEMMA NextCall ==
    ASSUME IInv, IInv', CallInv, [Next]_vars PROVE CallInv'
<1>1. CASE Boot \/ SegScan \/ NewSegErase \/ CopyItem \/ CopyDone \/ RetireSeg
  BY <1>1 DEF Boot, SegScan, NewSegErase, CopyItem, CopyDone, RetireSeg, ram, purgeVars,
              CallInv, IInv, ControlInv, Purging
<1>2. CASE RegionClear \/ BootDone \/ Return \/ ClearAll \/ WipeSeg \/ WipeDone
  BY <1>2 DEF RegionClear, BootDone, Return, ClearAll, WipeSeg, WipeDone,
              CallInv, IInv, ControlInv, Purging
<1>3. CASE WriteItemHeader \/ WriteItemData \/ ObsoleteOld
  BY <1>3 DEF WriteItemHeader, WriteItemData, ObsoleteOld, CallInv, IInv, ControlInv, Purging
<1>4. CASE \E k \in Keys : Delete(k) \/ \E v \in Vals : Set(k, v)
  BY <1>4 DEF Delete, Set, CallInv, IInv, ControlInv, Purging
<1>5. CASE NewSegHeader
  <2>1. pc = "header" /\ map' = {} /\ UNCHANGED <<req, src, ret>>
    BY <1>5 DEF NewSegHeader
  <2>2. pc' = IF src = NoSeg THEN ret ELSE "copy"
    BY <1>5 DEF NewSegHeader
  <2>3. pc' = "done" => map' = ValidIn(flash'[seg'])
    BY DEF IInv, RamInv
  <2>4. pc' = "done" => req'.kind = "clear"
    BY <2>1, <2>2 DEF IInv, ControlInv
  <2>5. pc' = "clear" => req' = NoReq
    BY <2>1, <2>2 DEF CallInv, Purging
  <2> QED BY <2>1, <2>2, <2>3, <2>4, <2>5 DEF CallInv, IInv, ControlInv, Purging
<1>6. CASE PowerFailure
  BY <1>6 DEF PowerFailure, CallInv, Purging
<1>7. CASE UNCHANGED vars
  BY <1>7 DEF CallInv, vars
<1> QED BY <1>1, <1>2, <1>3, <1>4, <1>5, <1>6, <1>7 DEF Next

StoreInv == IInv /\ RingInv /\ PrefixInv /\ CopiedInv /\ CallInv

\* All the parts hold together.
LEMMA StoreInductive ==
    ASSUME "dup" \notin Windows, RingFits PROVE Spec => []StoreInv
<1>1. Init => StoreInv
  <2> HAVE Init
  <2>1. \A s \in Segs : flash[s] = EmptySeg
    BY DEF Init
  <2>2. pc = "off" /\ src = NoSeg /\ req = NoReq
    BY DEF Init, RamInit
  <2>3. PrefixInv /\ CopiedInv /\ CallInv
    BY <2>1, <2>2, EmptyPrefixed DEF PrefixInv, CopiedInv, CallInv, Purging
  <2> QED BY <2>3, InitInv, InitRing DEF StoreInv
<1>2. StoreInv /\ [Next]_vars => StoreInv'
  <2> SUFFICES ASSUME StoreInv, [Next]_vars PROVE StoreInv'
    OBVIOUS
  <2>1. IInv' /\ RingInv'
    BY NextInv, NextRing DEF StoreInv
  <2> QED BY <2>1, NextPrefix, NextCopied, NextCall DEF StoreInv
<1> QED BY <1>1, <1>2, PTL DEF Spec

-----------------------------------------------------------------------------
(* The refinement of DurableStore.                                         *)

\* The contents of one segment, and an empty store.
View(r) == [k \in Keys |-> GetIn(r, ValidIn(r), k)]
Nothing == [k \in Keys |-> None]

\* What get answers depends on the valid items of that key only.
LEMMA GetSame ==
    ASSUME NEW r, NEW q, NEW k,
           \A j \in Slots :
               \/ r.slots[j].st = "valid" /\ r.slots[j].key = k
               \/ q.slots[j].st = "valid" /\ q.slots[j].key = k
               => r.slots[j] = q.slots[j]
    PROVE  GetIn(r, ValidIn(r), k) = GetIn(q, ValidIn(q), k)
<1> DEFINE R == {j \in ValidIn(r) : r.slots[j].st = "valid" /\ r.slots[j].key = k}
           Q == {j \in ValidIn(q) : q.slots[j].st = "valid" /\ q.slots[j].key = k}
<1>1. R = Q
  BY DEF ValidIn
<1>2. R \in SUBSET Nat /\ \A j \in R : r.slots[j] = q.slots[j]
  BY DEF ValidIn, Slots
<1>3. CASE R = {}
  BY <1>1, <1>3 DEF GetIn, FindIn
<1>4. CASE R # {}
  <2>1. Least(R) \in R
    BY <1>2, <1>4, LeastIs, Zenon
  <2>2. FindIn(r, ValidIn(r), k) = Least(R) /\ FindIn(q, ValidIn(q), k) = Least(R)
    BY <1>1, <1>4 DEF FindIn
  <2>3. r.slots[Least(R)].val = q.slots[Least(R)].val
    BY <1>2, <2>1
  <2> HIDE DEF R, Q
  <2> QED BY <2>2, <2>3 DEF GetIn
<1> QED BY <1>3, <1>4

\* Segments with the same valid items have the same contents.
LEMMA ViewSame ==
    ASSUME NEW r, NEW q,
           \A j \in Slots : r.slots[j].st = "valid" \/ q.slots[j].st = "valid"
                            => r.slots[j] = q.slots[j]
    PROVE  View(r) = View(q)
<1>1. \A k \in Keys : GetIn(r, ValidIn(r), k) = GetIn(q, ValidIn(q), k)
  BY GetSame
<1> QED BY <1>1 DEF View

\* A segment without valid items holds nothing.
LEMMA ViewEmpty ==
    ASSUME NEW r, \A j \in Slots : r.slots[j].st # "valid"
    PROVE  View(r) = Nothing
<1>1. \A k \in Keys : GetIn(r, ValidIn(r), k) = None
  BY DEF GetIn, FindIn, ValidIn
<1> QED BY <1>1 DEF View, Nothing

\* A segment and its copy have the same contents, wherever the items lie.
LEMMA ViewCopy ==
    ASSUME NEW r, NEW q, Unique(r), Unique(q),
           \A i \in ValidIn(r) : \E j \in ValidIn(q) : q.slots[j] = r.slots[i],
           \A j \in ValidIn(q) : \E i \in ValidIn(r) : q.slots[j] = r.slots[i]
    PROVE  View(r) = View(q)
<1> SUFFICES ASSUME NEW k \in Keys
             PROVE  GetIn(r, ValidIn(r), k) = GetIn(q, ValidIn(q), k)
  BY DEF View
<1>1. CASE \E i \in ValidIn(r) : r.slots[i].key = k
  <2>1. PICK i \in ValidIn(r) : r.slots[i].key = k
    BY <1>1
  <2>2. PICK j \in ValidIn(q) : q.slots[j] = r.slots[i]
    OBVIOUS
  <2>3. GetIn(r, ValidIn(r), k) = r.slots[i].val
    BY <2>1, FindIs
  <2>4. q.slots[j].key = k
    BY <2>1, <2>2
  <2>5. GetIn(q, ValidIn(q), k) = q.slots[j].val
    BY <2>4, FindIs
  <2> QED BY <2>2, <2>3, <2>5
<1>2. CASE \A i \in ValidIn(r) : r.slots[i].key # k
  <2>1. \A j \in ValidIn(q) : q.slots[j].key # k
    BY <1>2
  <2>2. GetIn(r, ValidIn(r), k) = None
    BY <1>2, FindIs
  <2>3. GetIn(q, ValidIn(q), k) = None
    BY <2>1, FindIs
  <2> QED BY <2>2, <2>3
<1> QED BY <1>1, <1>2

\* A scan finds all valid items.
LEMMA FlashViewIs ==
    ASSUME PrefixInv, NEW s \in Segs PROVE FlashView(s) = View(flash[s])
<1>1. /\ ScanEnd(s) \in 1..(NSlot + 1)
      /\ ScanEnd(s) <= NSlot =>
            ScanEnd(s) \in Slots /\ flash[s].slots[ScanEnd(s)].st \notin Intact
  BY ScanEndIs
<1>2. ValidBefore(s, ScanEnd(s)) = ValidIn(flash[s])
  <2>1. ASSUME NEW j \in Slots, flash[s].slots[j].st = "valid" PROVE j < ScanEnd(s)
    <3> SUFFICES ASSUME ~(j < ScanEnd(s)) PROVE FALSE
      OBVIOUS
    <3>1. ScanEnd(s) <= NSlot /\ (j = ScanEnd(s) \/ ScanEnd(s) < j)
      BY <1>1 DEF Slots
    <3>2. Prefixed(flash[s])
      BY DEF PrefixInv
    <3>3. CASE j = ScanEnd(s)
      BY <1>1, <2>1, <3>1, <3>3 DEF Intact
    <3>4. CASE ScanEnd(s) < j
      BY <1>1, <2>1, <3>1, <3>2, <3>4 DEF Prefixed
    <3> QED BY <3>1, <3>3, <3>4
  <2>2. \A j \in 1..(ScanEnd(s) - 1) : j \in Slots
    BY <1>1 DEF Slots
  <2>3. \A j \in Slots : j < ScanEnd(s) => j \in 1..(ScanEnd(s) - 1)
    BY <1>1 DEF Slots
  <2> QED BY <2>1, <2>2, <2>3 DEF ValidBefore, ValidIn
<1>3. ASSUME NEW k \in Keys
      PROVE  FlashView(s)[k] = GetIn(flash[s], ValidIn(flash[s]), k)
  <2> DEFINE F == {j \in ValidIn(flash[s]) : flash[s].slots[j].key = k}
  <2>1. FlashView(s)[k] = IF F = {} THEN None ELSE flash[s].slots[Least(F)].val
    BY <1>2, <1>3 DEF FlashView
  <2>2. FindIn(flash[s], ValidIn(flash[s]), k) = IF F = {} THEN 0 ELSE Least(F)
    <3>1. F = {j \in ValidIn(flash[s]) :
                  flash[s].slots[j].st = "valid" /\ flash[s].slots[j].key = k}
      BY DEF ValidIn
    <3> HIDE DEF F
    <3> QED BY <3>1 DEF FindIn
  <2>3. F \in SUBSET Nat /\ 0 \notin F
    BY DEF ValidIn, Slots
  <2>4. F # {} => Least(F) \in F
    BY <2>3, LeastIs, Zenon
  <2>5. F # {} => Least(F) # 0
    BY <2>3, <2>4
  <2> HIDE DEF F
  <2> QED BY <2>1, <2>2, <2>5 DEF GetIn
<1>4. FlashView(s) = [k \in Keys |-> FlashView(s)[k]]
  BY DEF FlashView
<1> QED BY <1>3, <1>4 DEF View

\* The contents in every phase of a call.
StoredFacts ==
    RingFits /\ StoreInv =>
    /\ pc = "copy" => Stored = View(flash[src])
    /\ pc = "wipe" => Stored = IF ci > seg THEN Nothing ELSE View(flash[seg])
    /\ Fresh \/ (pc = "off" /\ NoneValid(flash)) => Stored = Nothing
    /\ pc = "off" => \A c \in Segs, q \in 0..(SeqMod - 1) :
          LinedUp(flash, c, q) /\ flash[c].hdr = "valid" => Stored = View(flash[c])
    /\ pc \notin {"off", "wipe", "copy"} /\ ~Fresh => Stored = View(flash[seg])

\* They are the contents that boot would find.
LEMMA StoredNow == StoredFacts
<1> SUFFICES ASSUME RingFits, StoreInv
             PROVE  /\ pc = "copy" => Stored = View(flash[src])
                    /\ pc = "wipe" => Stored = IF ci > seg THEN Nothing ELSE View(flash[seg])
                    /\ Fresh \/ (pc = "off" /\ NoneValid(flash)) => Stored = Nothing
                    /\ pc = "off" => \A c \in Segs, q \in 0..(SeqMod - 1) :
                          LinedUp(flash, c, q) /\ flash[c].hdr = "valid"
                          => Stored = View(flash[c])
                    /\ pc \notin {"off", "wipe", "copy"} /\ ~Fresh
                          => Stored = View(flash[seg])
  BY DEF StoredFacts
<1> USE DEF StoreInv
<1>1. \A s \in Segs : FlashView(s) = View(flash[s]) /\ s # NoSeg
  BY FlashViewIs DEF Segs, NoSeg
<1>2. seg \in Segs /\ seq \in 0..(SeqMod - 1) /\ ci \in Int
  BY DEF IInv, TypeOK
<1>3. pc = "copy" => Stored = View(flash[src])
  BY <1>1 DEF Stored, IInv, ControlInv
<1>4. NoneValid(flash) => CurrentOnFlash = NoSeg
  BY CurrentIs DEF NoneValid
<1>5. Fresh \/ (pc = "off" /\ NoneValid(flash)) => Stored = Nothing
  BY <1>4 DEF Stored, RingInv, Fresh, Nothing
<1>6. ASSUME pc = "off", NEW c \in Segs, NEW q \in 0..(SeqMod - 1),
             LinedUp(flash, c, q), flash[c].hdr = "valid"
      PROVE  Stored = View(flash[c])
  <2>1. CurrentOnFlash = c
    BY <1>6, ScanPicks
  <2> HIDE DEF CurrentOnFlash
  <2> QED BY <1>1, <1>6, <2>1 DEF Stored
<1>7. pc \notin {"off", "wipe", "copy"} /\ ~Fresh => Stored = View(flash[seg])
  <2> HAVE pc \notin {"off", "wipe", "copy"} /\ ~Fresh
  <2>1. CurrentOnFlash = seg
    BY CurrentIsSeg
  <2> HIDE DEF CurrentOnFlash
  <2> QED BY <1>1, <1>2, <2>1 DEF Stored
<1>8. pc = "wipe" => Stored = IF ci > seg THEN Nothing ELSE View(flash[seg])
  <2> HAVE pc = "wipe"
  <2>1. CASE ci > seg
    BY <2>1 DEF Stored, Nothing
  <2>2. CASE ~(ci > seg)
    <3>1. flash[seg].hdr = "valid" /\ LinedUp(flash, seg, seq)
      BY <1>2, <2>2 DEF RingInv, Fresh, Segs
    <3>2. CurrentOnFlash = seg
      BY <1>2, <3>1, ScanPicks
    <3> HIDE DEF CurrentOnFlash
    <3> QED BY <1>1, <1>2, <2>2, <3>2 DEF Stored
  <2> QED BY <2>1, <2>2
<1> QED BY <1>3, <1>5, <1>6, <1>7, <1>8

\* The same in the next state.
LEMMA StoredNext == StoredFacts'
BY StoredNow, PTL

\* Steps that change nothing the store can show.
LEMMA BootKeeps ==
    ASSUME RingFits, StoreInv, StoreInv', Boot PROVE Stored' = Stored /\ req' = req
<1>1. pc = "off" /\ flash' = flash /\ src' = NoSeg /\ req' = req /\ flash \in FlashType
  BY TypeFacts DEF Boot, StoreInv, IInv
<1>2. CASE CurrentOnFlash = NoSeg
  <2>1. NoneValid(flash) /\ Fresh'
    BY <1>1, <1>2, CurrentIs DEF NoneValid, Boot, Fresh
  <2>2. Stored = Nothing
    BY <1>1, <2>1, StoredNow DEF StoredFacts
  <2>3. Stored' = Nothing
    BY <2>1, StoredNext DEF StoredFacts
  <2> QED BY <1>1, <2>2, <2>3
<1>3. CASE CurrentOnFlash # NoSeg
  <2> DEFINE c == CurrentOnFlash
  <2>1. pc' = "scan" /\ seg' = c
    BY <1>3 DEF Boot
  <2>2. c \in Segs /\ flash[c].hdr = "valid" /\ LinedUp(flash, c, flash[c].seq)
    BY <1>1, <1>3, BootFinds DEF StoreInv, RingInv
  <2> HIDE DEF c
  <2>3. flash[c].seq \in 0..(SeqMod - 1)
    BY <1>1, <2>2 DEF FlashType, SegType
  <2>4. Stored = View(flash[c])
    BY <1>1, <2>2, <2>3, StoredNow DEF StoredFacts
  <2>5. Stored' = View(flash'[seg'])
    BY <2>1, StoredNext DEF StoredFacts, Fresh
  <2> QED BY <1>1, <2>1, <2>4, <2>5
<1> QED BY <1>2, <1>3

\* region_seg_scan changes no contents.
LEMMA ScanKeeps ==
    ASSUME RingFits, StoreInv, StoreInv', SegScan PROVE Stored' = Stored /\ req' = req
<1> DEFINE end == ScanEnd(seg)
<1>1. /\ pc = "scan" /\ seg' = seg /\ req' = req /\ pc' \in {"erase", "clear"}
      /\ pc' = "erase" => src' = seg
  BY DEF SegScan
<1>2. seg \in Segs /\ flash \in FlashType /\ 0 \in Segs /\ seg # NoSeg
  BY TypeFacts DEF StoreInv, IInv, Segs, NoSeg
<1>3. Stored = View(flash[seg])
  BY <1>1, StoredNow DEF StoredFacts, Fresh
<1>4. Stored' = View(flash'[seg])
  BY <1>1, <1>2, StoredNext DEF StoredFacts, Fresh
<1>5. CASE flash' = flash
  BY <1>1, <1>3, <1>4, <1>5
<1>6. CASE end <= NSlot /\ flash[seg].slots[end].st = "nocrc" /\ flash' = ObsoleteItem(0, end)
  <2>1. end \in Slots
    BY <1>2, <1>6, ScanEndIs
  <2> HIDE DEF end
  <2> DEFINE x == IF flash[0].slots[end].st \in {"valid", "nocrc", "obsolete"}
                  THEN ObsoletedItem ELSE BadItem
  <2>2. x \in ItemType /\ x.st # "valid"
    BY ContentTypes DEF ObsoletedItem, BadItem, Item
  <2>3. flash' = [flash EXCEPT ![0].slots[end] = x]
    BY <1>6 DEF ObsoleteItem
  <2> HIDE DEF x
  <2>4. Put(flash', 0, end, x)
    BY <1>2, <2>1, <2>2, <2>3, PutIs
  <2>5. \A j \in Slots : flash[seg].slots[j].st = "valid" \/ flash'[seg].slots[j].st = "valid"
                         => flash[seg].slots[j] = flash'[seg].slots[j]
    BY <1>2, <1>6, <2>2, <2>4 DEF Put
  <2>6. View(flash[seg]) = View(flash'[seg])
    BY <2>5, ViewSame
  <2> QED BY <1>1, <1>3, <1>4, <2>6
<1> QED BY <1>5, <1>6 DEF SegScan

\* Nor does the erasure of the new segment.
LEMMA EraseKeeps ==
    ASSUME RingFits, StoreInv, StoreInv', NewSegErase PROVE Stored' = Stored /\ req' = req
<1>1. /\ pc = "erase" /\ pc' = "header" /\ flash' = [flash EXCEPT ![new] = EmptySeg]
      /\ UNCHANGED <<seg, src, req>>
  BY DEF NewSegErase, Erased, ram, purgeVars
<1>2. CASE src = NoSeg
  BY <1>1, <1>2, StoredNow, StoredNext DEF StoredFacts, Fresh
<1>3. CASE src # NoSeg
  <2>1. seg \in Segs /\ new \in Segs /\ flash \in FlashType /\ seg # new
    BY <1>1, <1>3, TypeFacts, NextSegIs DEF StoreInv, IInv, ControlInv
  <2>2. flash'[seg] = flash[seg]
    BY <1>1, <2>1 DEF FlashType
  <2>3. Stored = View(flash[seg])
    BY <1>1, <1>3, StoredNow DEF StoredFacts, Fresh
  <2>4. Stored' = View(flash'[seg'])
    BY <1>1, <1>3, StoredNext DEF StoredFacts, Fresh
  <2> QED BY <1>1, <2>2, <2>3, <2>4
<1> QED BY <1>2, <1>3

\* Nor its header: what counts during a purge is the source.
LEMMA HeaderKeeps ==
    ASSUME RingFits, StoreInv, StoreInv', NewSegHeader PROVE Stored' = Stored /\ req' = req
<1>1. /\ pc = "header" /\ seg' = new /\ map' = {} /\ UNCHANGED <<new, src, req>>
      /\ pc' = (IF src = NoSeg THEN ret ELSE "copy")
  BY DEF NewSegHeader
<1>2. CASE src = NoSeg
  <2>1. Stored = Nothing
    BY <1>1, <1>2, StoredNow DEF StoredFacts, Fresh
  <2>2. pc' \in {"clear", "done"}
    BY <1>1, <1>2 DEF StoreInv, IInv, ControlInv
  <2>3. Stored' = View(flash'[seg'])
    BY <2>2, StoredNext DEF StoredFacts, Fresh
  <2>4. map' = ValidIn(flash'[seg'])
    BY <2>2 DEF StoreInv, IInv, RamInv
  <2>5. View(flash'[seg']) = Nothing
    BY <1>1, <2>4, ViewEmpty DEF ValidIn
  <2> QED BY <1>1, <2>1, <2>3, <2>5
<1>3. CASE src # NoSeg
  <2>1. seg \in Segs /\ new \in Segs /\ flash \in FlashType /\ src = seg /\ seg # new
    BY <1>1, <1>3, TypeFacts, NextSegIs DEF StoreInv, IInv, ControlInv
  <2>2. flash'[src] = flash[src]
    BY <2>1 DEF NewSegHeader, FlashType
  <2>3. Stored = View(flash[seg])
    BY <1>1, <1>3, StoredNow DEF StoredFacts, Fresh
  <2>4. Stored' = View(flash'[src'])
    BY <1>1, <1>3, StoredNext DEF StoredFacts
  <2> QED BY <1>1, <2>1, <2>2, <2>3, <2>4
<1> QED BY <1>2, <1>3

\* Nor the copy of an item.
LEMMA CopyKeeps ==
    ASSUME RingFits, StoreInv, StoreInv', CopyItem PROVE Stored' = Stored /\ req' = req
<1>1. pc = "copy" /\ pc' = "copy" /\ UNCHANGED <<src, req>>
  BY DEF CopyItem
<1>2. src \in Segs /\ src # seg
  BY <1>1 DEF StoreInv, IInv, ControlInv
<1>3. flash'[src] = flash[src]
  BY <1>2, SegOnly DEF StoreInv
<1>4. Stored = View(flash[src])
  BY <1>1, StoredNow DEF StoredFacts
<1>5. Stored' = View(flash'[src'])
  BY <1>1, StoredNext DEF StoredFacts
<1> QED BY <1>1, <1>3, <1>4, <1>5

\* The moment of a purge: the target has become a copy of the source.
LEMMA CopyDoneKeeps ==
    ASSUME RingFits, StoreInv, StoreInv', CopyDone PROVE Stored' = Stored /\ req' = req
<1> USE DEF StoreInv
<1>1. /\ pc = "copy" /\ pc' = "retire" /\ ~CopyContinues
      /\ UNCHANGED <<flash, seg, src, req>>
  BY DEF CopyDone, ram, purgeVars
<1>2. /\ src \in Segs /\ seg \in Segs /\ src # NoSeg
      /\ ci \in 1..(NSlot + 1) /\ upto \in 1..(NSlot + 1) /\ ci <= upto
      /\ wofs \in 1..(NSlot + 1)
  BY <1>1 DEF IInv, TypeOK, ControlInv, Segs, NoSeg
<1>3. ci = upto
  <2> SUFFICES ASSUME ci # upto PROVE FALSE
    OBVIOUS
  <2>1. ci < upto /\ ci \in 1..(upto - 1)
    BY <1>2
  <2>2. flash[src].slots[ci].st \in Intact
    BY <1>2, <2>1 DEF IInv, RamInv
  <2> QED BY <1>1, <2>1, <2>2 DEF CopyContinues, Intact
<1>4. Full(flash[seg], wofs)
  BY <1>1 DEF IInv, RamInv
<1>5. Unique(flash[src]) /\ Unique(flash[seg])
  BY <1>1, <1>2 DEF IInv, SoundInv
<1>6. ASSUME NEW i \in ValidIn(flash[src])
      PROVE  \E j \in ValidIn(flash[seg]) : flash[seg].slots[j] = flash[src].slots[i]
  <2>1. i \in Slots /\ flash[src].slots[i].st = "valid" /\ i < upto
    BY <1>2 DEF ValidIn, CopiedInv
  <2>2. i \in 1..(ci - 1)
    BY <1>2, <1>3, <2>1 DEF Slots
  <2>3. PICK j \in 1..(wofs - 1) : flash[seg].slots[j] = flash[src].slots[i]
    BY <1>1, <2>1, <2>2 DEF CopiedInv
  <2>4. j \in Slots
    BY <1>2 DEF Slots
  <2> QED BY <2>1, <2>3, <2>4 DEF ValidIn
<1>7. ASSUME NEW j \in ValidIn(flash[seg])
      PROVE  \E i \in ValidIn(flash[src]) : flash[seg].slots[j] = flash[src].slots[i]
  <2>1. j \in Slots /\ flash[seg].slots[j].st = "valid"
    BY DEF ValidIn
  <2>2. j \in 1..(wofs - 1)
    BY <1>2, <1>4, <2>1 DEF Full, Slots
  <2>3. PICK i \in 1..(ci - 1) : flash[seg].slots[j] = flash[src].slots[i]
    BY <1>1, <2>2 DEF IInv, RamInv
  <2>4. i \in Slots
    BY <1>2 DEF Slots
  <2> QED BY <2>1, <2>3, <2>4 DEF ValidIn
<1>8. View(flash[src]) = View(flash[seg])
  BY <1>5, <1>6, <1>7, ViewCopy
<1>9. Stored = View(flash[src])
  BY <1>1, StoredNow DEF StoredFacts
<1>10. Stored' = View(flash'[seg'])
  BY <1>1, StoredNext DEF StoredFacts, Fresh
<1> QED BY <1>1, <1>8, <1>9, <1>10

\* Nor the end of a purge or of the boot.
LEMMA HousekeepingKeeps ==
    ASSUME RingFits, StoreInv, StoreInv', RetireSeg \/ RegionClear \/ BootDone
    PROVE  Stored' = Stored /\ req' = req
<1> USE DEF StoreInv
<1>1. /\ pc \in {"retire", "clear"} /\ pc' \in {"clear", "item", "idle"}
      /\ seg' = seg /\ req' = req
  BY DEF RetireSeg, RegionClear, BootDone, ram, IInv, ControlInv
<1>2. Stored = View(flash[seg])
  BY <1>1, StoredNow DEF StoredFacts, Fresh
<1>3. Stored' = View(flash'[seg'])
  BY <1>1, StoredNext DEF StoredFacts, Fresh
<1>4. flash \in FlashType /\ seg \in Segs
  BY TypeFacts DEF IInv
<1>5. flash'[seg] = flash[seg]
  <2>1. CASE RetireSeg
    BY <1>4, <2>1 DEF RetireSeg, IInv, ControlInv, FlashType
  <2>2. CASE RegionClear
    <3>1. ci \in 1..ClearCount
      BY <2>2 DEF RegionClear, IInv, TypeOK, ControlInv, ClearCount
    <3>2. (seg + ci) % NSeg # seg
      BY <1>4, <3>1, ClearedSeg
    <3> QED BY <1>4, <2>2, <3>2 DEF RegionClear, Erased, FlashType
  <2>3. CASE BootDone
    BY <2>3 DEF BootDone
  <2> QED BY <2>1, <2>2, <2>3
<1> QED BY <1>1, <1>2, <1>3, <1>5

\* Where an item is written.
LEMMA WriteFacts ==
    ASSUME IInv, pc \in {"item", "data"}
    PROVE  seg \in Segs /\ flash \in FlashType /\ wofs \in Slots
BY TypeFacts DEF IInv, ControlInv, TypeOK, Slots

\* An item's header alone is no valid item.
LEMMA ItemHeaderKeeps ==
    ASSUME RingFits, StoreInv, StoreInv', WriteItemHeader PROVE Stored' = Stored /\ req' = req
<1> USE DEF StoreInv
<1>1. /\ pc = "item" /\ flash' = Program(seg, wofs, TornItem) /\ pc' = "data"
      /\ UNCHANGED <<seg, req>>
  BY DEF WriteItemHeader, ram
<1>2. seg \in Segs /\ flash \in FlashType /\ wofs \in Slots
  BY <1>1, WriteFacts
<1>3. flash[seg].slots[wofs].st = "empty"
  <2>1. Clean(flash[seg], wofs)
    BY <1>1 DEF IInv, RamInv
  <2> QED BY <1>2, <2>1 DEF Clean, Slots
<1>4. flash' = [flash EXCEPT ![seg].slots[wofs] = TornItem]
  BY <1>1, <1>3 DEF Program
<1>5. Put(flash', seg, wofs, TornItem) /\ TornItem.st = "nocrc"
  BY <1>2, <1>4, PutIs, ContentTypes DEF TornItem, Item
<1>6. View(flash[seg]) = View(flash'[seg])
  <2>1. \A j \in Slots : flash[seg].slots[j].st = "valid" \/ flash'[seg].slots[j].st = "valid"
                         => flash[seg].slots[j] = flash'[seg].slots[j]
    BY <1>3, <1>5 DEF Put
  <2> QED BY <2>1, ViewSame
<1>7. Stored = View(flash[seg])
  BY <1>1, StoredNow DEF StoredFacts, Fresh
<1>8. Stored' = View(flash'[seg'])
  BY <1>1, StoredNext DEF StoredFacts, Fresh
<1> QED BY <1>1, <1>6, <1>7, <1>8

\* The new region after a clear is as empty as the erased one.
LEMMA WipeDoneKeeps ==
    ASSUME RingFits, StoreInv, StoreInv', WipeDone PROVE Stored' = Stored /\ req' = req
<1>1. pc = "wipe" /\ ci = NSeg /\ pc' = "erase" /\ src' = NoSeg /\ req' = req
  BY DEF WipeDone
<1>2. ci > seg
  BY <1>1 DEF StoreInv, IInv, TypeOK, Segs
<1>3. Stored = Nothing
  BY <1>1, <1>2, StoredNow DEF StoredFacts
<1>4. Stored' = Nothing
  BY <1>1, StoredNext DEF StoredFacts, Fresh
<1> QED BY <1>1, <1>3, <1>4

\* Steps that take effect: the data of a new item, the old item's state byte,
\* and the erasure of the current segment.
LEMMA ItemDataApplies ==
    ASSUME RingFits, StoreInv, StoreInv', WriteItemData
    PROVE  /\ req' = req
           /\ Stored' = Stored \/ Stored' = [Stored EXCEPT ![req.key] = req.val]
<1> USE DEF StoreInv
<1> DEFINE x == Item("valid", req.key, req.val)
<1>1. /\ pc = "data"
      /\ flash' = [flash EXCEPT ![seg].slots[wofs] = IF @.st = "nocrc" THEN x ELSE BadItem]
      /\ pc' = IF old = 0 THEN "done" ELSE "obsolete"
      /\ UNCHANGED <<seg, req, old>>
  BY DEF WriteItemData
<1>2. seg \in Segs /\ flash \in FlashType /\ wofs \in Slots
  BY <1>1, WriteFacts
<1>3. /\ map = ValidIn(flash[seg])
      /\ \A j \in Slots : /\ j < wofs => flash[seg].slots[j].st \in Intact
                          /\ j = wofs => flash[seg].slots[j].st = "nocrc"
                          /\ j > wofs => flash[seg].slots[j].st = "empty"
  BY <1>1 DEF IInv, RamInv
<1>4. req.kind = "set" /\ req.key \in Keys /\ req.val \in Vals
  BY <1>1 DEF IInv, ControlInv
<1>5. x \in ItemType /\ x.st = "valid" /\ x.key = req.key
  BY <1>4 DEF Item, ItemType, ItemStates
<1>6. flash' = [flash EXCEPT ![seg].slots[wofs] = x]
  BY <1>1, <1>2, <1>3
<1> HIDE DEF x
<1>7. Put(flash', seg, wofs, x)
  BY <1>2, <1>5, <1>6, PutIs
<1> DEFINE r == flash[seg]
           q == flash'[seg]
<1>8. \A i \in Slots : q.slots[i] = IF i = wofs THEN x ELSE r.slots[i]
  BY <1>7 DEF Put
<1>9. Stored = View(r)
  BY <1>1, StoredNow DEF StoredFacts, Fresh
<1>10. Stored' = View(q)
  BY <1>1, StoredNext DEF StoredFacts, Fresh
<1>11. r.slots[wofs].st = "nocrc"
  BY <1>2, <1>3
<1>12. ASSUME NEW k \in Keys, k # req.key
       PROVE  GetIn(r, ValidIn(r), k) = GetIn(q, ValidIn(q), k)
  <2>1. \A j \in Slots : \/ r.slots[j].st = "valid" /\ r.slots[j].key = k
                         \/ q.slots[j].st = "valid" /\ q.slots[j].key = k
                         => r.slots[j] = q.slots[j]
    BY <1>5, <1>8, <1>11, <1>12
  <2> HIDE DEF r, q
  <2> QED BY <2>1, GetSame
<1>13. CASE old = 0
  <2>1. DoneInv' /\ pc' = "done" /\ map' = ValidIn(flash'[seg'])
    BY <1>1, <1>13 DEF IInv, RamInv
  <2>2. GetIn(q, ValidIn(q), req.key) = req.val
    BY <1>1, <1>4, <2>1 DEF DoneInv
  <2> HIDE DEF r, q
  <2>3. View(q) = [View(r) EXCEPT ![req.key] = req.val]
    BY <1>4, <1>12, <2>2 DEF View
  <2> QED BY <1>1, <1>9, <1>10, <2>3
<1>14. CASE old # 0
  <2>1. old \in map /\ r.slots[old].key = req.key
    BY <1>1, <1>14 DEF IInv, OldInv
  <2>2. old \in Slots /\ r.slots[old].st = "valid" /\ old < wofs
    BY <1>2, <1>3, <2>1 DEF ValidIn, Slots
  <2>3. Unique(r)
    BY <1>1, <1>2 DEF IInv, SoundInv
  <2>4. GetIn(r, ValidIn(r), req.key) = r.slots[old].val
    BY <1>3, <2>1, <2>3, FindIs
  <2> DEFINE S == {j \in ValidIn(q) : q.slots[j].st = "valid" /\ q.slots[j].key = req.key}
  <2>5. q.slots[old] = r.slots[old] /\ old \in S
    BY <1>8, <2>1, <2>2 DEF ValidIn, Slots
  <2>6. S \in SUBSET Nat /\ S # {}
    BY <2>5 DEF ValidIn, Slots
  <2>7. \A j \in S : j = old \/ j = wofs
    BY <1>8, <2>1, <2>2, <2>3 DEF ValidIn, Unique
  <2>8. Least(S) \in S /\ Least(S) <= old
    BY <2>5, <2>6, LeastIs, Zenon
  <2>9. Least(S) = old /\ old # 0
    <3>1. Least(S) = old \/ Least(S) = wofs
      BY <2>7, <2>8
    <3> HIDE DEF S
    <3>2. wofs \in 1..NSlot /\ old \in 1..NSlot
      BY <1>2, <2>2 DEF Slots
    <3> QED BY <2>2, <2>8, <3>1, <3>2
  <2>10. FindIn(q, ValidIn(q), req.key) = old
    BY <2>5, <2>9 DEF FindIn
  <2>11. GetIn(q, ValidIn(q), req.key) = GetIn(r, ValidIn(r), req.key)
    BY <2>4, <2>5, <2>9, <2>10 DEF GetIn
  <2> HIDE DEF r, q
  <2>12. View(q) = View(r)
    BY <1>12, <2>11 DEF View
  <2> QED BY <1>1, <1>9, <1>10, <2>12
<1> QED BY <1>13, <1>14

\* The obsolete mark makes the new value, or the absence of one, the only
\* one: here the set or delete takes effect if there was an old item.
LEMMA ObsoleteApplies ==
    ASSUME RingFits, StoreInv, StoreInv', ObsoleteOld
    PROVE  req' = req /\ Stored' = [Stored EXCEPT ![req.key] = req.val]
<1> USE DEF StoreInv
<1>1. /\ pc = "obsolete" /\ flash' = ObsoleteItem(seg, old) /\ pc' = "done"
      /\ UNCHANGED <<seg, req>>
  BY DEF ObsoleteOld
<1>2. /\ map = ValidIn(flash[seg]) /\ old \in map /\ flash[seg].slots[old].key = req.key
  BY <1>1 DEF IInv, RamInv, OldInv
<1>3. /\ seg \in Segs /\ flash \in FlashType
      /\ old \in Slots /\ flash[seg].slots[old].st = "valid"
  BY <1>2, TypeFacts DEF IInv, ValidIn
<1>4. flash' = [flash EXCEPT ![seg].slots[old] = ObsoletedItem]
  BY <1>1, <1>3 DEF ObsoleteItem
<1>5. Put(flash', seg, old, ObsoletedItem) /\ ObsoletedItem.st = "obsolete"
  BY <1>3, <1>4, PutIs, ContentTypes DEF ObsoletedItem, Item
<1> DEFINE r == flash[seg]
           q == flash'[seg]
<1>6. \A i \in Slots : q.slots[i] = IF i = old THEN ObsoletedItem ELSE r.slots[i]
  BY <1>5 DEF Put
<1>7. Stored = View(r)
  BY <1>1, StoredNow DEF StoredFacts, Fresh
<1>8. Stored' = View(q)
  BY <1>1, StoredNext DEF StoredFacts, Fresh
<1>9. req.kind = "set" /\ req.key \in Keys
  BY <1>1 DEF IInv, ControlInv
<1>10. GetIn(q, ValidIn(q), req.key) = req.val
  <2>1. DoneInv' /\ map' = ValidIn(flash'[seg'])
    BY <1>1 DEF IInv, RamInv
  <2> QED BY <1>1, <1>9, <2>1 DEF DoneInv
<1>11. ASSUME NEW k \in Keys, k # req.key
       PROVE  GetIn(r, ValidIn(r), k) = GetIn(q, ValidIn(q), k)
  <2>1. \A j \in Slots : \/ r.slots[j].st = "valid" /\ r.slots[j].key = k
                         \/ q.slots[j].st = "valid" /\ q.slots[j].key = k
                         => r.slots[j] = q.slots[j]
    BY <1>2, <1>5, <1>6, <1>11
  <2> HIDE DEF r, q
  <2> QED BY <2>1, GetSame
<1> HIDE DEF r, q
<1>12. View(q) = [View(r) EXCEPT ![req.key] = req.val]
  BY <1>9, <1>10, <1>11 DEF View
<1> QED BY <1>1, <1>7, <1>8, <1>12

\* A clear takes effect when the current segment is erased.
LEMMA WipeApplies ==
    ASSUME RingFits, StoreInv, StoreInv', WipeSeg
    PROVE  req' = req /\ req.kind = "clear" /\ (Stored' = Stored \/ Stored' = Nothing)
<1> USE DEF StoreInv
<1>1. /\ pc = "wipe" /\ pc' = "wipe" /\ ci < NSeg /\ flash' = [flash EXCEPT ![ci] = EmptySeg]
      /\ ci' = ci + 1 /\ UNCHANGED <<seg, req>>
  BY DEF WipeSeg, Erased, ram
<1>2. req.kind = "clear" /\ seg \in Segs /\ flash \in FlashType /\ ci \in Int /\ seg \in Int
  BY <1>1, TypeFacts DEF IInv, ControlInv, TypeOK, Segs
<1>3. Stored = IF ci > seg THEN Nothing ELSE View(flash[seg])
  BY <1>1, StoredNow DEF StoredFacts
<1>4. Stored' = IF ci' > seg' THEN Nothing ELSE View(flash'[seg'])
  BY <1>1, StoredNext DEF StoredFacts
<1>5. CASE ci' > seg
  BY <1>1, <1>2, <1>4, <1>5
<1>6. CASE ~(ci' > seg)
  <2>1. ci # seg /\ ~(ci > seg)
    BY <1>1, <1>2, <1>6
  <2>2. flash'[seg] = flash[seg]
    BY <1>1, <1>2, <2>1 DEF FlashType
  <2> QED BY <1>1, <1>2, <1>3, <1>4, <1>6, <2>1, <2>2
<1> QED BY <1>5, <1>6

\* Requests and answers.
LEMMA RequestKeeps ==
    ASSUME RingFits, StoreInv, StoreInv',
           ClearAll \/ \E k \in Keys : Delete(k) \/ \E v \in Vals : Set(k, v)
    PROVE  req = NoReq /\ Stored' = Stored /\ req' \in Durable!Requests
<1> USE DEF StoreInv
<1>1. pc = "idle" /\ flash' = flash /\ seg' = seg
  BY DEF ClearAll, Delete, Set, ram
<1>2. req = NoReq
  BY <1>1 DEF CallInv
<1>3. Stored = View(flash[seg])
  BY <1>1, StoredNow DEF StoredFacts, Fresh
<1>4. seg \in Segs /\ seg # NoSeg
  BY DEF IInv, TypeOK, Segs, NoSeg
<1>5. CASE ClearAll
  <2>1. pc' = "wipe" /\ ci' = 0 /\ req' = [kind |-> "clear", key |-> None, val |-> None]
    BY <1>5 DEF ClearAll
  <2>2. ~(ci' > seg')
    BY <1>1, <1>4, <2>1 DEF Segs
  <2>3. Stored' = View(flash'[seg'])
    BY <2>1, <2>2, StoredNext DEF StoredFacts
  <2>4. req' \in Durable!Requests
    BY <2>1 DEF Durable!Requests, Durable!ClearReq
  <2> QED BY <1>1, <1>2, <1>3, <2>3, <2>4
<1>6. ASSUME NEW k \in Keys, Delete(k) \/ \E v \in Vals : Set(k, v)
      PROVE  Stored' = Stored /\ req' \in Durable!Requests
  <2>1. pc' \in {"done", "obsolete", "item"} \/ (pc' = "erase" /\ src' = seg)
    BY <1>6 DEF Delete, Set
  <2>2. Stored' = View(flash'[seg'])
    BY <1>4, <2>1, StoredNext DEF StoredFacts, Fresh
  <2>3. \E v \in Vals \cup {None} : req' = [kind |-> "set", key |-> k, val |-> v]
    BY <1>6 DEF Delete, Set
  <2>4. req' \in Durable!Requests
    BY <2>3 DEF Durable!Requests, Durable!SetReq
  <2> QED BY <1>1, <1>3, <2>2, <2>4
<1> QED BY <1>2, <1>5, <1>6

\* When a call returns it has taken effect.
LEMMA ReturnAnswers ==
    ASSUME RingFits, StoreInv, StoreInv', Return
    PROVE  /\ req # NoReq /\ req' = NoReq /\ Stored' = Stored
           /\ \/ req.kind = "set" /\ Stored = [Stored EXCEPT ![req.key] = req.val]
              \/ req.kind = "clear" /\ Stored = Nothing
<1> USE DEF StoreInv
<1>1. pc = "done" /\ pc' = "idle" /\ req' = NoReq /\ UNCHANGED <<flash, seg>>
  BY DEF Return, ram
<1>2. Stored = View(flash[seg])
  BY <1>1, StoredNow DEF StoredFacts, Fresh
<1>3. Stored' = View(flash'[seg'])
  BY <1>1, StoredNext DEF StoredFacts, Fresh
<1>4. req.kind \in {"set", "clear"} /\ NoReq.kind = "none"
  BY <1>1 DEF CallInv, NoReq
<1>5. CASE req.kind = "set"
  <2>1. req.key \in Keys
    BY <1>5 DEF IInv, ControlInv
  <2>2. GetIn(flash[seg], map, req.key) = req.val /\ map = ValidIn(flash[seg])
    BY <1>1, <1>5 DEF IInv, DoneInv, RamInv
  <2>3. Stored[req.key] = req.val /\ Stored = [k \in Keys |-> Stored[k]]
    BY <1>2, <2>1, <2>2 DEF View
  <2>4. Stored = [Stored EXCEPT ![req.key] = req.val]
    BY <2>1, <2>3
  <2> QED BY <1>1, <1>2, <1>3, <1>4, <1>5, <2>4
<1>6. CASE req.kind = "clear"
  <2>1. ValidIn(flash[seg]) = {}
    BY <1>1, <1>6 DEF CallInv
  <2>2. View(flash[seg]) = Nothing
    BY <2>1, ViewEmpty DEF ValidIn
  <2> QED BY <1>1, <1>2, <1>3, <1>4, <1>6, <2>2
<1> QED BY <1>4, <1>5, <1>6

\* Outside a clear no failure touches the header of the current segment.
LEMMA TornElsewhere ==
    ASSUME IInv, ~Fresh, NEW g \in {flash} \cup TornFlash,
           pc = "wipe" => ci < seg
    PROVE  g[seg].hdr = flash[seg].hdr
<1>1. flash \in FlashType /\ seg \in Segs /\ new \in Segs
  BY TypeFacts DEF IInv
<1>2. CASE g = flash
  BY <1>2
<1>3. ASSUME NEW t, t # seg, g = [flash EXCEPT ![t] = GarbageSeg]
      PROVE  g[seg].hdr = flash[seg].hdr
  BY <1>1, <1>3 DEF FlashType
<1>4. CASE g \in TornFlash
  <2>1. CASE pc \in {"erase", "header"}
    <3>1. new # seg
      BY <1>1, <2>1, NextSegIs DEF Fresh, IInv, ControlInv
    <3>2. CASE pc = "erase"
      BY <1>3, <1>4, <3>1, <3>2 DEF TornFlash
    <3>3. CASE pc = "header"
      BY <1>1, <1>4, <3>1, <3>3 DEF TornFlash, FlashType
    <3> QED BY <2>1, <3>2, <3>3
  <2>2. CASE pc = "wipe"
    <3>1. ci # seg
      BY <1>1, <2>2 DEF Segs
    <3> QED BY <1>3, <1>4, <2>2, <3>1 DEF TornFlash
  <2>3. CASE pc = "clear"
    <3>1. ci <= ClearCount /\ g = [flash EXCEPT ![(seg + ci) % NSeg] = GarbageSeg]
      BY <1>4, <2>3 DEF TornFlash
    <3>2. ci \in 1..ClearCount
      BY <2>3, <3>1 DEF IInv, TypeOK, ControlInv, ClearCount
    <3>3. (seg + ci) % NSeg # seg
      BY <1>1, <3>2, ClearedSeg
    <3> QED BY <1>3, <3>1, <3>3
  <2>4. CASE pc = "item" \/ pc = "copy"
    <3>1. ASSUME NEW t, NEW j, NEW x, g = Program(t, j, x) PROVE g[seg].hdr = flash[seg].hdr
      BY <1>1, <3>1, SlotOnly DEF Program
    <3>2. \E t, j, x : g = Program(t, j, x)
      BY <1>4, <2>4 DEF TornFlash
    <3> QED BY <3>1, <3>2
  <2> QED BY <1>4, <2>1, <2>2, <2>3, <2>4 DEF TornFlash
<1> QED BY <1>2, <1>4

\* A failure leaves the contents as they were, or a clear complete.
LEMMA FailureKeeps ==
    ASSUME Windows = {}, RingFits, StoreInv, StoreInv', PowerFailure
    PROVE  req' = NoReq /\ (Stored' = Stored \/ (req.kind = "clear" /\ Stored' = Nothing))
<1>1. /\ pc # "off" /\ pc' = "off" /\ req' = NoReq /\ flash' \in {flash} \cup TornFlash
      /\ pc # "copy" /\ ~InWipeWindow
  BY DEF PowerFailure, InPurgeWindow
<1>2. IInv /\ RingInv /\ seg \in Segs /\ seq \in 0..(SeqMod - 1)
  BY DEF StoreInv, IInv, TypeOK
<1>3. \A s \in Segs : flash'[s].hdr = "valid" =>
          flash[s].hdr = "valid" /\ flash'[s].seq = flash[s].seq
  BY <1>1, <1>2, TornHeaders
<1>4. NoneValid(flash') => Stored' = Nothing
  BY <1>1, StoredNext DEF StoredFacts
<1>5. CASE Fresh
  <2>1. NoneValid(flash')
    BY <1>2, <1>3, <1>5 DEF RingInv, NoneValid
  <2>2. Stored = Nothing
    BY <1>5, StoredNow DEF StoredFacts
  <2> QED BY <1>1, <1>4, <2>1, <2>2
<1>6. ASSUME ~Fresh, flash'[seg].hdr = "valid"
      PROVE  Stored' = View(flash[seg])
  <2>1. LinedUp(flash, seg, seq)
    BY <1>1, <1>2, <1>6 DEF RingInv
  <2>2. LinedUp(flash', seg, seq)
    BY <1>3, <2>1, FewerHeaders
  <2>3. Stored' = View(flash'[seg])
    BY <1>1, <1>2, <1>6, <2>2, StoredNext DEF StoredFacts
  <2>4. \A j \in Slots :
            \/ flash'[seg].slots[j] = flash[seg].slots[j]
            \/ /\ flash[seg].slots[j].st = "empty"
               /\ flash'[seg].slots[j].st \in {"bad", "nocrc"}
    BY <1>1, <1>2, <1>6, TornItems
  <2>5. \A j \in Slots : flash'[seg].slots[j].st = "valid" \/ flash[seg].slots[j].st = "valid"
                         => flash'[seg].slots[j] = flash[seg].slots[j]
    BY <2>4
  <2>6. View(flash'[seg]) = View(flash[seg])
    BY <2>5, ViewSame
  <2> QED BY <2>3, <2>6
<1>7. CASE ~Fresh /\ pc # "wipe"
  <2>1. flash[seg].hdr = "valid"
    BY <1>1, <1>2, <1>7 DEF RingInv
  <2>2. flash'[seg].hdr = "valid"
    BY <1>1, <1>2, <1>7, <2>1, TornElsewhere
  <2>3. Stored = View(flash[seg])
    BY <1>1, <1>7, StoredNow DEF StoredFacts
  <2> QED BY <1>1, <1>6, <1>7, <2>2, <2>3
<1>8. CASE pc = "wipe"
  <2>1. req.kind = "clear" /\ ~Fresh /\ seg \in Int /\ ci \in Int
    BY <1>2, <1>8 DEF IInv, ControlInv, TypeOK, Fresh, Segs
  <2>2. CASE flash'[seg].hdr = "valid"
    <3>1. flash[seg].hdr = "valid"
      BY <1>2, <1>3, <2>2
    <3>2. ~(ci > seg)
      BY <1>2, <1>8, <2>1, <3>1 DEF RingInv
    <3>3. Stored = View(flash[seg])
      BY <1>8, <3>2, StoredNow DEF StoredFacts
    <3> QED BY <1>1, <1>6, <2>1, <2>2, <3>3
  <2>3. CASE flash'[seg].hdr # "valid"
    <3>1. ci >= seg
      <4> SUFFICES ASSUME ~(ci >= seg) PROVE FALSE
        OBVIOUS
      <4>1. ci < seg /\ ci <= seg
        BY <2>1
      <4>2. flash[seg].hdr = "valid"
        BY <1>2, <1>8, <4>1 DEF RingInv
      <4> QED BY <1>1, <1>2, <2>1, <2>3, <4>1, <4>2, TornElsewhere
    <3>2. \A s \in Segs \ {seg} : flash[s].hdr # "valid"
      BY <1>1, <1>8, <3>1 DEF InWipeWindow
    <3>3. NoneValid(flash')
      BY <1>3, <2>3, <3>2 DEF NoneValid
    <3> QED BY <1>1, <1>4, <2>1, <3>3
  <2> QED BY <2>2, <2>3
<1> QED BY <1>5, <1>7, <1>8

\* Every step of the region is a step of the durable store, or none.
LEMMA StepRefines ==
    ASSUME Windows = {}, RingFits, StoreInv, StoreInv', [Next]_vars
    PROVE  [Durable!Next]_(Durable!storeVars)
<1> DEFINE Keep == Stored' = Stored /\ req' = req
<1>1. ASSUME Keep PROVE [Durable!Next]_(Durable!storeVars)
  BY <1>1 DEF Durable!storeVars
<1>2. CASE Boot \/ SegScan \/ NewSegErase \/ NewSegHeader \/ CopyItem \/ CopyDone
  BY <1>1, <1>2, BootKeeps, ScanKeeps, EraseKeeps, HeaderKeeps, CopyKeeps, CopyDoneKeeps
<1>3. CASE RetireSeg \/ RegionClear \/ BootDone \/ WriteItemHeader \/ WipeDone
  BY <1>1, <1>3, HousekeepingKeeps, ItemHeaderKeeps, WipeDoneKeeps
<1>4. CASE WriteItemData \/ ObsoleteOld
  <2>1. req' = req /\ (Stored' = Stored \/ Stored' = [Stored EXCEPT ![req.key] = req.val])
    BY <1>4, ItemDataApplies, ObsoleteApplies
  <2>2. req.kind = "set"
    BY <1>4 DEF WriteItemData, ObsoleteOld, StoreInv, IInv, ControlInv
  <2> QED BY <2>1, <2>2 DEF Durable!Next, Durable!Apply, Durable!Applied, Durable!storeVars
<1>5. CASE WipeSeg
  <2>1. req' = req /\ req.kind = "clear" /\ (Stored' = Stored \/ Stored' = Nothing)
    BY <1>5, WipeApplies
  <2> QED BY <2>1 DEF Durable!Next, Durable!Apply, Durable!Applied, Durable!storeVars, Nothing
<1>6. CASE ClearAll \/ \E k \in Keys : Delete(k) \/ \E v \in Vals : Set(k, v)
  <2>1. req = NoReq /\ Stored' = Stored /\ req' \in Durable!Requests
    BY <1>6, RequestKeeps
  <2> QED BY <2>1 DEF Durable!Next, Durable!Request, Durable!NoReq, NoReq
<1>7. CASE Return
  <2>1. /\ req # NoReq /\ req' = NoReq /\ Stored' = Stored
        /\ \/ req.kind = "set" /\ Stored = [Stored EXCEPT ![req.key] = req.val]
           \/ req.kind = "clear" /\ Stored = Nothing
    BY <1>7, ReturnAnswers
  <2>2. Stored = Durable!Applied
    BY <2>1 DEF Durable!Applied, Nothing
  <2> QED BY <2>1, <2>2 DEF Durable!Next, Durable!Answer, Durable!NoReq, NoReq
<1>8. CASE PowerFailure
  <2>1. req' = NoReq /\ (Stored' = Stored \/ (req.kind = "clear" /\ Stored' = Nothing))
    BY <1>8, FailureKeeps
  <2>2. req.kind = "clear" => Durable!Applied = Nothing
    BY DEF Durable!Applied, Nothing
  <2> QED BY <2>1, <2>2 DEF Durable!Next, Durable!PowerFailure, Durable!NoReq, NoReq
<1>9. CASE UNCHANGED vars
  <2>1. /\ pc' = pc /\ flash' = flash /\ src' = src /\ ci' = ci /\ seg' = seg /\ req' = req
        /\ seq' = seq
    BY <1>9 DEF vars
  <2>2. Stored' = Stored
    <3>1. CASE pc = "off"
      <4>1. flash \in FlashType /\ \E c \in Segs, q \in 0..(SeqMod - 1) : LinedUp(flash, c, q)
        BY <3>1, TypeFacts DEF StoreInv, IInv, RingInv
      <4> DEFINE c == CurrentOnFlash
      <4>2. CASE NoneValid(flash)
        BY <2>1, <3>1, <4>2, StoredNow, StoredNext DEF StoredFacts
      <4>3. CASE ~NoneValid(flash)
        <5>1. c \in Segs /\ flash[c].hdr = "valid" /\ LinedUp(flash, c, flash[c].seq)
          BY <4>1, <4>3, BootFinds
        <5> HIDE DEF c
        <5>2. flash[c].seq \in 0..(SeqMod - 1)
          BY <4>1, <5>1 DEF FlashType, SegType
        <5>3. Stored = View(flash[c])
          BY <3>1, <5>1, <5>2, StoredNow DEF StoredFacts
        <5>4. Stored' = View(flash'[c])
          BY <2>1, <3>1, <5>1, <5>2, StoredNext DEF StoredFacts
        <5> QED BY <2>1, <5>3, <5>4
      <4> QED BY <4>2, <4>3
    <3>2. CASE pc # "off"
      BY <2>1, <3>2, StoredNow, StoredNext DEF StoredFacts, Fresh
    <3> QED BY <3>1, <3>2
  <2> QED BY <1>1, <2>1, <2>2
<1> QED BY <1>2, <1>3, <1>4, <1>5, <1>6, <1>7, <1>8, <1>9 DEF Next

\* The erased region is the empty store.
LEMMA InitRefines == ASSUME RingFits, StoreInv, Init PROVE Durable!Init
<1>1. pc = "off" /\ req = NoReq /\ \A s \in Segs : flash[s].hdr = "empty"
  BY DEF Init, RamInit, EmptySeg
<1>2. NoneValid(flash)
  BY <1>1 DEF NoneValid
<1>3. Stored = Nothing
  BY <1>1, <1>2, StoredNow DEF StoredFacts
<1> QED BY <1>1, <1>3 DEF Durable!Init, Durable!NoReq, NoReq, Nothing

\* Outside the three windows the region is a durable store: every set and
\* delete takes effect at one flash operation, in whichever operation power
\* fails; boots, purges and the erasure of segments change nothing.
THEOREM RegionIsStore ==
    ASSUME Windows = {}, RingFits PROVE Spec => RefinesStore
<1>0. "dup" \notin Windows
  OBVIOUS
<1>1. Spec => []StoreInv
  BY <1>0, StoreInductive
<1>2. StoreInv /\ Init => Durable!Init
  BY InitRefines
<1>3. StoreInv /\ StoreInv' /\ [Next]_vars => [Durable!Next]_(Durable!storeVars)
  BY StepRefines
<1> QED BY <1>1, <1>2, <1>3, PTL DEF Spec, RefinesStore, Durable!Spec

\* And no value is lost but by a clear or a set of its key.
THEOREM NothingEverLost ==
    ASSUME Windows = {}, RingFits PROVE Spec => NothingLost
<1> DEFINE Loss == \A k \in Keys : Stored[k] # None /\ Stored'[k] = None
                      => req.kind = "clear" \/ (req.kind = "set" /\ req.key = k)
<1>0. "dup" \notin Windows
  OBVIOUS
<1>1. Spec => []StoreInv
  BY <1>0, StoreInductive
<1>2. ASSUME StoreInv, [Durable!Next]_(Durable!storeVars) PROVE Loss
  <2>1. req.kind \in {"none", "set", "clear"}
    BY <1>2 DEF StoreInv, IInv, ControlInv, ReqType
  <2>2. CASE Stored' = Stored
    BY <2>2
  <2>3. CASE Stored' = Durable!Applied
    <3>1. CASE req.kind = "none"
      BY <2>3, <3>1 DEF Durable!Applied
    <3>2. CASE req.kind = "clear"
      BY <3>2
    <3>3. CASE req.kind = "set"
      <4>1. Stored' = [Stored EXCEPT ![req.key] = req.val]
        BY <2>3, <3>3 DEF Durable!Applied
      <4>2. \A k : k # req.key => Stored'[k] = Stored[k]
        BY <4>1
      <4> QED BY <3>3, <4>2
    <3> QED BY <2>1, <3>1, <3>2, <3>3
  <2> QED BY <1>2, <2>2, <2>3 DEF Durable!Next, Durable!Request, Durable!Apply,
             Durable!Answer, Durable!PowerFailure, Durable!storeVars
<1>3. StoreInv /\ StoreInv' /\ [Next]_vars => Loss
  BY <1>2, StepRefines
<1> HIDE DEF Loss
<1>4. Spec => [][Loss]_vars
  BY <1>1, <1>3, PTL DEF Spec
<1> QED BY <1>4 DEF NothingLost, Loss
=============================================================================
