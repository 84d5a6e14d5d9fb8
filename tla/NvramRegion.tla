----------------------------- MODULE NvramRegion -----------------------------
(***************************************************************************)
(* zephyr/drivers/nvram/nvram_config.c: the log-structured configuration   *)
(* store in NOR flash.  A region is a ring of NSeg segments, of which the  *)
(* one with a valid header and the newest sequence number is current; a    *)
(* segment holds a header and, in the order written, items of one slot     *)
(* each.  A set appends an item and then marks the old one obsolete; a     *)
(* segment that is full is purged: its valid items are copied to the next. *)
(*                                                                         *)
(* Every flash operation is one step and power may fail between two of     *)
(* them or inside one.  nvram_lock makes calls mutually exclusive, so one  *)
(* call is in progress at a time (`pc').                                   *)
(***************************************************************************)
EXTENDS Integers, FiniteSets

CONSTANTS NSeg,      \* total_size / seg_size
          NSlot,     \* items that fit in a segment
          SeqMod,    \* modulus of the segment sequence number, 256 in the code
          Keys, Vals, None,
          Windows    \* unsafe windows in which power may fail

ASSUME NSegAssumption == NSeg \in Nat /\ NSeg >= 2
ASSUME SeqModAssumption == SeqMod \in Nat /\ SeqMod >= 4
\* Configurations always leave room for the new copy of an item: after a
\* purge region_prepare_write_item does not look at the space again.
ASSUME CapacityAssumption ==
    NSlot \in Nat /\ IsFiniteSet(Keys) /\ Cardinality(Keys) < NSlot
ASSUME NoneAssumption == None \notin Vals
ASSUME WindowsAssumption == Windows \subseteq {"purge", "dup", "wipe"}

Segs == 0..(NSeg - 1)
NoSeg == NSeg
Slots == 1..NSlot

VARIABLES flash,     \* the region
          seg,       \* region_info: seg_offset,
          seq,       \* seg_seq_id,
          wofs,      \* seg_write_offset, as the next slot,
          map,       \* seg_item_map
          pc,        \* the flash operation that is next
          req,       \* the call being served
          old,       \* region_set: old_item_offs, 0 for none
          new, src, upto, ci,   \* a purge: target, source, end and position
          ret        \* where the call in progress goes on after the purge

ram == <<seg, seq, wofs, map>>
purgeVars == <<new, src, upto, ci, ret>>
vars == <<flash, seg, seq, wofs, map, pc, req, old, new, src, upto, ci, ret>>

-----------------------------------------------------------------------------
(* Flash contents.                                                         *)

\* Item states as item_check_validity tells them apart: "nocrc" has a good
\* header and name but incomplete data, "bad" is anything else invalid.
ItemStates == {"empty", "valid", "obsolete", "nocrc", "bad"}
Item(st, k, v) == [st |-> st, key |-> k, val |-> v]
EmptyItem == Item("empty", None, None)
BadItem == Item("bad", None, None)
ObsoletedItem == Item("obsolete", None, None)   \* never read again
TornItem == Item("nocrc", None, None)

EmptySeg == [hdr |-> "empty", seq |-> 0, slots |-> [j \in Slots |-> EmptyItem]]
\* What an interrupted erase may leave.
GarbageSeg == [hdr |-> "bad", seq |-> 0, slots |-> [j \in Slots |-> BadItem]]

\* Programming NOR flash only clears bits: over anything but erased cells the
\* result is garbage.
Program(s, j, item) ==
    [flash EXCEPT ![s].slots[j] = IF @.st = "empty" THEN item ELSE BadItem]

\* item_update_state(..., OBSOLETE): one byte of the item header.
ObsoleteItem(s, j) ==
    [flash EXCEPT ![s].slots[j] =
        IF @.st \in {"valid", "nocrc", "obsolete"}
        THEN ObsoletedItem ELSE BadItem]

Erased(s) == [flash EXCEPT ![s] = EmptySeg]

Least(S) == CHOOSE x \in S : \A y \in S : x <= y

\* (int8_t)(a - b) > 0
SeqNewer(a, b) == (a - b) % SeqMod \in 1..((SeqMod - 1) \div 2)

\* region_scan: the current segment among the first i.
Scan[i \in 0..NSeg] ==
    IF i = 0 THEN NoSeg
    ELSE LET best == Scan[i - 1]
             s == i - 1
         IN IF /\ flash[s].hdr = "valid"
               /\ best = NoSeg \/ SeqNewer(flash[s].seq, flash[best].seq)
            THEN s ELSE best

CurrentOnFlash == Scan[NSeg]

\* region_seg_scan: the first slot that is not an intact item.
ScanEnd(s) ==
    Least({j \in Slots : flash[s].slots[j].st \notin {"valid", "obsolete"}}
          \cup {NSlot + 1})

ValidBefore(s, end) == {j \in 1..(end - 1) : flash[s].slots[j].st = "valid"}

\* region_find_item: the first item of that name the bitmap leads to, or 0.
region_find_item(k) ==
    LET found == {j \in map : /\ flash[seg].slots[j].st = "valid"
                              /\ flash[seg].slots[j].key = k}
    IN IF found = {} THEN 0 ELSE Least(found)

\* region_get
region_get(k) ==
    LET j == region_find_item(k)
    IN IF j = 0 THEN None ELSE flash[seg].slots[j].val

\* Mutant: the ring of segments is not closed.
NextSeg_NoWrap(s) == s + 1

NextSeg(s) == IF s + 1 = NSeg THEN 0 ELSE s + 1

\* ROUND_UP(total_size / 2, seg_size), at most all but the current segment.
ClearCount == LET half == (NSeg + 1) \div 2
              IN IF half > NSeg - 1 THEN NSeg - 1 ELSE half

NoReq == [kind |-> "none", key |-> None, val |-> None]

-----------------------------------------------------------------------------
RamInit ==
    /\ seg = 0 /\ seq = 0 /\ wofs = 1 /\ map = {}
    /\ req = NoReq /\ old = 0
    /\ new = 0 /\ src = NoSeg /\ upto = 1 /\ ci = 0 /\ ret = "clear"

\* A device whose flash is erased, before its first boot.
Init ==
    /\ flash = [s \in Segs |-> EmptySeg]
    /\ pc = "off"
    /\ RamInit

-----------------------------------------------------------------------------
(* Starting, purging: region_scan, region_seg_scan, region_purge_seg.      *)

\* nvram_config_init, region_scan: choose the current segment, or start one.
Boot ==
    /\ pc = "off"
    /\ IF CurrentOnFlash = NoSeg
       THEN /\ pc' = "erase" /\ new' = 0
            /\ UNCHANGED <<seg, seq>>
       ELSE /\ pc' = "scan" /\ seg' = CurrentOnFlash
            /\ seq' = flash[CurrentOnFlash].seq
            /\ new' = new
    /\ src' = NoSeg /\ ret' = "clear"
    /\ UNCHANGED <<flash, wofs, map, req, old, upto, ci>>

\* region_seg_scan: rebuild the bitmap and the write offset; purge a segment
\* that is full, damaged or not clean behind the write offset.  An item with
\* a wrong checksum is meant to be marked obsolete, but the offset passed has
\* the segment's base subtracted: the byte written is in segment 0.
SegScan ==
    /\ pc = "scan"
    /\ LET end == ScanEnd(seg)
           dirty == \E j \in end..NSlot : flash[seg].slots[j].st # "empty"
       IN /\ map' = ValidBefore(seg, end)
          /\ wofs' = end
          /\ flash' = IF end <= NSlot /\ flash[seg].slots[end].st = "nocrc"
                      THEN ObsoleteItem(0, end) ELSE flash
          /\ IF end > NSlot \/ dirty
             THEN /\ pc' = "erase" /\ new' = NextSeg(seg)
                  /\ src' = seg /\ upto' = end
                  /\ UNCHANGED ci
             ELSE /\ pc' = "clear" /\ ci' = 1
                  /\ UNCHANGED <<new, src, upto>>
    /\ UNCHANGED <<seg, seq, req, old, ret>>

\* region_purge_seg, region_init_new_seg: the target is erased first ...
NewSegErase ==
    /\ pc = "erase"
    /\ flash' = Erased(new)
    /\ pc' = "header"
    /\ UNCHANGED <<ram, req, old, purgeVars>>

\* ... then gets a valid header with the next number and becomes current.
NewSegHeader ==
    LET n == (seq + 1) % SeqMod IN
    /\ pc = "header"
    /\ flash' = [flash EXCEPT ![new].hdr = IF @ = "empty" THEN "valid" ELSE "bad",
                              ![new].seq = n]
    /\ seg' = new /\ seq' = n /\ wofs' = 1 /\ map' = {}
    /\ pc' = IF src = NoSeg THEN ret ELSE "copy"
    /\ ci' = 1
    /\ UNCHANGED <<req, old, new, src, upto, ret>>

\* Mutant: the copy stops one item early.
CopyContinues_OneShort ==
    /\ ci < upto - 1
    /\ flash[src].slots[ci].st \in
          {"valid", "obsolete"} \cup (IF ret = "item" THEN {"nocrc"} ELSE {})

\* region_copy_seg goes on to the old write offset, or to an item that
\* item_check_validity refuses; it checks data only in a purge at boot.
CopyContinues ==
    /\ ci < upto
    /\ flash[src].slots[ci].st \in
          {"valid", "obsolete"} \cup (IF ret = "item" THEN {"nocrc"} ELSE {})

\* Valid items are copied, obsolete ones are left behind.
CopyItem ==
    LET item == flash[src].slots[ci] IN
    /\ pc = "copy" /\ CopyContinues
    /\ IF item.st # "obsolete"
       THEN /\ flash' = Program(new, wofs, item)
            /\ map' = map \cup {wofs} /\ wofs' = wofs + 1
       ELSE UNCHANGED <<flash, map, wofs>>
    /\ ci' = ci + 1
    /\ UNCHANGED <<seg, seq, pc, req, old, new, src, upto, ret>>

CopyDone ==
    /\ pc = "copy" /\ ~CopyContinues
    /\ pc' = "retire"
    /\ UNCHANGED <<flash, ram, req, old, purgeVars>>

\* region_seg_update_state(old segment, OBSOLETE), the purge's last step.
RetireSeg ==
    /\ pc = "retire"
    /\ flash' = [flash EXCEPT ![src].hdr = "obsolete"]
    /\ pc' = ret
    /\ new' = 0 /\ src' = NoSeg /\ upto' = 1 /\ ci' = 1 /\ ret' = "clear"
    /\ UNCHANGED <<ram, req, old>>

\* nvram_config_init, region_clear: the ci-th segment after the current one
\* is erased so that later purges find it empty.
RegionClear ==
    /\ pc = "clear" /\ ci <= ClearCount
    /\ flash' = Erased((seg + ci) % NSeg)
    /\ ci' = ci + 1
    /\ UNCHANGED <<ram, pc, req, old, new, src, upto, ret>>

BootDone ==
    /\ pc = "clear" /\ ci > ClearCount
    /\ pc' = "idle" /\ ci' = 1
    /\ UNCHANGED <<flash, ram, req, old, new, src, upto, ret>>

-----------------------------------------------------------------------------
(* region_set under nvram_config_set.                                      *)

\* Mutant: region_prepare_write_item never purges.
Set_NoPurge(k, v) ==
    /\ pc = "idle"
    /\ req' = [kind |-> "set", key |-> k, val |-> v]
    /\ pc' = IF region_get(k) = v THEN "done" ELSE "item"
    /\ UNCHANGED <<flash, ram, old, new, src, upto, ret, ci>>

\* nvram_config_set(name, data, len) with len > 0.
Set(k, v) ==
    /\ pc = "idle"
    /\ req' = [kind |-> "set", key |-> k, val |-> v]
    /\ CASE region_get(k) = v ->                    \* region_is_same_config_data
              pc' = "done" /\ UNCHANGED <<new, src, upto, ret>>
         [] region_get(k) # v /\ wofs > NSlot ->    \* region_prepare_write_item
              /\ pc' = "erase" /\ new' = NextSeg(seg)
              /\ src' = seg /\ upto' = wofs /\ ret' = "item"
         [] OTHER -> pc' = "item" /\ UNCHANGED <<new, src, upto, ret>>
    /\ UNCHANGED <<flash, ram, old, ci>>

\* nvram_config_set with len = 0 deletes.
Delete(k) ==
    /\ pc = "idle"
    /\ req' = [kind |-> "set", key |-> k, val |-> None]
    /\ old' = region_find_item(k)
    /\ pc' = IF old' = 0 THEN "done" ELSE "obsolete"
    /\ UNCHANGED <<flash, ram, purgeVars>>

\* region_write_item: header and name, at the write offset.
WriteItemHeader ==
    /\ pc = "item"
    /\ old' = region_find_item(req.key)
    /\ flash' = Program(seg, wofs, TornItem)
    /\ pc' = "data"
    /\ UNCHANGED <<ram, req, purgeVars>>

\* Mutant: the old item is not obsoleted.
WriteItemData_KeepOld ==
    /\ pc = "data"
    /\ flash' = [flash EXCEPT ![seg].slots[wofs] = Item("valid", req.key, req.val)]
    /\ map' = map \cup {wofs} /\ wofs' = wofs + 1
    /\ pc' = "done"
    /\ UNCHANGED <<seg, seq, req, old, purgeVars>>

\* region_write_data completes the item, the bitmap bit makes it visible.
WriteItemData ==
    /\ pc = "data"
    /\ flash' = [flash EXCEPT ![seg].slots[wofs] =
                   IF @.st = "nocrc" THEN Item("valid", req.key, req.val) ELSE BadItem]
    /\ map' = map \cup {wofs} /\ wofs' = wofs + 1
    /\ pc' = IF old = 0 THEN "done" ELSE "obsolete"
    /\ UNCHANGED <<seg, seq, req, old, purgeVars>>

\* Mutant: the bit of the old item stays set.
ObsoleteOld_KeepBit ==
    /\ pc = "obsolete"
    /\ flash' = ObsoleteItem(seg, old)
    /\ pc' = "done"
    /\ UNCHANGED <<seg, seq, wofs, map, req, old, purgeVars>>

\* The old item is marked obsolete and leaves the bitmap.
ObsoleteOld ==
    /\ pc = "obsolete"
    /\ flash' = ObsoleteItem(seg, old)
    /\ map' = map \ {old}
    /\ pc' = "done"
    /\ UNCHANGED <<seg, seq, wofs, req, old, purgeVars>>

\* The call returns 0.
Return ==
    /\ pc = "done"
    /\ pc' = "idle" /\ req' = NoReq /\ old' = 0 /\ ret' = "clear"
    /\ UNCHANGED <<flash, ram, new, src, upto, ci>>

-----------------------------------------------------------------------------
(* nvram_config_clear_all: erase every segment, then scan and start anew.  *)

ClearAll ==
    /\ pc = "idle"
    /\ req' = [kind |-> "clear", key |-> None, val |-> None]
    /\ pc' = "wipe" /\ ci' = 0
    /\ UNCHANGED <<flash, ram, old, new, src, upto, ret>>

WipeSeg ==
    /\ pc = "wipe" /\ ci < NSeg
    /\ flash' = Erased(ci)
    /\ ci' = ci + 1
    /\ UNCHANGED <<ram, pc, req, old, new, src, upto, ret>>

WipeDone ==
    /\ pc = "wipe" /\ ci = NSeg
    /\ pc' = "erase" /\ new' = 0 /\ src' = NoSeg /\ ret' = "done"
    /\ UNCHANGED <<flash, ram, req, old, upto, ci>>

-----------------------------------------------------------------------------
(* Power failure.                                                          *)

\* The flash a failure inside the next operation may leave, besides the one
\* before and the one after it.  A state byte is programmed as a whole.
TornFlash ==
    CASE pc = "erase"  -> {[flash EXCEPT ![new] = GarbageSeg]}
      [] pc = "wipe" /\ ci < NSeg -> {[flash EXCEPT ![ci] = GarbageSeg]}
      [] pc = "clear" /\ ci <= ClearCount ->
            {[flash EXCEPT ![(seg + ci) % NSeg] = GarbageSeg]}
      [] pc = "header" -> {[flash EXCEPT ![new].hdr = "bad"]}
      [] pc = "item"   -> {Program(seg, wofs, BadItem)}
      [] pc = "copy" /\ CopyContinues ->
            {Program(new, wofs, BadItem),
             Program(new, wofs, TornItem)}
      [] OTHER -> {}

\* The windows in which the flash holds less, or more, than one consistent
\* copy: the new segment has the newest valid header but not all the items
\* yet; the new item is complete and the old one still valid; the current
\* segment is wiped before one that a failure kept from being retired and that
\* region_clear, which erases half of the region, did not reach.
InPurgeWindow == pc = "copy"
InDupWindow == pc = "obsolete" /\ req.val # None
InWipeWindow ==
    /\ pc = "wipe" /\ ci >= seg
    /\ \E s \in Segs \ {seg} : flash[s].hdr = "valid"

PowerFailure ==
    /\ pc # "off"
    /\ InPurgeWindow => "purge" \in Windows
    /\ InDupWindow => "dup" \in Windows
    /\ InWipeWindow => "wipe" \in Windows
    /\ flash' \in {flash} \cup TornFlash
    /\ pc' = "off" /\ req' = NoReq /\ old' = 0
    /\ seg' = 0 /\ seq' = 0 /\ wofs' = 1 /\ map' = {}
    /\ new' = 0 /\ src' = NoSeg /\ upto' = 1 /\ ci' = 0 /\ ret' = "clear"

-----------------------------------------------------------------------------
Next ==
    \/ Boot \/ SegScan \/ NewSegErase \/ NewSegHeader \/ CopyItem \/ CopyDone
    \/ RetireSeg \/ RegionClear \/ BootDone
    \/ \E k \in Keys : Delete(k) \/ \E v \in Vals : Set(k, v)
    \/ WriteItemHeader \/ WriteItemData \/ ObsoleteOld \/ Return
    \/ ClearAll \/ WipeSeg \/ WipeDone
    \/ PowerFailure

Spec == Init /\ [][Next]_vars

-----------------------------------------------------------------------------
(* Properties.                                                             *)

\* Every variable has its type.
TypeOK ==
    /\ flash \in [Segs -> [hdr : {"empty", "valid", "obsolete", "bad"},
                           seq : 0..(SeqMod - 1),
                           slots : [Slots -> [st : ItemStates,
                                              key : Keys \cup {None},
                                              val : Vals \cup {None}]]]]
    /\ seg \in Segs /\ seq \in 0..(SeqMod - 1) /\ wofs \in 1..(NSlot + 1)
    /\ map \subseteq Slots
    /\ old \in 0..NSlot /\ new \in Segs /\ src \in Segs \cup {NoSeg}
    /\ upto \in 1..(NSlot + 1) /\ ci \in 0..(NSlot + NSeg)

\* Whenever an item is about to be written (region_write_item), its slot lies
\* inside the segment and is erased: the single purge made room, and nothing
\* was left behind by a write that power interrupted.
RoomForWrite ==
    pc = "item" => wofs <= NSlot /\ flash[seg].slots[wofs].st = "empty"

\* The bitmap and the write offset in RAM agree with the flash between calls:
\* the bits are the valid items, and everything behind the offset is erased.
BitmapExact ==
    pc = "idle" =>
        /\ map = {j \in Slots : flash[seg].slots[j].st = "valid"}
        /\ \A j \in wofs..NSlot : flash[seg].slots[j].st = "empty"
        /\ seg = CurrentOnFlash

\* A set that returns 0 is what the next get returns (property_manager.h:
\* "@return == 0  set success").
SetTakesEffect ==
    pc = "done" /\ req.kind = "set" => region_get(req.key) = req.val

\* What a boot from the flash as it is would find.
FlashView(s) ==
    [k \in Keys |->
        LET found == {j \in ValidBefore(s, ScanEnd(s)) : flash[s].slots[j].key = k}
        IN IF found = {} THEN None ELSE flash[s].slots[Least(found)].val]

Stored ==
    IF pc = "copy" THEN FlashView(src)
    ELSE IF (pc = "wipe" /\ ci > seg) \/ CurrentOnFlash = NoSeg
    THEN [k \in Keys |-> None]
    ELSE FlashView(CurrentOnFlash)

Durable == INSTANCE DurableStore WITH store <- Stored

\* The region is a durable store: a set or delete takes effect atomically
\* whatever flash operation power fails in, purges and boots change nothing.
RefinesStore == Durable!Spec

\* The segment boot would pick is never one that power could find half
\* copied, and the data is only ever lost by a clear: nvram_config.c,
\* "Non-volatile" storage.
NothingLost ==
    [][\A k \in Keys : Stored[k] # None /\ Stored'[k] = None
          => req.kind = "clear" \/ (req.kind = "set" /\ req.key = k)]_vars
==============================================================================
