------------------------- MODULE PropertyCacheProofs -------------------------
(***************************************************************************)
(* The property cache for any number of threads, keys and slots: types,    *)
(* one slot per key, the mutual exclusion of the loops, that               *)
(* property_flush(NULL) leaves nothing behind that the store accepts, and, *)
(* if no name is a prefix of another, that cache and store are one map.    *)
(***************************************************************************)
EXTENDS PropertyCache, WellFoundedInduction, TLAPS

\* What a flush loop over all names has passed is out of the cache, or was
\* refused by the store.
PassedFlushed ==
    \A t \in Threads, s \in Slots :
        pc[t] = "flush" /\ arg[t] = None /\ s < i[t] /\ cache[s].used =>
            cache[s].data \in TooBig

\* The inductive invariant: PassedFlushed is kept because LoopsExclusive
\* keeps every other thread out of the table.
IInv == TypeOK /\ OneSlotPerKey /\ LoopsExclusive /\ PassedFlushed

\* An entry of the table.
Item == [used : BOOLEAN, name : Keys \cup {None}, data : Vals \cup {None}, req : BOOLEAN]

-----------------------------------------------------------------------------
\* An unused entry is an entry.
LEMMA FreeItemType == FreeItem \in Item
BY DEF FreeItem, Item

\* A search that can succeed has a first hit.
LEMMA FirstExists ==
    ASSUME NEW S, S \subseteq Slots, S # {}
    PROVE  \E s \in Slots : First(s, S)
<1> DEFINE R == OpToRel(<, Nat)
<1>1. S \subseteq Nat
  BY NCacheAssumption DEF Slots
<1>2. PICK x \in S : \A y \in S : ~(<<y, x>> \in R)
  <2> HIDE DEF R
  <2> QED BY <1>1, WFMin, NatLessThanWellFounded, Zenon DEF R
<1>3. ASSUME NEW y \in S PROVE x <= y
  <2>1. ~(<<y, x>> \in R) /\ x \in Nat /\ y \in Nat
    BY <1>1, <1>2
  <2>2. ~(y < x)
    BY <2>1 DEF OpToRel
  <2>3. x \in Nat /\ y \in Nat
    BY <2>1
  <2> HIDE DEF R
  <2> QED BY <2>2, <2>3
<1> QED BY <1>2, <1>3 DEF First

\* What a get finds is the data of an entry that is in use.
LEMMA GetFinds ==
    ASSUME NEW k \in Keys, Matches(k) # {}
    PROVE  \E s \in Slots : cache[s].used /\ property_cache_get(k) = cache[s].data
<1> DEFINE f == CHOOSE s \in Slots : First(s, Matches(k))
<1>1. \E s \in Slots : First(s, Matches(k))
  <2>1. Matches(k) \subseteq Slots
    BY DEF Matches
  <2> QED BY <2>1, FirstExists
<1>2. f \in Slots /\ First(f, Matches(k))
  BY <1>1
<1>3. property_cache_get(k) = cache[f].data
  BY DEF property_cache_get
<1>4. cache[f].used
  BY <1>2 DEF First, Matches, NameMatches
<1> QED BY <1>2, <1>3, <1>4

\* The invariant holds initially.
LEMMA InitIInv == Init => IInv
<1> SUFFICES ASSUME Init PROVE IInv
  OBVIOUS
<1>1. TypeOK
  <2>1. cache \in [Slots -> Item]
    BY FreeItemType DEF Init
  <2>2. 1 \in 1..(NCache + 1) /\ 0 \in 0..MaxVotes
    BY NCacheAssumption, MaxVotesAssumption
  <2> QED BY <2>1, <2>2 DEF Init, TypeOK, Item, Pcs
<1> QED BY <1>1, ThreadsAssumption
        DEF Init, IInv, OneSlotPerKey, LoopsExclusive, PassedFlushed, FreeItem

\* While no thread is inside a loop, the table may change: only OneSlotPerKey
\* depends on how.
LEMMA OutsideLoops ==
    ASSUME IInv, lock = None, UNCHANGED <<pc, arg, i, lock>>, TypeOK', OneSlotPerKey'
    PROVE  IInv'
<1>1. \A t \in Threads : pc[t] # "flush"
  BY ThreadsAssumption DEF IInv, LoopsExclusive
<1> QED BY <1>1 DEF IInv, LoopsExclusive, PassedFlushed

\* property_cache_set preserves the invariant.
LEMMA SetIInv ==
    ASSUME IInv, NEW t \in Threads, NEW k \in Keys, NEW v \in Vals,
           SetCached(t, k, v) \/ SetNew(t, k, v) \/ SetDirect(t, k, v)
    PROVE  IInv'
<1> USE DEF IInv
<1>1. CASE SetCached(t, k, v)
  <2>1. PICK s \in Slots : cache' = [cache EXCEPT ![s].data = v]
    BY <1>1 DEF SetCached
  <2>2. cache' \in [Slots -> Item]
    BY <2>1 DEF TypeOK, Item
  <2>3. TypeOK'
    BY <1>1, <2>2 DEF SetCached, TypeOK, Item
  <2>4. \A r \in Slots : cache'[r].used = cache[r].used /\ cache'[r].name = cache[r].name
    BY <2>1 DEF TypeOK
  <2>5. OneSlotPerKey'
    BY <2>4 DEF OneSlotPerKey
  <2> QED BY <1>1, <2>3, <2>5, OutsideLoops DEF SetCached, SetStart
<1>2. CASE SetNew(t, k, v)
  <2>1. PICK s \in Slots : cache' = [cache EXCEPT ![s] = UsedItem(k, v)]
    BY <1>2 DEF SetNew
  <2>2. cache' \in [Slots -> Item]
    BY <2>1 DEF TypeOK, Item, UsedItem
  <2>3. TypeOK'
    BY <1>2, <2>2 DEF SetNew, TypeOK, Item
  <2>4. \A r \in Slots : cache[r].used => cache[r].name # k
    BY <1>2 DEF SetNew, Matches, NameMatches
  <2>5. OneSlotPerKey'
    BY <2>1, <2>4 DEF OneSlotPerKey, UsedItem, TypeOK
  <2> QED BY <1>2, <2>3, <2>5, OutsideLoops DEF SetNew, SetStart
<1>3. CASE SetDirect(t, k, v)
  <2>1. nv' \in [Keys -> Vals \cup {None}]
    BY <1>3 DEF SetDirect, NvSet, TypeOK
  <2>2. TypeOK' /\ OneSlotPerKey'
    BY <1>3, <2>1 DEF SetDirect, TypeOK, OneSlotPerKey
  <2> QED BY <1>3, <2>2, OutsideLoops DEF SetDirect, SetStart
<1> QED BY <1>1, <1>2, <1>3

\* A step that leaves table, mutex and loop indices alone and moves one
\* thread between places outside the loops preserves the invariant.
LEMMA OutsideStep ==
    ASSUME IInv, NEW t \in Threads, pc[t] \notin {"flush", "deal"},
           NEW p \in Pcs \ {"flush", "deal"}, pc' = [pc EXCEPT ![t] = p],
           UNCHANGED <<cache, nv, lock, i>>, votes' \in 0..MaxVotes,
           need_flush' \in BOOLEAN,
           NEW n \in Keys \cup {None}, arg' \in {arg, [arg EXCEPT ![t] = n]}
    PROVE  IInv'
<1> USE DEF IInv
<1>1. arg' \in [Threads -> Keys \cup {None}] /\ pc' \in [Threads -> Pcs]
  BY DEF TypeOK
<1>2. TypeOK' /\ OneSlotPerKey'
  BY <1>1 DEF TypeOK, OneSlotPerKey
<1>3. LoopsExclusive'
  BY DEF LoopsExclusive, TypeOK
<1>4. PassedFlushed'
  BY DEF PassedFlushed, TypeOK
<1> QED BY <1>2, <1>3, <1>4

\* Entering a loop with the mutex preserves the invariant.
LEMMA LockIInv ==
    ASSUME IInv, NEW t \in Threads, FlushLock(t) \/ DealLock(t)
    PROVE  IInv'
<1> USE DEF IInv
<1>1. PICK p \in {"flush", "deal"} : pc' = [pc EXCEPT ![t] = p]
  BY DEF FlushLock, DealLock
<1>2. /\ lock = None /\ lock' = t /\ i' = [i EXCEPT ![t] = 1]
      /\ UNCHANGED <<cache, nv, need_flush, votes, arg>>
  BY DEF FlushLock, DealLock
<1>3. TypeOK' /\ OneSlotPerKey'
  BY <1>1, <1>2, NCacheAssumption DEF TypeOK, OneSlotPerKey, Pcs
<1>4. LoopsExclusive'
  BY <1>1, <1>2, ThreadsAssumption DEF LoopsExclusive, TypeOK
<1>5. PassedFlushed'
  <2>1. \A u \in Threads : pc[u] # "flush"
    BY <1>2, ThreadsAssumption DEF LoopsExclusive
  <2>2. ASSUME NEW u \in Threads, NEW s \in Slots, pc'[u] = "flush", s < i'[u]
        PROVE  FALSE
    <3>1. u = t
      BY <1>1, <2>1, <2>2 DEF TypeOK
    <3>2. i'[u] = 1
      BY <1>2, <3>1 DEF TypeOK
    <3> QED BY <2>2, <3>2, NCacheAssumption DEF Slots
  <2> QED BY <2>2 DEF PassedFlushed
<1> QED BY <1>3, <1>4, <1>5

\* Leaving a loop preserves the invariant.
LEMMA UnlockIInv ==
    ASSUME IInv, NEW t \in Threads, FlushUnlock(t) \/ DealUnlock(t)
    PROVE  IInv'
<1> USE DEF IInv
<1>1. PICK p \in {"flush_unvote", "deal_end"} : pc' = [pc EXCEPT ![t] = p]
  BY DEF FlushUnlock, DealUnlock
<1>2. /\ lock' = None /\ i' = [i EXCEPT ![t] = 1] /\ pc[t] \in {"flush", "deal"}
      /\ UNCHANGED <<cache, nv, need_flush, votes, arg>>
  BY DEF FlushUnlock, DealUnlock
<1>3. TypeOK' /\ OneSlotPerKey'
  BY <1>1, <1>2, NCacheAssumption DEF TypeOK, OneSlotPerKey, Pcs
<1>4. LoopsExclusive'
  BY <1>1, <1>2, ThreadsAssumption DEF LoopsExclusive, TypeOK
<1>5. PassedFlushed'
  BY <1>1, <1>2 DEF PassedFlushed, TypeOK
<1> QED BY <1>3, <1>4, <1>5

\* A round of either loop: it stores at most the entry it has reached, and
\* removes it if the store took it.
LEMMA RoundIInv ==
    ASSUME IInv, NEW t \in Threads, FlushItem(t) \/ DealItem(t)
    PROVE  IInv'
<1> USE DEF IInv
<1> DEFINE s == i[t]
<1>1. s \in Slots /\ lock = t /\ pc[t] \in {"flush", "deal"}
  BY NCacheAssumption DEF FlushItem, DealItem, TypeOK, LoopsExclusive, Slots
<1>2. i' = [i EXCEPT ![t] = s + 1] /\ UNCHANGED <<need_flush, votes, lock, pc, arg>>
  BY DEF FlushItem, DealItem
<1>3. \/ cache' = cache
      \/ cache' = [cache EXCEPT ![s] = FreeItem]
      \/ cache[s].data \in TooBig /\ cache' = [cache EXCEPT ![s].req = FALSE]
  BY DEF FlushItem, DealItem, TypeOK
<1>4. nv' = nv \/ (cache[s].used /\ nv' = NvSet(cache[s].name, cache[s].data))
  BY DEF FlushItem, DealItem, Selected
<1>5. TypeOK'
  <2>1. nv' \in [Keys -> Vals \cup {None}]
    BY <1>1, <1>4 DEF NvSet, TypeOK
  <2>2. cache' \in [Slots -> Item]
    <3>1. CASE cache' = cache \/ cache' = [cache EXCEPT ![s] = FreeItem]
      BY <3>1, FreeItemType DEF TypeOK, Item
    <3>2. CASE cache' = [cache EXCEPT ![s].req = FALSE]
      BY <1>1, <3>2 DEF TypeOK, Item
    <3> QED BY <1>3, <3>1, <3>2
  <2>3. i' \in [Threads -> 1..(NCache + 1)]
    BY <1>1, <1>2, NCacheAssumption DEF TypeOK, Slots
  <2> QED BY <1>2, <2>1, <2>2, <2>3 DEF TypeOK, Item
<1>6. \A r \in Slots : /\ r # s => cache'[r] = cache[r]
                       /\ cache'[r].used => cache[r].used /\ cache'[r].name = cache[r].name
                                            /\ cache'[r].data = cache[r].data
  BY <1>1, <1>3 DEF TypeOK, FreeItem
<1>7. OneSlotPerKey'
  BY <1>6 DEF OneSlotPerKey
<1>8. LoopsExclusive'
  BY <1>2 DEF LoopsExclusive
<1>9. PassedFlushed'
  <2> SUFFICES ASSUME NEW u \in Threads, NEW r \in Slots, pc[u] = "flush",
                      arg[u] = None, r < i'[u], cache'[r].used
               PROVE  cache'[r].data \in TooBig
    BY <1>2 DEF PassedFlushed
  <2>1. u = t
    BY <1>1 DEF LoopsExclusive
  <2>2. CASE r < s
    BY <1>6, <2>1, <2>2 DEF PassedFlushed
  <2>3. CASE r = s
    <3>1. FlushItem(t) /\ cache[s].used
      BY <1>6, <2>1, <2>3 DEF DealItem
    <3>2. Selected(s, arg[t])
      BY <2>1, <3>1 DEF Selected
    <3>3. cache[s].data \in TooBig
      BY <1>1, <2>3, <3>1, <3>2 DEF FlushItem, FreeItem, TypeOK
    <3> QED BY <1>6, <2>3, <3>3
  <2>4. r < s \/ r = s
    BY <1>1, <1>2, <2>1, NCacheAssumption DEF TypeOK, Slots
  <2> QED BY <2>2, <2>3, <2>4
<1> QED BY <1>5, <1>7, <1>8, <1>9

\* property_cache_flush_req preserves the invariant.
LEMMA FlushReqIInv ==
    ASSUME IInv, NEW t \in Threads, NEW n \in Keys \cup {None}, FlushReq(t, n)
    PROVE  IInv'
<1> USE DEF IInv
<1>1. \A r \in Slots : cache'[r].used = cache[r].used /\ cache'[r].name = cache[r].name
                       /\ cache'[r] \in Item
  BY DEF FlushReq, TypeOK, Item
<1>2. cache' \in [Slots -> Item]
  BY <1>1 DEF FlushReq
<1>3. pc' \in [Threads -> Pcs]
  BY DEF FlushReq, TypeOK, Pcs
<1>4. TypeOK'
  BY <1>2, <1>3 DEF FlushReq, TypeOK, Item
<1>5. OneSlotPerKey'
  BY <1>1 DEF OneSlotPerKey
<1>6. \A u \in Threads : pc'[u] \notin {"flush", "deal"} /\ lock' # u
  BY ThreadsAssumption DEF FlushReq, LoopsExclusive, TypeOK
<1> QED BY <1>4, <1>5, <1>6 DEF LoopsExclusive, PassedFlushed

\* Power failure preserves the invariant.
LEMMA PowerIInv == IInv /\ PowerFailure => IInv'
<1> SUFFICES ASSUME IInv, PowerFailure PROVE IInv'
  OBVIOUS
<1>1. TypeOK'
  <2>1. cache' \in [Slots -> Item]
    BY FreeItemType DEF PowerFailure
  <2>2. 1 \in 1..(NCache + 1) /\ 0 \in 0..MaxVotes
    BY NCacheAssumption, MaxVotesAssumption
  <2> QED BY <2>1, <2>2 DEF PowerFailure, IInv, TypeOK, Item, Pcs
<1> QED BY <1>1, ThreadsAssumption
        DEF PowerFailure, IInv, OneSlotPerKey, LoopsExclusive, PassedFlushed, FreeItem

\* The invariant is inductive.
LEMMA StepIInv == IInv /\ [Next]_vars => IInv'
<1> SUFFICES ASSUME IInv, [Next]_vars PROVE IInv'
  OBVIOUS
<1>0. Voted \in 0..MaxVotes /\ Unvoted \in 0..MaxVotes /\ votes \in 0..MaxVotes
  BY MaxVotesAssumption DEF IInv, TypeOK, Voted, Unvoted
<1>1. ASSUME NEW t \in Threads, Call(t) PROVE IInv'
  <2>1. ASSUME NEW n \in Keys \cup {None}, FlushVote(t, n) PROVE IInv'
    BY <1>0, <2>1, OutsideStep DEF FlushVote, Pcs, IInv, TypeOK
  <2>2. CASE DealBegin(t)
    BY <1>0, <2>2, OutsideStep DEF DealBegin, Pcs, IInv, TypeOK
  <2> QED BY <1>1, <2>1, <2>2, SetIInv, FlushReqIInv DEF Call
<1>2. ASSUME NEW t \in Threads, Step(t) PROVE IInv'
  <2>1. CASE FlushUnvote(t)
    BY <1>0, <2>1, OutsideStep DEF FlushUnvote, Pcs, IInv, TypeOK
  <2>2. CASE FlushReqMark(t)
    BY <1>0, <2>2, OutsideStep DEF FlushReqMark, Pcs, IInv, TypeOK
  <2>3. CASE DealEnd(t)
    BY <1>0, <2>3, OutsideStep DEF DealEnd, Pcs, IInv, TypeOK
  <2>4. CASE DealUnvote(t)
    BY <1>0, <2>4, OutsideStep DEF DealUnvote, Pcs, IInv, TypeOK
  <2>5. CASE DealClear(t)
    BY <1>0, <2>5, OutsideStep DEF DealClear, Pcs, IInv, TypeOK
  <2> QED BY <1>2, <2>1, <2>2, <2>3, <2>4, <2>5, LockIInv, UnlockIInv, RoundIInv DEF Step
<1>3. CASE UNCHANGED vars
  BY <1>3 DEF vars, IInv, TypeOK, OneSlotPerKey, LoopsExclusive, PassedFlushed
<1> QED BY <1>1, <1>2, <1>3, PowerIInv DEF Next

\* The invariant holds in every reachable state.
LEMMA AlwaysIInv == Spec => []IInv
BY InitIInv, StepIInv, PTL DEF Spec

-----------------------------------------------------------------------------
\* Type correctness, the limits of the dvfs vote counter included.
THEOREM TypeCorrect == Spec => []TypeOK
BY AlwaysIInv, PTL DEF IInv

\* property_cache_set never gives a key a second slot, with any number of
\* threads setting and flushing, and whatever names are prefixes of others.
THEOREM OneSlotAlways == Spec => []OneSlotPerKey
BY AlwaysIInv, PTL DEF IInv

\* The loops of property_cache_flush and property_cache_flush_req_deal run
\* one at a time, under nvram_cache_mutex.
THEOREM LoopsAlwaysExclusive == Spec => []LoopsExclusive
BY AlwaysIInv, PTL DEF IInv

\* When property_flush(NULL) ends, the store holds every value that a get
\* returns and that it can hold at all.
THEOREM FlushAllAlwaysPersists == Spec => []FlushAllPersists
<1>1. IInv => FlushAllPersists
  <2> SUFFICES ASSUME IInv, NEW t \in Threads, pc[t] = "flush", arg[t] = None,
                      i[t] > NCache, NEW k \in Keys
               PROVE  property_cache_get(k) \in TooBig \cup {nv[k]}
    BY DEF FlushAllPersists
  <2>1. CASE Matches(k) = {}
    BY <2>1 DEF property_cache_get
  <2>2. CASE Matches(k) # {}
    <3>1. PICK s \in Slots : cache[s].used /\ property_cache_get(k) = cache[s].data
      BY <2>2, GetFinds
    <3>2. s < i[t]
      BY NCacheAssumption DEF IInv, TypeOK, Slots
    <3> QED BY <3>1, <3>2 DEF IInv, PassedFlushed
  <2> QED BY <2>1, <2>2
<1> QED BY <1>1, AlwaysIInv, PTL

-----------------------------------------------------------------------------
(* Cache and store are one map, as long as no name is a prefix of another. *)

\* What a get returns: the value in the key's slot, or what the store has.
GetIsSlot ==
    \A k \in Keys :
        /\ \A s \in Slots : cache[s].used /\ cache[s].name = k =>
              property_cache_get(k) = cache[s].data
        /\ (\A s \in Slots : ~(cache[s].used /\ cache[s].name = k)) =>
              property_cache_get(k) = nv[k]

\* This is so before and after every step.
LEMMA GetSlot ==
    ASSUME PrefixOf = {}
    PROVE  (IInv => GetIsSlot) /\ (IInv' => GetIsSlot')
<1>1. IInv => GetIsSlot
  <2> SUFFICES ASSUME IInv, NEW k \in Keys
               PROVE  /\ \A s \in Slots : cache[s].used /\ cache[s].name = k =>
                            property_cache_get(k) = cache[s].data
                      /\ (\A s \in Slots : ~(cache[s].used /\ cache[s].name = k)) =>
                            property_cache_get(k) = nv[k]
    BY DEF GetIsSlot
  <2>1. Matches(k) = {s \in Slots : cache[s].used /\ cache[s].name = k}
    BY DEF Matches, NameMatches
  <2>2. ASSUME NEW s \in Slots, cache[s].used, cache[s].name = k
        PROVE  property_cache_get(k) = cache[s].data
    <3>1. Matches(k) = {s}
      BY <2>1, <2>2 DEF IInv, OneSlotPerKey
    <3>2. (CHOOSE r \in Slots : First(r, Matches(k))) = s
      <4>1. First(s, Matches(k))
        BY <3>1, NCacheAssumption DEF First, Slots
      <4>2. \A r \in Slots : First(r, Matches(k)) => r = s
        BY <3>1 DEF First
      <4> QED BY <4>1, <4>2
    <3> QED BY <3>1, <3>2 DEF property_cache_get
  <2>3. ASSUME \A s \in Slots : ~(cache[s].used /\ cache[s].name = k)
        PROVE  property_cache_get(k) = nv[k]
    BY <2>1, <2>3 DEF property_cache_get
  <2> QED BY <2>2, <2>3
<1> QED BY <1>1, PTL

\* A step that changes neither the store nor the used slots' names and values
\* changes no get.
LEMMA SameView ==
    ASSUME PrefixOf = {}, IInv, IInv', nv' = nv,
           \A s \in Slots : /\ cache'[s].used = cache[s].used
                            /\ cache'[s].name = cache[s].name
                            /\ cache'[s].data = cache[s].data
    PROVE  \A k \in Keys : property_cache_get(k)' = property_cache_get(k)
<1> SUFFICES ASSUME NEW k \in Keys
             PROVE  property_cache_get(k)' = property_cache_get(k)
  OBVIOUS
<1>1. GetIsSlot /\ GetIsSlot'
  BY GetSlot
<1>2. CASE \E s \in Slots : cache[s].used /\ cache[s].name = k
  BY <1>1, <1>2 DEF GetIsSlot
<1>3. CASE ~(\E s \in Slots : cache[s].used /\ cache[s].name = k)
  BY <1>1, <1>3 DEF GetIsSlot
<1> QED BY <1>2, <1>3

\* A set gives its own key the value and leaves the others alone; a value that
\* the store refuses is written through without effect.
LEMMA SetView ==
    ASSUME PrefixOf = {}, IInv, IInv', NEW t \in Threads, NEW k \in Keys, NEW v \in Vals,
           SetCached(t, k, v) \/ SetNew(t, k, v) \/ SetDirect(t, k, v)
    PROVE  \/ /\ \A j \in Keys : property_cache_get(j)'
                                   = IF j = k THEN v ELSE property_cache_get(j)
              /\ nv' \in {nv, [nv EXCEPT ![k] = v]}
           \/ /\ \A j \in Keys : property_cache_get(j)' = property_cache_get(j)
              /\ nv' = nv
<1>0. GetIsSlot /\ GetIsSlot' /\ TypeOK
  BY GetSlot DEF IInv
<1>1. CASE SetCached(t, k, v)
  <2>1. PICK s \in Slots : First(s, Matches(k)) /\ cache' = [cache EXCEPT ![s].data = v]
    BY <1>1 DEF SetCached
  <2>2. cache[s].used /\ cache[s].name = k
    BY <2>1 DEF First, Matches, NameMatches
  <2>3. /\ cache'[s].used /\ cache'[s].name = k /\ cache'[s].data = v
        /\ \A r \in Slots : r # s => cache'[r] = cache[r]
    BY <1>0, <2>1, <2>2 DEF TypeOK
  <2>4. nv' = nv
    BY <1>1 DEF SetCached
  <2>5. ASSUME NEW j \in Keys
        PROVE  property_cache_get(j)' = IF j = k THEN v ELSE property_cache_get(j)
    <3>1. CASE j = k
      BY <1>0, <2>3, <3>1 DEF GetIsSlot
    <3>2. CASE j # k /\ \E r \in Slots : cache[r].used /\ cache[r].name = j
      BY <1>0, <2>2, <2>3, <3>2 DEF GetIsSlot
    <3>3. CASE j # k /\ ~\E r \in Slots : cache[r].used /\ cache[r].name = j
      <4>1. \A r \in Slots : ~(cache'[r].used /\ cache'[r].name = j)
        BY <2>3, <3>3
      <4> QED BY <1>0, <2>4, <3>3, <4>1 DEF GetIsSlot
    <3> QED BY <3>1, <3>2, <3>3
  <2> QED BY <2>4, <2>5
<1>2. CASE SetNew(t, k, v)
  <2>1. PICK s \in Slots : First(s, FreeSlots) /\ cache' = [cache EXCEPT ![s] = UsedItem(k, v)]
    BY <1>2 DEF SetNew
  <2>2. ~cache[s].used
    BY <2>1 DEF First, FreeSlots
  <2>3. /\ cache'[s].used /\ cache'[s].name = k /\ cache'[s].data = v
        /\ \A r \in Slots : r # s => cache'[r] = cache[r]
    BY <1>0, <2>1 DEF TypeOK, UsedItem
  <2>4. nv' = nv
    BY <1>2 DEF SetNew
  <2>5. ASSUME NEW j \in Keys
        PROVE  property_cache_get(j)' = IF j = k THEN v ELSE property_cache_get(j)
    <3>1. CASE j = k
      BY <1>0, <2>3, <3>1 DEF GetIsSlot
    <3>2. CASE j # k /\ \E r \in Slots : cache[r].used /\ cache[r].name = j
      BY <1>0, <2>2, <2>3, <3>2 DEF GetIsSlot
    <3>3. CASE j # k /\ ~\E r \in Slots : cache[r].used /\ cache[r].name = j
      <4>1. \A r \in Slots : ~(cache'[r].used /\ cache'[r].name = j)
        BY <2>3, <3>3
      <4> QED BY <1>0, <2>4, <3>3, <4>1 DEF GetIsSlot
    <3> QED BY <3>1, <3>2, <3>3
  <2> QED BY <2>4, <2>5
<1>3. CASE SetDirect(t, k, v)
  <2>1. cache' = cache /\ nv' = NvSet(k, v)
    BY <1>3 DEF SetDirect
  <2>2. \A r \in Slots : ~(cache[r].used /\ cache[r].name = k)
    BY <1>3 DEF SetDirect, Matches, NameMatches
  <2>3. CASE v \in TooBig
    BY <2>1, <2>3, SameView DEF NvSet
  <2>4. CASE v \notin TooBig
    <3>1. nv' = [nv EXCEPT ![k] = v]
      BY <2>1, <2>4 DEF NvSet
    <3>2. nv'[k] = v /\ \A j \in Keys : j # k => nv'[j] = nv[j]
      BY <1>0, <3>1 DEF TypeOK
    <3>3. ASSUME NEW j \in Keys
          PROVE  property_cache_get(j)' = IF j = k THEN v ELSE property_cache_get(j)
      <4>1. CASE j = k
        BY <1>0, <2>1, <2>2, <3>2, <4>1 DEF GetIsSlot
      <4>2. CASE j # k /\ \E r \in Slots : cache[r].used /\ cache[r].name = j
        BY <1>0, <2>1, <4>2 DEF GetIsSlot
      <4>3. CASE j # k /\ ~\E r \in Slots : cache[r].used /\ cache[r].name = j
        BY <1>0, <2>1, <3>2, <4>3 DEF GetIsSlot
      <4> QED BY <4>1, <4>2, <4>3
    <3> QED BY <3>1, <3>3
  <2> QED BY <2>3, <2>4
<1> QED BY <1>1, <1>2, <1>3

\* A round of a flush loop changes no get and saves at most one key, with the
\* value a get returns for it.
LEMMA RoundView ==
    ASSUME PrefixOf = {}, IInv, IInv', NEW t \in Threads, FlushItem(t) \/ DealItem(t)
    PROVE  /\ \A k \in Keys : property_cache_get(k)' = property_cache_get(k)
           /\ \E K \in SUBSET Keys :
                 nv' = [k \in Keys |-> IF k \in K THEN property_cache_get(k) ELSE nv[k]]
<1> DEFINE s == i[t]
<1>0. GetIsSlot /\ GetIsSlot' /\ TypeOK /\ OneSlotPerKey
  BY GetSlot DEF IInv
<1>1. s \in Slots
  BY <1>0, NCacheAssumption DEF FlushItem, DealItem, TypeOK, Slots
<1>2. \/ /\ nv' = nv
         /\ \A r \in Slots : /\ cache'[r].used = cache[r].used
                             /\ cache'[r].name = cache[r].name
                             /\ cache'[r].data = cache[r].data
      \/ /\ cache[s].used /\ cache[s].data \notin TooBig
         /\ nv' = [nv EXCEPT ![cache[s].name] = cache[s].data]
         /\ cache' = [cache EXCEPT ![s] = FreeItem]
  BY <1>0, <1>1 DEF FlushItem, DealItem, Selected, NvSet, TypeOK
<1>3. CASE /\ nv' = nv
           /\ \A r \in Slots : /\ cache'[r].used = cache[r].used
                               /\ cache'[r].name = cache[r].name
                               /\ cache'[r].data = cache[r].data
  <2>1. \A k \in Keys : property_cache_get(k)' = property_cache_get(k)
    BY <1>3, SameView
  <2>2. nv' = [k \in Keys |-> IF k \in {} THEN property_cache_get(k) ELSE nv[k]]
    BY <1>0, <1>3 DEF TypeOK
  <2> QED BY <2>1, <2>2
<1>4. CASE /\ cache[s].used /\ cache[s].data \notin TooBig
           /\ nv' = [nv EXCEPT ![cache[s].name] = cache[s].data]
           /\ cache' = [cache EXCEPT ![s] = FreeItem]
  <2> DEFINE n == cache[s].name
  <2>1. /\ ~cache'[s].used
        /\ \A r \in Slots : r # s => cache'[r] = cache[r]
    BY <1>0, <1>1, <1>4 DEF TypeOK, FreeItem
  <2>2. \A k \in Keys : nv'[k] = IF k = n THEN cache[s].data ELSE nv[k]
    BY <1>0, <1>4 DEF TypeOK
  <2>3. ASSUME NEW k \in Keys PROVE property_cache_get(k)' = property_cache_get(k)
    <3>1. CASE k = n
      <4>1. property_cache_get(k) = cache[s].data
        BY <1>0, <1>1, <1>4, <3>1 DEF GetIsSlot
      <4>2. \A r \in Slots : ~(cache'[r].used /\ cache'[r].name = k)
        BY <1>0, <1>1, <1>4, <2>1, <3>1 DEF OneSlotPerKey
      <4> QED BY <1>0, <2>2, <3>1, <4>1, <4>2 DEF GetIsSlot
    <3>2. CASE k # n /\ \E r \in Slots : cache[r].used /\ cache[r].name = k
      BY <1>0, <2>1, <3>2 DEF GetIsSlot
    <3>3. CASE k # n /\ ~\E r \in Slots : cache[r].used /\ cache[r].name = k
      <4>1. \A r \in Slots : ~(cache'[r].used /\ cache'[r].name = k)
        BY <2>1, <3>3
      <4> QED BY <1>0, <2>2, <3>3, <4>1 DEF GetIsSlot
    <3> QED BY <3>1, <3>2, <3>3
  <2>4. \A k \in Keys : nv'[k] = IF k \in {n} \cap Keys THEN property_cache_get(k) ELSE nv[k]
    BY <1>0, <1>1, <1>4, <2>2 DEF GetIsSlot
  <2>5. nv' = [k \in Keys |-> IF k \in {n} \cap Keys THEN property_cache_get(k) ELSE nv[k]]
    <3>1. nv' = [k \in Keys |-> nv'[k]]
      BY <1>0, <1>4 DEF TypeOK
    <3> HIDE DEF n
    <3> QED BY <2>4, <3>1
  <2>6. {n} \cap Keys \in SUBSET Keys
    OBVIOUS
  <2> HIDE DEF n
  <2> QED BY <2>3, <2>5, <2>6
<1> QED BY <1>2, <1>3, <1>4

\* The remaining steps change neither a get nor the store.
LEMMA OtherView ==
    ASSUME PrefixOf = {}, IInv, IInv', NEW t \in Threads,
           \/ \E n \in Keys \cup {None} : FlushVote(t, n) \/ FlushReq(t, n)
           \/ DealBegin(t)
           \/ FlushLock(t) \/ FlushUnlock(t) \/ FlushUnvote(t) \/ FlushReqMark(t)
           \/ DealLock(t) \/ DealUnlock(t) \/ DealEnd(t) \/ DealUnvote(t) \/ DealClear(t)
    PROVE  nv' = nv /\ \A k \in Keys : property_cache_get(k)' = property_cache_get(k)
<1>1. CASE \E n \in Keys \cup {None} : FlushReq(t, n)
  <2>1. PICK n \in Keys \cup {None} : FlushReq(t, n)
    BY <1>1
  <2>2. /\ nv' = nv
        /\ \A s \in Slots : /\ cache'[s].used = cache[s].used
                            /\ cache'[s].name = cache[s].name
                            /\ cache'[s].data = cache[s].data
    BY <2>1 DEF FlushReq, IInv, TypeOK
  <2> QED BY <2>2, SameView
<1>2. CASE cache' = cache /\ nv' = nv
  BY <1>2, SameView
<1>3. (cache' = cache /\ nv' = nv) \/ \E n \in Keys \cup {None} : FlushReq(t, n)
  BY DEF FlushVote, DealBegin, FlushLock, FlushUnlock, FlushUnvote, FlushReqMark,
         DealLock, DealUnlock, DealEnd, DealUnvote, DealClear
<1> QED BY <1>1, <1>2, <1>3

\* Power failure takes every get back to the store.
LEMMA PowerView ==
    ASSUME PrefixOf = {}, IInv', PowerFailure
    PROVE  nv' = nv /\ \A k \in Keys : property_cache_get(k)' = nv[k]
<1>1. GetIsSlot'
  BY GetSlot
<1>2. nv' = nv /\ \A s \in Slots : ~cache'[s].used
  BY DEF PowerFailure, FreeItem
<1> QED BY <1>1, <1>2 DEF GetIsSlot

\* Every step is a step of the write-back store.
LEMMA StepStore ==
    ASSUME PrefixOf = {}, IInv, IInv', [Next]_vars
    PROVE  [Store!Next]_(Store!storeVars)
<1> DEFINE kv == [k \in Keys |-> property_cache_get(k)]
<1> USE DEF Store!storeVars
<1>1. ASSUME nv' = nv, \A k \in Keys : property_cache_get(k)' = property_cache_get(k)
      PROVE  UNCHANGED Store!storeVars
  BY <1>1
<1>2. ASSUME NEW t \in Threads, NEW k \in Keys, NEW v \in Vals,
             SetCached(t, k, v) \/ SetNew(t, k, v) \/ SetDirect(t, k, v)
      PROVE  [Store!Next]_(Store!storeVars)
  <2>1. CASE /\ \A j \in Keys : property_cache_get(j)'
                                  = IF j = k THEN v ELSE property_cache_get(j)
             /\ nv' \in {nv, [nv EXCEPT ![k] = v]}
    <3>1. kv' = [kv EXCEPT ![k] = v]
      BY <2>1
    <3>2. Store!Set(k, v)
      BY <2>1, <3>1 DEF Store!Set
    <3> QED BY <3>2 DEF Store!Next
  <2>2. CASE /\ \A j \in Keys : property_cache_get(j)' = property_cache_get(j)
             /\ nv' = nv
    BY <1>1, <2>2
  <2> QED BY <1>2, <2>1, <2>2, SetView
<1>3. ASSUME NEW t \in Threads, FlushItem(t) \/ DealItem(t)
      PROVE  [Store!Next]_(Store!storeVars)
  <2>1. /\ \A k \in Keys : property_cache_get(k)' = property_cache_get(k)
        /\ \E K \in SUBSET Keys :
              nv' = [k \in Keys |-> IF k \in K THEN property_cache_get(k) ELSE nv[k]]
    BY <1>3, RoundView
  <2>2. kv' = kv /\ \A k \in Keys : kv[k] = property_cache_get(k)
    BY <2>1
  <2>3. PICK K \in SUBSET Keys :
              nv' = [k \in Keys |-> IF k \in K THEN property_cache_get(k) ELSE nv[k]]
    BY <2>1
  <2>4. nv' = [k \in Keys |-> IF k \in K THEN kv[k] ELSE nv[k]]
    BY <2>2, <2>3
  <2>5. Store!Save
    BY <2>2, <2>4 DEF Store!Save
  <2> QED BY <2>5 DEF Store!Next
<1>4. CASE PowerFailure
  <2>1. nv' = nv /\ \A k \in Keys : property_cache_get(k)' = nv[k]
    BY <1>4, PowerView
  <2>2. nv = [k \in Keys |-> nv[k]]
    BY DEF IInv, TypeOK
  <2>3. Store!PowerFailure
    BY <2>1, <2>2 DEF Store!PowerFailure
  <2> QED BY <2>3 DEF Store!Next
<1>5. CASE UNCHANGED vars
  BY <1>1, <1>5, SameView DEF vars
<1> QED BY <1>1, <1>2, <1>3, <1>4, <1>5, OtherView DEF Next, Call, Step

\* If no property name is a prefix of another, cache and store together are one
\* map with a durable copy, for any number of threads, keys and slots: a set
\* changes its own key, a flush changes no value, and only power failure loses
\* any.
THEOREM CacheIsStore ==
    ASSUME PrefixOf = {}
    PROVE  Spec => RefinesStore
<1>1. Init => Store!Init
  <2> SUFFICES ASSUME Init PROVE Store!Init
    OBVIOUS
  <2>1. GetIsSlot
    BY InitIInv, GetSlot
  <2>2. \A k \in Keys : property_cache_get(k) = nv[k]
    BY <2>1 DEF GetIsSlot, Init, FreeItem
  <2>3. nv = [k \in Keys |-> nv[k]] /\ nv \in [Keys -> Vals \cup {None}]
    BY DEF Init
  <2> QED BY <2>2, <2>3 DEF Store!Init
<1>2. IInv /\ IInv' /\ [Next]_vars => [Store!Next]_(Store!storeVars)
  BY StepStore
<1> QED BY <1>1, <1>2, AlwaysIInv, PTL DEF Spec, RefinesStore, Store!Spec
=============================================================================
