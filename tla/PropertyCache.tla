---------------------------- MODULE PropertyCache ----------------------------
(***************************************************************************)
(* framework/base/property: the write-back cache of configuration values   *)
(* in front of the non-volatile store.  Threads set, get and flush         *)
(* properties; nvram_cache_mutex protects the table, and the flag          *)
(* global_cache_need_flush and the dvfs votes lie outside it.  The store   *)
(* behind it is the durable map that NvramRegion implements.               *)
(***************************************************************************)
EXTENDS Integers, FiniteSets

CONSTANTS Threads,
          Main,       \* the thread of the main loop, which deals flush requests
          Keys, Vals, None,
          NCache,     \* CONFIG_PROPERTY_CACHE_NUM
          PrefixOf,   \* the pairs <<n, c>> where n is a proper prefix of c
          TooBig,     \* values longer than NVRAM_MAX_DATA_SIZE
          MaxVotes    \* the limit of enable_cnt, 255 in the code

ASSUME ThreadsAssumption == Main \in Threads /\ None \notin Threads
ASSUME NoneAssumption == None \notin Keys
ASSUME NCacheAssumption == NCache \in Nat
ASSUME MaxVotesAssumption == MaxVotes \in Nat
ASSUME PrefixAssumption == PrefixOf \subseteq Keys \X Keys

VARIABLES cache,        \* globle_property_cache
          nv,           \* the contents of the non-volatile store
          need_flush,   \* global_cache_need_flush
          votes,        \* enable_cnt of DVFS_LEVEL_HIGH_PERFORMANCE
          lock,         \* owner of nvram_cache_mutex
          pc, arg, i    \* each thread's place, `name' argument and loop index

vars == <<cache, nv, need_flush, votes, lock, pc, arg, i>>

Slots == 1..NCache
FreeItem == [used |-> FALSE, name |-> None, data |-> None, req |-> FALSE]
UsedItem(k, v) == [used |-> TRUE, name |-> k, data |-> v, req |-> FALSE]

-----------------------------------------------------------------------------
\* !memcmp(item->name, name, strlen(name)): a cached name matches every name
\* that is a prefix of it.
NameMatches(s, n) ==
    /\ cache[s].used
    /\ cache[s].name = n \/ <<n, cache[s].name>> \in PrefixOf

\* The test of the flush loops; a NULL name matches every item.
Selected(s, n) == cache[s].used /\ (n = None \/ NameMatches(s, n))

\* The items a search for the name finds, and the unused ones.
Matches(n) == {s \in Slots : NameMatches(s, n)}
FreeSlots == {s \in Slots : ~cache[s].used}

\* The loops over the table stop at the first.
First(s, S) == s \in S /\ \A r \in S : s <= r

\* property_cache_get: the cached value, else the stored one.
property_cache_get(n) ==
    IF Matches(n) = {} THEN nv[n] ELSE cache[CHOOSE s \in Slots : First(s, Matches(n))].data

\* What nvram_config_set leaves in the store; a value that is too long is
\* refused with -EINVAL.
NvSet(k, v) == IF v \in TooBig THEN nv ELSE [nv EXCEPT ![k] = v]

\* dvfs_update_freq: at either limit it only warns.
Voted == IF votes < MaxVotes THEN votes + 1 ELSE votes
Unvoted == IF votes > 0 THEN votes - 1 ELSE 0

Init ==
    /\ cache = [s \in Slots |-> FreeItem]
    /\ nv \in [Keys -> (Vals \ TooBig) \cup {None}]
    /\ need_flush = FALSE /\ votes = 0 /\ lock = None
    /\ pc = [t \in Threads |-> "idle"]
    /\ arg = [t \in Threads |-> None]
    /\ i = [t \in Threads |-> 1]

-----------------------------------------------------------------------------
(* property_cache_set                                                      *)

SetStart(t) == pc[t] = "idle" /\ lock = None

\* The name is cached: the value is replaced.
SetCached(t, k, v) ==
    /\ SetStart(t)
    /\ \E s \in Slots : First(s, Matches(k)) /\ cache' = [cache EXCEPT ![s].data = v]
    /\ UNCHANGED <<nv, need_flush, votes, lock, pc, arg, i>>

\* Mutant: the table is not searched for the name first.
SetNew_NoFind(t, k, v) ==
    /\ SetStart(t)
    /\ \E s \in Slots : First(s, FreeSlots) /\ cache' = [cache EXCEPT ![s] = UsedItem(k, v)]
    /\ UNCHANGED <<nv, need_flush, votes, lock, pc, arg, i>>

\* A new item is cached ...
SetNew(t, k, v) ==
    /\ SetStart(t) /\ Matches(k) = {}
    /\ \E s \in Slots : First(s, FreeSlots) /\ cache' = [cache EXCEPT ![s] = UsedItem(k, v)]
    /\ UNCHANGED <<nv, need_flush, votes, lock, pc, arg, i>>

\* ... or written through when the cache is full or memory is short.  The
\* dvfs vote is taken and returned inside the mutex.
SetDirect(t, k, v) ==
    /\ SetStart(t) /\ Matches(k) = {}
    /\ nv' = NvSet(k, v)
    /\ UNCHANGED <<cache, need_flush, votes, lock, pc, arg, i>>

-----------------------------------------------------------------------------
(* property_cache_flush                                                    *)

FlushVote(t, n) ==
    /\ pc[t] = "idle"
    /\ votes' = Voted
    /\ pc' = [pc EXCEPT ![t] = "flush_lock"] /\ arg' = [arg EXCEPT ![t] = n]
    /\ UNCHANGED <<cache, nv, need_flush, lock, i>>

FlushLock(t) ==
    /\ pc[t] = "flush_lock" /\ lock = None
    /\ lock' = t
    /\ pc' = [pc EXCEPT ![t] = "flush"] /\ i' = [i EXCEPT ![t] = 1]
    /\ UNCHANGED <<cache, nv, need_flush, votes, arg>>

\* Mutant: items whose flush was requested are left to the main loop.
FlushItem_SkipRequested(t) ==
    LET s == i[t] IN
    /\ pc[t] = "flush" /\ s <= NCache
    /\ IF Selected(s, arg[t]) /\ ~cache[s].req /\ cache[s].data \notin TooBig
       THEN /\ nv' = NvSet(cache[s].name, cache[s].data)
            /\ cache' = [cache EXCEPT ![s] = FreeItem]
       ELSE UNCHANGED <<nv, cache>>
    /\ i' = [i EXCEPT ![t] = s + 1]
    /\ UNCHANGED <<need_flush, votes, lock, pc, arg>>

\* Mutant: an item leaves the cache although the store refused it.
FlushItem_IgnoreError(t) ==
    LET s == i[t] IN
    /\ pc[t] = "flush" /\ s <= NCache
    /\ IF Selected(s, arg[t])
       THEN /\ nv' = NvSet(cache[s].name, cache[s].data)
            /\ cache' = [cache EXCEPT ![s] = FreeItem]
       ELSE UNCHANGED <<nv, cache>>
    /\ i' = [i EXCEPT ![t] = s + 1]
    /\ UNCHANGED <<need_flush, votes, lock, pc, arg>>

\* One round of the loop: what the store accepts leaves the cache.
FlushItem(t) ==
    LET s == i[t] IN
    /\ pc[t] = "flush" /\ s <= NCache
    /\ IF Selected(s, arg[t])
       THEN /\ nv' = NvSet(cache[s].name, cache[s].data)
            /\ cache' = IF cache[s].data \in TooBig THEN cache
                        ELSE [cache EXCEPT ![s] = FreeItem]
       ELSE UNCHANGED <<nv, cache>>
    /\ i' = [i EXCEPT ![t] = s + 1]
    /\ UNCHANGED <<need_flush, votes, lock, pc, arg>>

FlushUnlock(t) ==
    /\ pc[t] = "flush" /\ i[t] > NCache
    /\ lock' = None
    /\ pc' = [pc EXCEPT ![t] = "flush_unvote"] /\ i' = [i EXCEPT ![t] = 1]
    /\ UNCHANGED <<cache, nv, need_flush, votes, arg>>

FlushUnvote(t) ==
    /\ pc[t] = "flush_unvote"
    /\ votes' = Unvoted
    /\ pc' = [pc EXCEPT ![t] = "idle"] /\ arg' = [arg EXCEPT ![t] = None]
    /\ UNCHANGED <<cache, nv, need_flush, lock, i>>

-----------------------------------------------------------------------------
(* property_cache_flush_req and property_cache_flush_req_deal              *)

\* The items are marked under the mutex, the flag is set after it.
FlushReq(t, n) ==
    /\ pc[t] = "idle" /\ lock = None
    /\ cache' = [s \in Slots |-> IF Selected(s, n) THEN [cache[s] EXCEPT !.req = TRUE]
                                 ELSE cache[s]]
    /\ pc' = [pc EXCEPT ![t] = IF \E s \in Slots : Selected(s, n)
                               THEN "mark" ELSE "idle"]
    /\ UNCHANGED <<nv, need_flush, votes, lock, arg, i>>

FlushReqMark(t) ==
    /\ pc[t] = "mark"
    /\ need_flush' = TRUE
    /\ pc' = [pc EXCEPT ![t] = "idle"]
    /\ UNCHANGED <<cache, nv, votes, lock, arg, i>>

DealBegin(t) ==
    /\ pc[t] = "idle"
    /\ votes' = IF need_flush THEN Voted ELSE votes
    /\ pc' = [pc EXCEPT ![t] = "deal_lock"]
    /\ UNCHANGED <<cache, nv, need_flush, lock, arg, i>>

DealLock(t) ==
    /\ pc[t] = "deal_lock" /\ lock = None
    /\ lock' = t
    /\ pc' = [pc EXCEPT ![t] = "deal"] /\ i' = [i EXCEPT ![t] = 1]
    /\ UNCHANGED <<cache, nv, need_flush, votes, arg>>

\* Mutant: the loop ends before the last item.
DealItem_OneShort(t) ==
    LET s == i[t] IN
    /\ pc[t] = "deal" /\ s <= NCache
    /\ IF cache[s].used /\ cache[s].req /\ s < NCache
       THEN /\ nv' = NvSet(cache[s].name, cache[s].data)
            /\ cache' = [cache EXCEPT ![s] = IF @.data \in TooBig
                                             THEN [@ EXCEPT !.req = FALSE]
                                             ELSE FreeItem]
       ELSE UNCHANGED <<nv, cache>>
    /\ i' = [i EXCEPT ![t] = s + 1]
    /\ UNCHANGED <<need_flush, votes, lock, pc, arg>>

\* A requested item is stored; the request is dropped even if that failed.
DealItem(t) ==
    LET s == i[t] IN
    /\ pc[t] = "deal" /\ s <= NCache
    /\ IF cache[s].used /\ cache[s].req
       THEN /\ nv' = NvSet(cache[s].name, cache[s].data)
            /\ cache' = [cache EXCEPT ![s] = IF @.data \in TooBig
                                             THEN [@ EXCEPT !.req = FALSE]
                                             ELSE FreeItem]
       ELSE UNCHANGED <<nv, cache>>
    /\ i' = [i EXCEPT ![t] = s + 1]
    /\ UNCHANGED <<need_flush, votes, lock, pc, arg>>

DealUnlock(t) ==
    /\ pc[t] = "deal" /\ i[t] > NCache
    /\ lock' = None
    /\ pc' = [pc EXCEPT ![t] = "deal_end"] /\ i' = [i EXCEPT ![t] = 1]
    /\ UNCHANGED <<cache, nv, need_flush, votes, arg>>

\* The flag is read again: it decides whether the vote is returned.
DealEnd(t) ==
    /\ pc[t] = "deal_end"
    /\ pc' = [pc EXCEPT ![t] = IF need_flush THEN "deal_unvote" ELSE "idle"]
    /\ UNCHANGED <<cache, nv, need_flush, votes, lock, arg, i>>

DealUnvote(t) ==
    /\ pc[t] = "deal_unvote"
    /\ votes' = Unvoted
    /\ pc' = [pc EXCEPT ![t] = "deal_clear"]
    /\ UNCHANGED <<cache, nv, need_flush, lock, arg, i>>

\* A flag that was set meanwhile is cleared too.
DealClear(t) ==
    /\ pc[t] = "deal_clear"
    /\ need_flush' = FALSE
    /\ pc' = [pc EXCEPT ![t] = "idle"]
    /\ UNCHANGED <<cache, nv, votes, lock, arg, i>>

-----------------------------------------------------------------------------
\* Power fails and the system starts again: property_cache_init.
PowerFailure ==
    /\ cache' = [s \in Slots |-> FreeItem]
    /\ need_flush' = FALSE /\ votes' = 0 /\ lock' = None
    /\ pc' = [t \in Threads |-> "idle"]
    /\ arg' = [t \in Threads |-> None]
    /\ i' = [t \in Threads |-> 1]
    /\ UNCHANGED nv

Step(t) ==
    \/ FlushLock(t) \/ FlushItem(t) \/ FlushUnlock(t) \/ FlushUnvote(t)
    \/ FlushReqMark(t)
    \/ DealLock(t) \/ DealItem(t) \/ DealUnlock(t) \/ DealEnd(t)
    \/ DealUnvote(t) \/ DealClear(t)

Call(t) ==
    \/ \E k \in Keys, v \in Vals :
          SetCached(t, k, v) \/ SetNew(t, k, v) \/ SetDirect(t, k, v)
    \/ \E n \in Keys \cup {None} : FlushVote(t, n) \/ FlushReq(t, n)
    \/ DealBegin(t)

Next == (\E t \in Threads : Call(t) \/ Step(t)) \/ PowerFailure

\* A call that has begun goes on; the kernel hands the mutex to a waiting
\* thread when it is released; the main loop keeps dealing flush requests.
Fairness ==
    /\ \A t \in Threads : WF_vars(Step(t)) /\ SF_vars(DealLock(t) \/ FlushLock(t))
    /\ SF_vars(DealBegin(Main))

Spec == Init /\ [][Next]_vars
FairSpec == Spec /\ Fairness

-----------------------------------------------------------------------------
(* Properties.                                                             *)

Pcs == {"idle", "flush_lock", "flush", "flush_unvote", "mark",
        "deal_lock", "deal", "deal_end", "deal_unvote", "deal_clear"}

\* Every variable has its type.
TypeOK ==
    /\ cache \in [Slots -> [used : BOOLEAN, name : Keys \cup {None},
                            data : Vals \cup {None}, req : BOOLEAN]]
    /\ nv \in [Keys -> Vals \cup {None}]
    /\ need_flush \in BOOLEAN /\ votes \in 0..MaxVotes
    /\ lock \in Threads \cup {None}
    /\ pc \in [Threads -> Pcs]
    /\ arg \in [Threads -> Keys \cup {None}]
    /\ i \in [Threads -> 1..(NCache + 1)]

\* No key has two cached values, whatever sets, flushes, evictions and
\* write-throughs interleave: a get could return either.
OneSlotPerKey ==
    \A s1, s2 \in Slots :
        cache[s1].used /\ cache[s2].used /\ cache[s1].name = cache[s2].name => s1 = s2

\* The mutex is held exactly by the thread that is in a flush loop, so no set
\* changes an item between its write to the store and its removal.
LoopsExclusive == \A t \in Threads : pc[t] \in {"flush", "deal"} <=> lock = t

\* When property_flush(NULL) ends, as it does before a power-off, a restart
\* would find every value a get returns.
FlushAllPersists ==
    \A t \in Threads :
        pc[t] = "flush" /\ arg[t] = None /\ i[t] > NCache =>
            \A k \in Keys : property_cache_get(k) \in TooBig \cup {nv[k]}

Store == INSTANCE WriteBackStore WITH
            kv <- [k \in Keys |-> property_cache_get(k)], saved <- nv

\* Cache and store together are one map: a set changes its own key and no
\* other, a flush changes no value, and only power failure loses any.
RefinesStore == Store!Spec

\* "get value by the target key": what a get returns changes only with a set
\* of that very key, or a power failure.
ByTargetKey ==
    [][\A k \in Keys : property_cache_get(k)' # property_cache_get(k) =>
          \/ \E t \in Threads, v \in Vals :
                SetCached(t, k, v) \/ SetNew(t, k, v) \/ SetDirect(t, k, v)
          \/ PowerFailure]_vars

\* A value whose flush was requested leaves the cache for the store ("system
\* will Come to flush at the right time") unless the store refuses the value:
\* property_cache_set had accepted that one with 0, and it stays in the cache.
FlushReqServed ==
    \A k \in Keys :
        (\E s \in Slots : cache[s].used /\ cache[s].name = k /\ cache[s].req)
            ~> (\A s \in Slots : cache[s].used /\ cache[s].name = k
                                    => cache[s].data \in TooBig)
==============================================================================
