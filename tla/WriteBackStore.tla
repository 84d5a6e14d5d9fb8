--------------------------- MODULE WriteBackStore ---------------------------
(***************************************************************************)
(* What the property manager promises its callers: one map from keys to    *)
(* values, of which a durable copy follows at some later time.  A power    *)
(* failure takes the map back to the durable copy.                         *)
(***************************************************************************)
CONSTANTS Keys, Vals, None

VARIABLES kv,      \* what a get returns
          saved    \* what a restart finds

storeVars == <<kv, saved>>

Init == kv = saved /\ saved \in [Keys -> Vals \cup {None}]

\* Only this key changes; it may be saved at once.
Set(k, v) ==
    /\ kv' = [kv EXCEPT ![k] = v]
    /\ saved' \in {saved, [saved EXCEPT ![k] = v]}

\* Some keys are saved with the values they have.
Save ==
    /\ \E K \in SUBSET Keys :
          saved' = [k \in Keys |-> IF k \in K THEN kv[k] ELSE saved[k]]
    /\ kv' = kv

PowerFailure == kv' = saved /\ saved' = saved

Next == (\E k \in Keys, v \in Vals : Set(k, v)) \/ Save \/ PowerFailure

Spec == Init /\ [][Next]_storeVars
=============================================================================
