---------------------------- MODULE DurableStore ----------------------------
(***************************************************************************)
(* What a non-volatile configuration store promises: one request at a time *)
(* is taken, takes effect as a whole or not at all, has taken effect when  *)
(* it is answered, and nothing else ever changes the contents.  A power    *)
(* failure forgets the request, which may or may not have taken effect.    *)
(***************************************************************************)
CONSTANTS Keys, Vals, None

VARIABLES store,   \* contents; None for a key that is not there
          req      \* the request being served

storeVars == <<store, req>>

NoReq == [kind |-> "none", key |-> None, val |-> None]
SetReq(k, v) == [kind |-> "set", key |-> k, val |-> v]   \* v = None deletes
ClearReq == [kind |-> "clear", key |-> None, val |-> None]

Requests == {SetReq(k, v) : k \in Keys, v \in Vals \cup {None}} \cup {ClearReq}

\* The contents a request asks for.
Applied ==
    CASE req.kind = "none" -> store
      [] req.kind = "set" -> [store EXCEPT ![req.key] = req.val]
      [] req.kind = "clear" -> [k \in Keys |-> None]

Init == store = [k \in Keys |-> None] /\ req = NoReq

Request == req = NoReq /\ req' \in Requests /\ store' = store

Apply == store' = Applied /\ req' = req

\* The answer: 0 means the request has taken effect.
Answer == req # NoReq /\ store = Applied /\ req' = NoReq /\ store' = store

PowerFailure == req' = NoReq /\ store' \in {store, Applied}

Next == Request \/ Apply \/ Answer \/ PowerFailure

Spec == Init /\ [][Next]_storeVars
=============================================================================
