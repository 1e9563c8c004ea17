----------------------------- MODULE FencedQueue -----------------------------
(***************************************************************************)
(* What a query queue promises, without saying how.  A key is queued until *)
(* it is finished or dropped.  Processing it takes a grant, which at most  *)
(* one processing id holds at a time and which can be lost at any moment;  *)
(* an id that was granted or given up is spent and never granted again.    *)
(* A result bears the id it was made under, and is accepted only from the  *)
(* id that holds the grant at that moment; the query then leaves the queue *)
(* together with its grant.                                                *)
(***************************************************************************)
CONSTANTS Keys, Ids

VARIABLES
    queued,     \* the keys in the queue
    grant,      \* the id that may finish the key, 0 if none
    spent,      \* ids that were granted or given up
    result      \* the id whose result for the key nobody has taken yet, 0 if none

fencedVars == <<queued, grant, spent, result>>

FencedInit ==
    /\ queued = {}
    /\ grant = [k \in Keys |-> 0]
    /\ spent = {}
    /\ result = [k \in Keys |-> 0]

Enqueue(k) ==
    /\ queued' = queued \cup {k}
    /\ UNCHANGED <<grant, spent, result>>

Grant(k, id) ==
    /\ grant[k] = 0
    /\ id \notin spent
    /\ grant' = [grant EXCEPT ![k] = id]
    /\ spent' = spent \cup {id}
    /\ UNCHANGED <<queued, result>>

\* Ids whose holders give up or die before they got a grant.
GiveUp(S) ==
    /\ spent' = spent \cup S
    /\ UNCHANGED <<queued, grant, result>>

Release(k) ==
    /\ grant' = [grant EXCEPT ![k] = 0]
    /\ UNCHANGED <<queued, spent, result>>

Drop(k) ==
    /\ queued' = queued \ {k}
    /\ grant' = [grant EXCEPT ![k] = 0]
    /\ UNCHANGED <<spent, result>>

\* The holder's result, and nobody else's.
Finish(k, id) ==
    /\ k \in queued
    /\ grant[k] = id
    /\ queued' = queued \ {k}
    /\ grant' = [grant EXCEPT ![k] = 0]
    /\ result' = [result EXCEPT ![k] = id]
    /\ UNCHANGED spent

Take(k) ==
    /\ result[k] # 0
    /\ result' = [result EXCEPT ![k] = 0]
    /\ UNCHANGED <<queued, grant, spent>>

FencedNext ==
    \/ \E k \in Keys : Enqueue(k)
    \/ \E k \in Keys, id \in Ids : Grant(k, id)
    \/ \E S \in SUBSET Ids : GiveUp(S)
    \/ \E k \in Keys : Release(k)
    \/ \E k \in Keys : Drop(k)
    \/ \E k \in Keys, id \in Ids : Finish(k, id)
    \/ \E k \in Keys : Take(k)

FencedSpec == FencedInit /\ [][FencedNext]_fencedVars
=============================================================================
