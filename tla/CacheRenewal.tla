---------------------------- MODULE CacheRenewal ----------------------------
(***************************************************************************)
(* The cache of query results (QueryCache.cacheQueryResult) and its renewal *)
(* by refresh keys (renewQuery, loadRefreshKeys).  A result is cached with  *)
(* the value of its refresh key; a request whose refresh key has another    *)
(* value, or that finds the entry past its renewal threshold, runs the      *)
(* query again.  The refresh key is a query too, cached by the same         *)
(* function, and by one more cache in the memory of each process.           *)
(*                                                                         *)
(* One query and its refresh key.  Both return the version of the data they *)
(* are executed against, so an entry is fit for its key when it holds that  *)
(* version or a later one.  The queue that executes them (QueryQueue) is    *)
(* reduced to what decides whose execution a fetch gets: it joins the one   *)
(* that is queued or running, or takes the result nobody has waited for.    *)
(***************************************************************************)
EXTENDS Naturals

CONSTANTS
    Calls,      \* requests for the query, one after the other in each slot
    Procs,      \* processes, which share the cache and the queue
    Failing,    \* the queries whose executions may fail
    MaxData     \* bound on the versions of the data

ASSUME BoundsAssumption == MaxData \in Nat \ {0}

VARIABLES
    data,       \* the version of the source data
    cache,      \* the shared cache: at most one entry for each query
    memory,     \* memoryCache of a process: at most one entry, the refresh key's
    execution,  \* the execution of a query in the queue
    call,       \* how far a request has come, and the refresh key it works with
    fetch       \* fetchNew() of a request, for each query

vars == <<data, cache, memory, execution, call, fetch>>

Queries == {"key", "main"}
Versions == 1 .. MaxData
Failed == 0            \* an error instead of a result; "[]" instead of a key
NoKey == MaxData + 1   \* no renewalKey: the request does not care
Keys == 0 .. NoKey

\* age: 0, or 1 in the last five minutes before the renewal threshold, or 2 past it.
\* joined: the execution had begun when the fetch asked for it.
Entry == [value : Versions, key : Keys, age : 0 .. 2, joined : BOOLEAN]

\* "wait" and "skip": renewQuery, without and with skipRefreshKeyWaitForRenew;
\* "plain" and "force": the main promise of a background fetch, which has no
\* renewalKey, without and with forceNoCache.
Modes == {"wait", "skip", "plain", "force"}

TypeOK ==
    /\ data \in Versions
    /\ cache \in [Queries -> SUBSET Entry]
    /\ memory \in [Procs -> SUBSET Entry]
    /\ execution \in [at : {"none", "queued", "running", "done"}, value : 0 .. MaxData]
    /\ call \in [Calls -> [at : {"idle"} \cup Queries, proc : Procs, mode : Modes, key : Keys]]
    /\ fetch \in [Calls -> [Queries -> [at : {"none", "waiting", "storing"},
                     awaited : BOOLEAN, key : Keys, result : 0 .. MaxData, joined : BOOLEAN]]]

Ended(p) == [at |-> "idle", proc |-> p, mode |-> "wait", key |-> NoKey]
Idle == [at |-> "none", value |-> 1]
NoFetch == [at |-> "none", awaited |-> FALSE, key |-> 0, result |-> 0, joined |-> FALSE]

Init ==
    /\ data = 1
    /\ cache = [q \in Queries |-> {}]
    /\ memory = [p \in Procs |-> {}]
    /\ execution = Idle
    /\ call \in [Calls -> {Ended(p) : p \in Procs}]
    /\ fetch = [c \in Calls |-> [q \in Queries |-> NoFetch]]

(***************************************************************************)
(* Requests                                                                *)
(***************************************************************************)
\* Where a request goes on with the value v (or the failure) of query q.
Continue(c, q, v) ==
    call' = [call EXCEPT ![c] =
        IF q = "key" THEN [Ended(@.proc) EXCEPT !.at = "main", !.key = v]
                     ELSE Ended(@.proc)]

\* ContinueWaitError, which nothing catches.
Abandon(c) == call' = [call EXCEPT ![c] = Ended(@.proc)]

Start(c, m, p) ==
    /\ call[c].at = "idle"
    /\ call' = [call EXCEPT ![c] = [Ended(p) EXCEPT
           !.at = IF m \in {"plain", "force"} THEN "main" ELSE "key", !.mode = m]]
    /\ UNCHANGED <<data, cache, memory, execution, fetch>>

(***************************************************************************)
(* cacheQueryResult                                                        *)
(***************************************************************************)
\* Mutant: an entry past the threshold is good as long as its key is.
NeedsRenewalByKeyOnly(c, q, e) == q = "main" /\ call[c].key \notin {NoKey, e.key}

\* The refresh key's own renewalKey never changes.
NeedsRenewal(c, q, e) ==
    \/ q = "key" /\ e.age = 2
    \/ q = "main" /\ call[c].key # NoKey /\ (e.age = 2 \/ e.key # call[c].key)

Waits(c, q) == q = "main" \/ call[c].mode # "skip"

\* The request is at q, and has not begun to fetch it.
Looks(c, q) == call[c].at = q /\ ~ fetch[c][q].awaited

\* The shared cache is of no use: forceNoCache, or no entry, or one to wait for.
MustFetch(c, q) ==
    \/ q = "main" /\ call[c].mode = "force"
    \/ \A e \in cache[q] : NeedsRenewal(c, q, e) /\ Waits(c, q)

FromMemory(c) ==
    /\ Looks(c, "key")
    /\ \E e \in memory[call[c].proc] : e.age = 0 /\ Continue(c, "key", e.value)
    /\ UNCHANGED <<data, cache, memory, execution, fetch>>

\* No entry of memoryCache is good; one that is too old is deleted.
MissesMemory(c, q) ==
    /\ q = "key" => \A e \in memory[call[c].proc] : e.age > 0
    /\ memory' = [memory EXCEPT ![call[c].proc] = IF q = "key" THEN {} ELSE @]

\* fetchNew asks the queue, which runs a refresh key's query at once.  The query
\* itself is added, or found queued or running, or its result is there already.
Fetching(c, q, awaited, at, result, joined) ==
    fetch' = [fetch EXCEPT ![c][q] =
        [at |-> at, awaited |-> awaited, key |-> IF q = "key" THEN 0 ELSE call[c].key,
         result |-> result, joined |-> joined]]

BeginFetch(c, q, awaited) ==
    /\ fetch[c][q].at = "none"
    /\ \/ /\ q = "key"
          /\ Fetching(c, q, awaited, "storing", data, FALSE)
          /\ UNCHANGED execution
       \/ /\ q = "main"
          /\ execution.at = "done"
          /\ Fetching(c, q, awaited, "storing", execution.value, TRUE)
          /\ execution' = Idle
       \/ /\ q = "main"
          /\ execution.at # "done"
          /\ Fetching(c, q, awaited, "waiting", 0, execution.at = "running")
          /\ execution' = [execution EXCEPT !.at = IF @ = "none" THEN "queued" ELSE @]

\* The shared cache has a good entry, which memoryCache keeps if it is young.
FromCache(c, q) ==
    /\ Looks(c, q)
    /\ ~ MustFetch(c, q)
    /\ \E e \in cache[q] :
          /\ ~ NeedsRenewal(c, q, e)
          /\ q = "key" => \A m \in memory[call[c].proc] : m.age > 0
          /\ memory' = [memory EXCEPT ![call[c].proc] =
                 IF q # "key" THEN @ ELSE IF e.age = 0 THEN {e} ELSE {}]
          /\ Continue(c, q, e.value)
    /\ UNCHANGED <<data, cache, execution, fetch>>

\* "Renewing existing key": the old value is served and fetched behind it.
RenewBehind(c, q) ==
    /\ Looks(c, q)
    /\ ~ Waits(c, q)
    /\ MissesMemory(c, q)
    /\ \E e \in cache[q] : NeedsRenewal(c, q, e) /\ Continue(c, q, e.value)
    /\ BeginFetch(c, q, FALSE)
    /\ UNCHANGED <<data, cache>>

\* "Missing cache for", "Waiting for renew", "Force no cache for".
FetchAndWait(c, q) ==
    /\ Looks(c, q)
    /\ MissesMemory(c, q)
    /\ MustFetch(c, q)
    /\ BeginFetch(c, q, TRUE)
    /\ UNCHANGED <<data, cache, call>>

(***************************************************************************)
(* fetchNew and the queue                                                  *)
(***************************************************************************)
Execute ==
    /\ execution.at = "queued"
    /\ execution' = [at |-> "running", value |-> data]
    /\ UNCHANGED <<data, cache, memory, call, fetch>>

\* Everyone who waits gets the result v.
Delivered(v) ==
    [c \in Calls |-> [fetch[c] EXCEPT !["main"] =
        IF @.at = "waiting" THEN [@ EXCEPT !.at = "storing", !.result = v] ELSE @]]

\* Mutant: the waiting requests are not told of an error.
FinishInSilence(v) ==
    /\ execution.at = "running"
    /\ v = execution.value \/ (v = Failed /\ "main" \in Failing)
    /\ fetch' = IF v = Failed THEN fetch ELSE Delivered(v)
    /\ execution' = IF fetch' = fetch /\ v # Failed THEN [at |-> "done", value |-> v] ELSE Idle
    /\ UNCHANGED <<data, cache, memory, call>>

\* The result or the error is delivered; if nobody waits it stays in the queue.
Finish(v) ==
    /\ execution.at = "running"
    /\ v = execution.value \/ (v = Failed /\ "main" \in Failing)
    /\ fetch' = Delivered(v)
    /\ execution' = IF fetch' = fetch THEN [at |-> "done", value |-> v] ELSE Idle
    /\ UNCHANGED <<data, cache, memory, call>>

\* continueWaitTimeout: the execution goes on without this one.
TimeOut(c, q) ==
    /\ fetch[c][q].at = "waiting"
    /\ fetch' = [fetch EXCEPT ![c][q] = NoFetch]
    /\ IF fetch[c][q].awaited THEN Abandon(c) ELSE UNCHANGED call
    /\ UNCHANGED <<data, cache, memory, execution>>

\* The fetch is over, and so is the wait of the request if it waits for it.
EndFetch(c, q, v) ==
    /\ fetch' = [fetch EXCEPT ![c][q] = NoFetch]
    /\ IF fetch[c][q].awaited THEN Continue(c, q, v) ELSE UNCHANGED call

\* Mutant: the error is cached as the result.
StoreAnything(c, q) ==
    LET f == fetch[c][q]
    IN  /\ f.at = "storing"
        /\ cache' = [cache EXCEPT ![q] =
               {[value |-> f.result, key |-> f.key, age |-> 0, joined |-> f.joined]}]
        /\ EndFetch(c, q, f.result)
        /\ UNCHANGED <<data, memory, execution>>

\* Mutant: the result is stored with the key the next request will compute.
StoreWithNewKey(c, q) ==
    LET f == fetch[c][q]
    IN  /\ f.at = "storing" /\ f.result # Failed
        /\ cache' = [cache EXCEPT ![q] =
               {[value |-> f.result, key |-> data, age |-> 0, joined |-> f.joined]}]
        /\ EndFetch(c, q, f.result)
        /\ UNCHANGED <<data, memory, execution>>

Store(c, q) ==
    LET f == fetch[c][q]
    IN  /\ f.at = "storing" /\ f.result # Failed
        /\ cache' = [cache EXCEPT ![q] =
               {[value |-> f.result, key |-> f.key, age |-> 0, joined |-> f.joined]}]
        /\ EndFetch(c, q, f.result)
        /\ UNCHANGED <<data, memory, execution>>

\* "Dropping Cache": the error goes to the request, which goes on without the
\* refresh key when that is what failed.  (The removal is not awaited; here it is done
\* when the request goes on.)
Drop(c, q) ==
    /\ fetch[c][q].at = "storing"
    /\ (q = "key" /\ "key" \in Failing) \/ fetch[c][q].result = Failed
    /\ cache' = [cache EXCEPT ![q] = {}]
    /\ EndFetch(c, q, Failed)
    /\ UNCHANGED <<data, memory, execution>>

(***************************************************************************)
(* The data and the clock                                                  *)
(***************************************************************************)
UpdateData ==
    /\ data < MaxData
    /\ data' = data + 1
    /\ UNCHANGED <<cache, memory, execution, call, fetch>>

Aged(S) == {[e EXCEPT !.age = IF @ < 2 THEN @ + 1 ELSE 2] : e \in S}

\* An entry of the query itself is good or past its threshold.
Tick ==
    /\ cache' = [q \in Queries |-> IF q = "key" THEN Aged(cache[q]) ELSE Aged(Aged(cache[q]))]
    /\ memory' = [p \in Procs |-> Aged(memory[p])]
    /\ UNCHANGED <<data, execution, call, fetch>>

\* The expiration of the entry in the shared cache, long after the threshold.
Expire(q) ==
    /\ \E e \in cache[q] : e.age = 2
    /\ cache' = [cache EXCEPT ![q] = {}]
    /\ UNCHANGED <<data, memory, execution, call, fetch>>

Step(c) ==
    \/ \E m \in Modes, p \in Procs : Start(c, m, p)
    \/ FromMemory(c)
    \/ \E q \in Queries : \/ FromCache(c, q) \/ RenewBehind(c, q) \/ FetchAndWait(c, q)
                          \/ Store(c, q) \/ Drop(c, q)

Next ==
    \/ \E c \in Calls : Step(c) \/ \E q \in Queries : TimeOut(c, q)
    \/ Execute
    \/ \E v \in 0 .. MaxData : Finish(v)
    \/ \E q \in Queries : Expire(q)
    \/ Tick \/ UpdateData

Spec == Init /\ [][Next]_vars

\* Requests keep coming and every one of them starts a renew cycle; the queue
\* executes what it has, and not always in vain; time passes.
Fairness ==
    /\ WF_vars(Tick)
    /\ WF_vars(Execute)
    /\ SF_vars(\E v \in Versions : Finish(v))
    /\ \A c \in Calls : WF_vars(Step(c)) /\ SF_vars(\E p \in Procs : Start(c, "wait", p))

FairSpec == Spec /\ Fairness
-----------------------------------------------------------------------------
\* An entry is fit for its key when its value was computed from data at least as
\* new as the key was (cacheQueryResult stores the two together).  It is when the
\* execution began after the fetch that stores it had asked for one, whatever
\* updates, renewals and other requests came in between; one that joined an
\* execution under way may store an older value under its new key.
OwnEntryMatchesKey ==
    \A e \in cache["main"] : ~ e.joined /\ e.key \in Versions => e.value >= e.key

\* Once the data stays as it is, the cache gets to its version and keeps it,
\* although requests store results of older executions under new keys: the
\* renewal threshold and the renew cycles see to it.
EventuallyFresh == <>[](\A e \in cache["main"] : e.value = data)

\* Every request comes to an end, also when an execution or a refresh key fails:
\* it is served, told of the error, or told to wait.
RequestsEnd == \A c \in Calls : call[c].at # "idle" ~> call[c].at = "idle"
=============================================================================
