------------------------- MODULE CacheRenewalProofs -------------------------
(***************************************************************************)
(* TypeOK and OwnEntryMatchesKey of CacheRenewal, for every set of requests *)
(* and processes and every number of versions of the data.                  *)
(***************************************************************************)
EXTENDS CacheRenewal, TLAPS

Executions == [at : {"none", "queued", "running", "done"}, value : 0 .. MaxData]
CallStates == [at : {"idle"} \cup Queries, proc : Procs, mode : Modes, key : Keys]
FetchStates == [at : {"none", "waiting", "storing"}, awaited : BOOLEAN, key : Keys,
                result : 0 .. MaxData, joined : BOOLEAN]

\* Nothing holds a version of the data that is still to come.
NothingIsAhead ==
    /\ \A e \in cache["key"] : e.value <= data
    /\ \A p \in Procs : \A e \in memory[p] : e.value <= data
    /\ \A c \in Calls : /\ call[c].key \in Versions => call[c].key <= data
                        /\ fetch[c]["main"].key \in Versions => fetch[c]["main"].key <= data
                        /\ fetch[c]["key"].result <= data

\* A fetch that asked for an execution before it began waits for one that is to
\* begin, or whose result is as new as the fetch's refresh key; or it has that.
OwnFetchIsFit ==
    \A c \in Calls :
      LET f == fetch[c]["main"] IN
        /\ f.at = "waiting" => execution.at \in {"queued", "running"}
        /\ ~ f.joined /\ f.key \in Versions =>
             /\ f.at = "waiting" /\ execution.at = "running" => execution.value >= f.key
             /\ f.at = "storing" => f.result = Failed \/ f.result >= f.key

CacheInv == TypeOK /\ NothingIsAhead /\ OwnFetchIsFit /\ OwnEntryMatchesKey

LEMMA CacheTypes ==
    ASSUME TypeOK
    PROVE  /\ execution \in Executions
           /\ call \in [Calls -> CallStates]
           /\ fetch \in [Calls -> [Queries -> FetchStates]]
           /\ data \in Versions /\ data \in Nat
           /\ cache \in [Queries -> SUBSET Entry] /\ memory \in [Procs -> SUBSET Entry]
BY BoundsAssumption DEF TypeOK, Executions, CallStates, FetchStates, Versions

LEMMA NumberSets ==
    /\ MaxData \in Nat \ {0} /\ NoKey \in Keys /\ NoKey \notin Versions
    /\ Versions \subseteq Keys /\ 0 \in Keys /\ 0 .. MaxData \subseteq Keys
    /\ Versions \subseteq 0 .. MaxData /\ 0 \notin Versions /\ 1 \in 0 .. MaxData
    /\ 1 \in Versions /\ Keys \subseteq Nat /\ Failed = 0
BY BoundsAssumption DEF NoKey, Keys, Versions, Failed

LEMMA InitCacheInv == Init => CacheInv
<1> SUFFICES ASSUME Init PROVE CacheInv
  OBVIOUS
<1>1. TypeOK
  BY NumberSets DEF Init, TypeOK, Idle, NoFetch, Ended, Modes, Queries
<1>2. NothingIsAhead /\ OwnFetchIsFit /\ OwnEntryMatchesKey
  BY NumberSets DEF Init, NothingIsAhead, OwnFetchIsFit, OwnEntryMatchesKey, NoFetch, Ended, Queries, Idle
<1> QED
  BY <1>1, <1>2 DEF CacheInv
(***************************************************************************)
(* What the parts of a step do                                             *)
(***************************************************************************)
CallsAreFit ==
    /\ call \in [Calls -> CallStates]
    /\ \A c \in Calls : call[c].key \in Versions => call[c].key <= data

FetchesAreFit ==
    /\ fetch \in [Calls -> [Queries -> FetchStates]]
    /\ execution \in Executions
    /\ \A c \in Calls : /\ fetch[c]["main"].key \in Versions => fetch[c]["main"].key <= data
                        /\ fetch[c]["key"].result <= data
    /\ OwnFetchIsFit

CachesAreFit ==
    /\ cache \in [Queries -> SUBSET Entry] /\ memory \in [Procs -> SUBSET Entry]
    /\ \A e \in cache["key"] : e.value <= data
    /\ \A p \in Procs : \A e \in memory[p] : e.value <= data
    /\ OwnEntryMatchesKey

LEMMA CacheInvParts ==
    /\ CacheInv => data \in Versions /\ CallsAreFit /\ FetchesAreFit /\ CachesAreFit
    /\ (data \in Versions)' /\ CallsAreFit' /\ FetchesAreFit' /\ CachesAreFit' => CacheInv'
BY DEF CacheInv, TypeOK, NothingIsAhead, CallsAreFit, FetchesAreFit, CachesAreFit,
       Executions, CallStates, FetchStates

LEMMA CallChanges ==
    ASSUME CallsAreFit, NEW c \in Calls, NEW s \in CallStates,
           call' = [call EXCEPT ![c] = s], s.key \in Versions => s.key <= data,
           UNCHANGED data
    PROVE  CallsAreFit'
BY DEF CallsAreFit

LEMMA EndedIsFit ==
    ASSUME NEW p \in Procs, NEW at \in {"idle", "main", "key"}, NEW m \in Modes
    PROVE  /\ [Ended(p) EXCEPT !.at = at, !.mode = m] \in CallStates
           /\ [Ended(p) EXCEPT !.at = at, !.mode = m].key = NoKey
           /\ Ended(p) \in CallStates /\ Ended(p).key = NoKey
BY NumberSets DEF Ended, CallStates, Queries, Modes

\* A request goes on with the value of its refresh key, or ends.
LEMMA ContinueIsFit ==
    ASSUME CallsAreFit, NEW c \in Calls, NEW q \in Queries, NEW v \in 0 .. MaxData,
           q = "key" => v <= data, Continue(c, q, v), UNCHANGED data
    PROVE  CallsAreFit'
<1> DEFINE p == call[c].proc
           s == IF q = "key" THEN [Ended(p) EXCEPT !.at = "main", !.key = v] ELSE Ended(p)
<1>1. p \in Procs /\ v \in Keys
  BY NumberSets DEF CallsAreFit, CallStates
<1>2. call' = [call EXCEPT ![c] = s]
  BY DEF Continue
<1>3. s \in CallStates /\ (s.key \in Versions => s.key <= data)
  BY <1>1, NumberSets DEF Ended, CallStates, Queries, Modes
<1> HIDE DEF s
<1> QED
  BY <1>2, <1>3, CallChanges

\* A fetch ends, and the request that waits for it goes on.
LEMMA EndFetchIsFit ==
    ASSUME data \in Versions, CallsAreFit, FetchesAreFit, NEW c \in Calls, NEW q \in Queries,
           NEW v \in 0 .. MaxData, q = "key" => v <= data,
           EndFetch(c, q, v), UNCHANGED <<data, execution>>
    PROVE  CallsAreFit' /\ FetchesAreFit'
<1>1. CallsAreFit'
  <2>1. CASE fetch[c][q].awaited
    BY <2>1, ContinueIsFit DEF EndFetch
  <2>2. CASE ~ fetch[c][q].awaited
    BY <2>2 DEF EndFetch, CallsAreFit
  <2> QED
    BY <2>1, <2>2
<1>2. fetch' = [fetch EXCEPT ![c][q] = NoFetch]
  BY DEF EndFetch
<1>3. NoFetch \in FetchStates
  BY NumberSets DEF NoFetch, FetchStates
<1>4. fetch' \in [Calls -> [Queries -> FetchStates]]
  BY <1>2, <1>3 DEF FetchesAreFit
<1>5. \A d \in Calls, r \in Queries : fetch'[d][r] \in {fetch[d][r], NoFetch}
  BY <1>2 DEF FetchesAreFit
<1>6. FetchesAreFit'
  <2>1. /\ NoFetch.at = "none" /\ NoFetch.key = 0 /\ NoFetch.result = 0
        /\ 0 \notin Versions /\ 0 <= data
    BY NumberSets DEF NoFetch, Versions
  <2>2. "main" \in Queries /\ "key" \in Queries
    BY DEF Queries
  <2>3. \A d \in Calls :
          /\ fetch'[d]["main"].key \in Versions => fetch'[d]["main"].key <= data'
          /\ fetch'[d]["key"].result <= data'
    BY <1>5, <2>1, <2>2 DEF FetchesAreFit
  <2>4. OwnFetchIsFit'
    BY <1>5, <2>1, <2>2 DEF FetchesAreFit, OwnFetchIsFit
  <2> QED
    BY <1>4, <2>3, <2>4 DEF FetchesAreFit
<1> QED
  BY <1>1, <1>6
\* A fetch asks for an execution, or finds one, or its result.
LEMMA BeginFetchIsFit ==
    ASSUME data \in Versions, CallsAreFit, FetchesAreFit, NEW c \in Calls, NEW q \in Queries,
           NEW awaited \in BOOLEAN, BeginFetch(c, q, awaited), UNCHANGED data
    PROVE  FetchesAreFit'
<1> DEFINE k == IF q = "key" THEN 0 ELSE call[c].key
           rec(at, result, joined) ==
             [at |-> at, awaited |-> awaited, key |-> k, result |-> result, joined |-> joined]
<1>1. k \in Keys /\ (k \in Versions => q = "main" /\ k <= data)
  BY NumberSets DEF CallsAreFit, CallStates, Queries
<1>2. /\ execution \in Executions /\ fetch \in [Calls -> [Queries -> FetchStates]]
      /\ data \in 0 .. MaxData /\ execution.value \in 0 .. MaxData
  BY NumberSets DEF FetchesAreFit, Executions
<1>3. "main" \in Queries /\ "key" \in Queries
  BY DEF Queries
<1>4. CASE q = "key"
  <2> DEFINE f == rec("storing", data, FALSE)
  <2>1. fetch' = [fetch EXCEPT ![c]["key"] = f] /\ execution' = execution
    BY <1>4 DEF BeginFetch, Fetching
  <2>2. f \in FetchStates /\ f.result = data
    BY <1>1, <1>2 DEF FetchStates
  <2> HIDE DEF f
  <2>3. /\ fetch' \in [Calls -> [Queries -> FetchStates]]
        /\ \A d \in Calls : /\ fetch'[d]["main"] = fetch[d]["main"]
                            /\ fetch'[d]["key"] \in {f, fetch[d]["key"]}
    BY <1>2, <1>3, <2>1, <2>2
  <2>4. data <= data
    BY DEF Versions
  <2> QED
    BY <1>2, <2>1, <2>2, <2>3, <2>4 DEF FetchesAreFit, OwnFetchIsFit
<1>5. ASSUME q = "main",
             NEW at \in {"storing", "waiting"}, NEW result \in 0 .. MaxData, NEW joined \in BOOLEAN,
             fetch' = [fetch EXCEPT ![c]["main"] = rec(at, result, joined)],
             execution' \in Executions,
             \A d \in Calls : fetch[d]["main"].at = "waiting" => execution' = execution,
             at = "waiting" => execution'.at \in {"queued", "running"},
             ~ joined => at = "waiting" /\ execution'.at = "queued"
      PROVE  FetchesAreFit'
  <2> DEFINE f == rec(at, result, joined)
  <2>1. /\ f \in FetchStates /\ f.at = at /\ f.key = k /\ f.joined = joined
    BY <1>1, <1>5 DEF FetchStates
  <2> HIDE DEF f
  <2>2. /\ fetch' \in [Calls -> [Queries -> FetchStates]]
        /\ \A d \in Calls : /\ fetch'[d]["key"] = fetch[d]["key"]
                            /\ fetch'[d]["main"] = IF d = c THEN f ELSE fetch[d]["main"]
    BY <1>2, <1>3, <1>5, <2>1 DEF f
  <2>3. \A d \in Calls :
          /\ fetch'[d]["main"].key \in Versions => fetch'[d]["main"].key <= data'
          /\ fetch'[d]["key"].result <= data'
    BY <1>1, <2>1, <2>2 DEF FetchesAreFit
  <2>4. OwnFetchIsFit'
    BY <1>5, <2>1, <2>2 DEF FetchesAreFit, OwnFetchIsFit
  <2> QED
    BY <1>5, <2>2, <2>3, <2>4 DEF FetchesAreFit
<1>6. CASE q = "main"
  <2>1. CASE execution.at = "done"
    <3>1. /\ fetch' = [fetch EXCEPT ![c]["main"] = rec("storing", execution.value, TRUE)]
          /\ execution' = Idle
      BY <1>6, <2>1 DEF BeginFetch, Fetching
    <3>2. Idle \in Executions
      BY NumberSets DEF Idle, Executions
    <3>3. \A d \in Calls : fetch[d]["main"].at # "waiting"
      BY <2>1 DEF FetchesAreFit, OwnFetchIsFit
    <3> QED
      BY <1>2, <1>5, <1>6, <3>1, <3>2, <3>3
  <2>2. CASE execution.at # "done"
    <3>1. /\ fetch' = [fetch EXCEPT ![c]["main"] = rec("waiting", 0, execution.at = "running")]
          /\ execution' = [execution EXCEPT !.at = IF @ = "none" THEN "queued" ELSE @]
      BY <1>6, <2>2 DEF BeginFetch, Fetching
    <3>2. /\ execution' \in Executions
          /\ execution'.at = IF execution.at = "none" THEN "queued" ELSE execution.at
          /\ execution.at # "none" => execution' = execution
      BY <1>2, <3>1 DEF Executions
    <3>3. \A d \in Calls : fetch[d]["main"].at = "waiting" => execution.at # "none"
      BY DEF FetchesAreFit, OwnFetchIsFit
    <3>4. execution'.at \in {"queued", "running"}
      BY <1>2, <2>2, <3>2 DEF Executions
    <3>5. 0 \in 0 .. MaxData
      BY NumberSets
    <3>6. (execution.at = "running") \in BOOLEAN
      OBVIOUS
    <3> QED
      BY <1>5, <1>6, <3>1, <3>2, <3>3, <3>4, <3>5, <3>6
  <2> QED
    BY <2>1, <2>2
<1> QED
  BY <1>4, <1>6 DEF Queries
LEMMA StayFit ==
    /\ CallsAreFit /\ UNCHANGED <<call, data>> => CallsAreFit'
    /\ FetchesAreFit /\ UNCHANGED <<fetch, execution, data>> => FetchesAreFit'
    /\ CachesAreFit /\ UNCHANGED <<cache, memory, data>> => CachesAreFit'
BY DEF CallsAreFit, FetchesAreFit, OwnFetchIsFit, CachesAreFit, OwnEntryMatchesKey

\* A process's memory is emptied of entries, or gets one of the cache.
LEMMA MemoryIsFit ==
    ASSUME CachesAreFit, NEW p \in Procs, NEW S,
           S \subseteq memory[p] \/ S \subseteq cache["key"],
           memory' = [memory EXCEPT ![p] = S], UNCHANGED <<cache, data>>
    PROVE  CachesAreFit'
<1>1. S \in SUBSET Entry /\ \A e \in S : e.value <= data
  BY DEF CachesAreFit, Queries
<1> QED
  BY <1>1 DEF CachesAreFit, OwnEntryMatchesKey

(***************************************************************************)
(* The steps                                                               *)
(***************************************************************************)
LEMMA LooksKeepInv ==
    ASSUME CacheInv, NEW c \in Calls,
           \/ \E m \in Modes, p \in Procs : Start(c, m, p)
           \/ FromMemory(c)
           \/ \E q \in Queries : FromCache(c, q) \/ RenewBehind(c, q) \/ FetchAndWait(c, q)
    PROVE  CacheInv'
<1>1. data \in Versions /\ CallsAreFit /\ FetchesAreFit /\ CachesAreFit
  BY CacheInvParts
<1>2. call[c].proc \in Procs
  BY <1>1 DEF CallsAreFit, CallStates
<1>3. \A q \in Queries : \A e \in cache[q] :
        e.value \in 0 .. MaxData /\ (q = "key" => e.value <= data)
  <2>1. \A q \in Queries : \A e \in cache[q] : e.value \in Versions
    BY <1>1 DEF CachesAreFit, Entry
  <2>2. \A e \in cache["key"] : e.value <= data
    BY <1>1 DEF CachesAreFit
  <2> QED
    BY <2>1, <2>2, NumberSets
<1>4. UNCHANGED data
  BY DEF Start, FromMemory, FromCache, RenewBehind, FetchAndWait
<1>5. ASSUME NEW m \in Modes, NEW p \in Procs, Start(c, m, p)
      PROVE  CacheInv'
  <2> DEFINE at == IF m \in {"plain", "force"} THEN "main" ELSE "key"
             s == [Ended(p) EXCEPT !.at = at, !.mode = m]
  <2>1. call' = [call EXCEPT ![c] = s] /\ UNCHANGED <<data, cache, memory, execution, fetch>>
    BY <1>5 DEF Start
  <2>2. s \in CallStates /\ s.key = NoKey
    BY EndedIsFit
  <2> HIDE DEF s
  <2>3. CallsAreFit'
    BY <1>1, <2>1, <2>2, NumberSets, CallChanges
  <2> QED
    BY <1>1, <2>1, <2>3, StayFit, CacheInvParts
<1>6. CASE FromMemory(c)
  <2>1. PICK e \in memory[call[c].proc] : Continue(c, "key", e.value)
    BY <1>6 DEF FromMemory
  <2>2. e.value \in 0 .. MaxData /\ e.value <= data
    <3>1. e.value \in Versions /\ e.value <= data
      BY <1>1, <1>2 DEF CachesAreFit, Entry
    <3> QED
      BY <3>1, NumberSets
  <2>3. CallsAreFit'
    BY <1>1, <1>4, <2>1, <2>2, ContinueIsFit DEF Queries
  <2> QED
    BY <1>1, <1>6, <2>3, StayFit, CacheInvParts DEF FromMemory
<1>7. ASSUME NEW q \in Queries, FromCache(c, q)
      PROVE  CacheInv'
  <2>1. PICK e \in cache[q] :
          /\ memory' = [memory EXCEPT ![call[c].proc] =
                 IF q # "key" THEN @ ELSE IF e.age = 0 THEN {e} ELSE {}]
          /\ Continue(c, q, e.value)
    BY <1>7 DEF FromCache
  <2> DEFINE S == IF q # "key" THEN memory[call[c].proc] ELSE IF e.age = 0 THEN {e} ELSE {}
  <2>2. S \subseteq memory[call[c].proc] \/ S \subseteq cache["key"]
    BY <2>1
  <2>3. memory' = [memory EXCEPT ![call[c].proc] = S] /\ UNCHANGED <<cache, execution, fetch>>
    BY <1>7, <2>1 DEF FromCache
  <2> HIDE DEF S
  <2>4. CachesAreFit'
    BY <1>1, <1>2, <1>4, <2>2, <2>3, MemoryIsFit
  <2>5. CallsAreFit'
    BY <1>1, <1>3, <1>4, <2>1, ContinueIsFit
  <2> QED
    BY <1>1, <1>4, <2>3, <2>4, <2>5, StayFit, CacheInvParts
<1>8. ASSUME NEW q \in Queries, MissesMemory(c, q), UNCHANGED cache
      PROVE  CachesAreFit'
  <2> DEFINE S == IF q = "key" THEN {} ELSE memory[call[c].proc]
  <2>1. memory' = [memory EXCEPT ![call[c].proc] = S] /\ S \subseteq memory[call[c].proc]
    BY <1>8 DEF MissesMemory
  <2> HIDE DEF S
  <2> QED
    BY <1>1, <1>2, <1>4, <1>8, <2>1, MemoryIsFit
<1>9. ASSUME NEW q \in Queries, RenewBehind(c, q)
      PROVE  CacheInv'
  <2>1. MissesMemory(c, q) /\ BeginFetch(c, q, FALSE) /\ UNCHANGED cache
    BY <1>9 DEF RenewBehind
  <2>2. PICK e \in cache[q] : Continue(c, q, e.value)
    BY <1>9 DEF RenewBehind
  <2>3. CallsAreFit' /\ FetchesAreFit' /\ CachesAreFit'
    BY <1>1, <1>3, <1>4, <1>8, <2>1, <2>2, ContinueIsFit, BeginFetchIsFit
  <2> QED
    BY <1>1, <1>4, <2>3, CacheInvParts
<1>10. ASSUME NEW q \in Queries, FetchAndWait(c, q)
       PROVE  CacheInv'
  <2>1. MissesMemory(c, q) /\ BeginFetch(c, q, TRUE) /\ UNCHANGED <<cache, call>>
    BY <1>10 DEF FetchAndWait
  <2>2. CallsAreFit' /\ FetchesAreFit' /\ CachesAreFit'
    BY <1>1, <1>4, <1>8, <2>1, BeginFetchIsFit, StayFit
  <2> QED
    BY <1>1, <1>4, <2>2, CacheInvParts
<1> QED
  BY <1>5, <1>6, <1>7, <1>9, <1>10

LEMMA FetchEndsKeepInv ==
    ASSUME CacheInv, NEW c \in Calls, NEW q \in Queries,
           Store(c, q) \/ Drop(c, q) \/ TimeOut(c, q)
    PROVE  CacheInv'
<1> DEFINE f == fetch[c][q]
<1>1. data \in Versions /\ CallsAreFit /\ FetchesAreFit /\ CachesAreFit
  BY CacheInvParts
<1>2. f \in FetchStates /\ (q = "key" => f.result <= data)
  BY <1>1 DEF FetchesAreFit
<1>3. CASE Store(c, q)
  <2> DEFINE e == [value |-> f.result, key |-> f.key, age |-> 0, joined |-> f.joined]
  <2>1. /\ f.at = "storing" /\ f.result # Failed /\ EndFetch(c, q, f.result)
        /\ cache' = [cache EXCEPT ![q] = {e}] /\ UNCHANGED <<data, memory, execution>>
    BY <1>3 DEF Store
  <2>2. CallsAreFit' /\ FetchesAreFit'
    BY <1>1, <1>2, <2>1, EndFetchIsFit DEF FetchStates
  <2>3. e \in Entry
    BY <1>2, <2>1, NumberSets DEF FetchStates, Entry, Versions, Failed
  <2>4. q = "main" => (~ e.joined /\ e.key \in Versions => e.value >= e.key)
    BY <1>1, <2>1 DEF FetchesAreFit, OwnFetchIsFit
  <2>5. q = "key" => e.value <= data
    BY <1>2
  <2> HIDE DEF e
  <2>6. CachesAreFit'
    BY <1>1, <2>1, <2>3, <2>4, <2>5 DEF CachesAreFit, OwnEntryMatchesKey, Queries
  <2> QED
    BY <1>1, <2>1, <2>2, <2>6, CacheInvParts
<1>4. CASE Drop(c, q)
  <2>1. /\ EndFetch(c, q, Failed)
        /\ cache' = [cache EXCEPT ![q] = {}] /\ UNCHANGED <<data, memory, execution>>
    BY <1>4 DEF Drop
  <2>2. Failed \in 0 .. MaxData /\ Failed <= data
    BY <1>1, NumberSets DEF Failed, Versions
  <2>3. CallsAreFit' /\ FetchesAreFit'
    BY <1>1, <2>1, <2>2, EndFetchIsFit
  <2>4. CachesAreFit'
    BY <1>1, <2>1 DEF CachesAreFit, OwnEntryMatchesKey, Queries
  <2> QED
    BY <1>1, <2>1, <2>3, <2>4, CacheInvParts
<1>5. CASE TimeOut(c, q)
  <2>1. /\ fetch' = [fetch EXCEPT ![c][q] = NoFetch]
        /\ Abandon(c) \/ UNCHANGED call
        /\ UNCHANGED <<data, cache, memory, execution>>
    BY <1>5 DEF TimeOut
  <2>2. CallsAreFit'
    <3>1. CASE Abandon(c)
      <4>1. call' = [call EXCEPT ![c] = Ended(call[c].proc)] /\ call[c].proc \in Procs
        BY <1>1, <3>1 DEF Abandon, CallsAreFit, CallStates
      <4>2. Ended(call[c].proc) \in CallStates /\ Ended(call[c].proc).key = NoKey
        BY <4>1, NumberSets DEF Ended, CallStates, Modes
      <4> QED
        BY <1>1, <2>1, <4>1, <4>2, NumberSets, CallChanges
    <3> QED
      BY <1>1, <2>1, <3>1, StayFit
  <2>3. FetchesAreFit'
    <3>1. NoFetch \in FetchStates /\ NoFetch.at = "none" /\ NoFetch.key = 0 /\ NoFetch.result = 0
      BY NumberSets DEF NoFetch, FetchStates
    <3>2. /\ fetch' \in [Calls -> [Queries -> FetchStates]]
          /\ \A d \in Calls, r \in Queries : fetch'[d][r] \in {fetch[d][r], NoFetch}
      BY <1>1, <2>1, <3>1 DEF FetchesAreFit
    <3>3. "main" \in Queries /\ "key" \in Queries /\ 0 \notin Versions /\ 0 <= data
      BY <1>1, NumberSets DEF Queries, Versions
    <3>4. OwnFetchIsFit'
      BY <1>1, <2>1, <3>1, <3>2, <3>3 DEF FetchesAreFit, OwnFetchIsFit
    <3> QED
      BY <1>1, <2>1, <3>1, <3>2, <3>3, <3>4 DEF FetchesAreFit
  <2> QED
    BY <1>1, <2>1, <2>2, <2>3, StayFit, CacheInvParts
<1> QED
  BY <1>3, <1>4, <1>5
LEMMA QueueKeepsInv ==
    ASSUME CacheInv, Execute \/ \E v \in 0 .. MaxData : Finish(v)
    PROVE  CacheInv'
<1>1. data \in Versions /\ CallsAreFit /\ FetchesAreFit /\ CachesAreFit
  BY CacheInvParts
<1>2. CASE Execute
  <2>1. /\ execution.at = "queued" /\ execution' = [at |-> "running", value |-> data]
        /\ UNCHANGED <<data, cache, memory, call, fetch>>
    BY <1>2 DEF Execute
  <2>2. execution' \in Executions
    BY <1>1, <2>1, NumberSets DEF Executions
  <2>3. FetchesAreFit'
    BY <1>1, <2>1, <2>2 DEF FetchesAreFit, OwnFetchIsFit
  <2> QED
    BY <1>1, <2>1, <2>3, StayFit, CacheInvParts
<1>3. ASSUME NEW v \in 0 .. MaxData, Finish(v)
      PROVE  CacheInv'
  <2>1. /\ execution.at = "running" /\ v \in {execution.value, Failed}
        /\ fetch' = Delivered(v)
        /\ execution' \in {[at |-> "done", value |-> v], Idle}
        /\ UNCHANGED <<data, cache, memory, call>>
    BY <1>3 DEF Finish
  <2>2. execution' \in Executions
    BY <2>1, NumberSets DEF Executions, Idle
  <2>3. \A d \in Calls :
          /\ fetch[d] \in [Queries -> FetchStates]
          /\ fetch'[d]["key"] = fetch[d]["key"]
          /\ fetch'[d]["main"] = IF fetch[d]["main"].at = "waiting"
                 THEN [fetch[d]["main"] EXCEPT !.at = "storing", !.result = v]
                 ELSE fetch[d]["main"]
          /\ fetch'[d] \in [Queries -> FetchStates]
    <3> SUFFICES ASSUME NEW d \in Calls
                 PROVE  /\ fetch[d] \in [Queries -> FetchStates]
                        /\ fetch'[d]["key"] = fetch[d]["key"]
                        /\ fetch'[d]["main"] = IF fetch[d]["main"].at = "waiting"
                               THEN [fetch[d]["main"] EXCEPT !.at = "storing", !.result = v]
                               ELSE fetch[d]["main"]
                        /\ fetch'[d] \in [Queries -> FetchStates]
      OBVIOUS
    <3> DEFINE f == fetch[d]["main"]
               g == IF f.at = "waiting" THEN [f EXCEPT !.at = "storing", !.result = v] ELSE f
    <3>1. fetch[d] \in [Queries -> FetchStates] /\ f \in FetchStates
      BY <1>1 DEF FetchesAreFit, Queries
    <3>2. g \in FetchStates
      BY <3>1 DEF FetchStates
    <3>3. fetch'[d] = [fetch[d] EXCEPT !["main"] = g]
      BY <2>1 DEF Delivered
    <3> HIDE DEF g
    <3>4. /\ fetch'[d] \in [Queries -> FetchStates]
          /\ fetch'[d]["main"] = g /\ fetch'[d]["key"] = fetch[d]["key"]
      BY <3>1, <3>2, <3>3 DEF Queries
    <3> QED
      BY <3>1, <3>4 DEF g
  <2>4. fetch' \in [Calls -> [Queries -> FetchStates]]
    BY <2>1, <2>3 DEF Delivered
  <2>5. \A d \in Calls : LET f == fetch[d]["main"] g == fetch'[d]["main"] IN
          /\ f \in FetchStates
          /\ g.at # "waiting" /\ g.key = f.key /\ g.joined = f.joined
          /\ \/ f.at = "waiting" /\ g.result = v
             \/ f.at # "waiting" /\ g = f
    BY <2>3, ZenonT(30) DEF FetchStates, Queries
  <2>6. OwnFetchIsFit'
    BY <1>1, <2>1, <2>5 DEF FetchesAreFit, OwnFetchIsFit
  <2>7. FetchesAreFit'
    BY <1>1, <2>1, <2>2, <2>3, <2>4, <2>5, <2>6 DEF FetchesAreFit
  <2> QED
    BY <1>1, <2>1, <2>7, StayFit, CacheInvParts
<1> QED
  BY <1>2, <1>3

LEMMA TimeKeepsInv ==
    ASSUME CacheInv, Tick \/ UpdateData \/ \E q \in Queries : Expire(q)
    PROVE  CacheInv'
<1>1. data \in Versions /\ CallsAreFit /\ FetchesAreFit /\ CachesAreFit
  BY CacheInvParts
<1>2. ASSUME NEW S \in SUBSET Entry
      PROVE  /\ Aged(S) \subseteq Entry
             /\ \A a \in Aged(S) : \E e \in S :
                  a.value = e.value /\ a.key = e.key /\ a.joined = e.joined
  BY <1>2 DEF Aged, Entry
<1>3. CASE Tick
  <2>1. /\ cache' = [q \in Queries |-> IF q = "key" THEN Aged(cache[q]) ELSE Aged(Aged(cache[q]))]
        /\ memory' = [p \in Procs |-> Aged(memory[p])]
        /\ UNCHANGED <<data, execution, call, fetch>>
    BY <1>3 DEF Tick
  <2>2. /\ cache["key"] \in SUBSET Entry /\ cache["main"] \in SUBSET Entry
        /\ Aged(cache["main"]) \in SUBSET Entry
        /\ \A p \in Procs : memory[p] \in SUBSET Entry
    BY <1>1, <1>2 DEF CachesAreFit, Queries
  <2>3. /\ cache' \in [Queries -> SUBSET Entry] /\ memory' \in [Procs -> SUBSET Entry]
    BY <1>2, <2>1, <2>2 DEF Queries
  <2>4. /\ \A e \in cache'["key"] : e.value <= data
        /\ \A p \in Procs : \A e \in memory'[p] : e.value <= data
    BY <1>1, <1>2, <2>1, <2>2 DEF CachesAreFit, Queries
  <2>5. \A a \in cache'["main"] : \E e \in cache["main"] :
                  a.value = e.value /\ a.key = e.key /\ a.joined = e.joined
    <3>1. cache'["main"] = Aged(Aged(cache["main"]))
      BY <2>1 DEF Queries
    <3> QED
      BY <1>2, <2>2, <3>1
  <2>6. CachesAreFit'
    BY <1>1, <2>1, <2>3, <2>4, <2>5 DEF CachesAreFit, OwnEntryMatchesKey
  <2> QED
    BY <1>1, <2>1, <2>6, StayFit, CacheInvParts
<1>4. CASE UpdateData
  <2>1. data' = data + 1 /\ data < MaxData /\ UNCHANGED <<cache, memory, execution, call, fetch>>
    BY <1>4 DEF UpdateData
  <2>2. data' \in Versions /\ \A n \in Nat : n <= data => n <= data'
    BY <1>1, <2>1, NumberSets DEF Versions
  <2>3. CallsAreFit'
    BY <1>1, <2>1, <2>2 DEF CallsAreFit, Versions
  <2>4. FetchesAreFit'
    <3>1. \A c \in Calls : fetch[c]["key"].result \in Nat
      <4>1. \A c \in Calls : fetch[c]["key"] \in FetchStates
        BY <1>1 DEF FetchesAreFit, Queries
      <4> QED
        BY <4>1, NumberSets DEF FetchStates
    <3> QED
      BY <1>1, <2>1, <2>2, <3>1 DEF FetchesAreFit, OwnFetchIsFit, Versions
  <2>5. CachesAreFit'
    <3>1. /\ \A e \in cache["key"] : e.value \in Nat
          /\ \A p \in Procs : \A e \in memory[p] : e.value \in Nat
      BY <1>1 DEF CachesAreFit, Entry, Versions, Queries
    <3> QED
      BY <1>1, <2>1, <2>2, <3>1 DEF CachesAreFit, OwnEntryMatchesKey
  <2> QED
    BY <2>2, <2>3, <2>4, <2>5, CacheInvParts
<1>5. ASSUME NEW q \in Queries, Expire(q)
      PROVE  CacheInv'
  <2>1. cache' = [cache EXCEPT ![q] = {}] /\ UNCHANGED <<data, memory, execution, call, fetch>>
    BY <1>5 DEF Expire
  <2>2. CachesAreFit'
    BY <1>1, <2>1 DEF CachesAreFit, OwnEntryMatchesKey, Queries
  <2> QED
    BY <1>1, <2>1, <2>2, StayFit, CacheInvParts
<1> QED
  BY <1>3, <1>4, <1>5

(***************************************************************************)
(* The theorems                                                            *)
(***************************************************************************)
LEMMA CacheInvNext == CacheInv /\ [Next]_vars => CacheInv'
<1> SUFFICES ASSUME CacheInv, [Next]_vars PROVE CacheInv'
  OBVIOUS
<1>1. CASE UNCHANGED vars
  BY <1>1, CacheInvParts, StayFit DEF vars
<1>2. CASE \E c \in Calls : Step(c) \/ \E q \in Queries : TimeOut(c, q)
  BY <1>2, LooksKeepInv, FetchEndsKeepInv DEF Step
<1>3. CASE Execute \/ \E v \in 0 .. MaxData : Finish(v)
  BY <1>3, QueueKeepsInv
<1>4. CASE Tick \/ UpdateData \/ \E q \in Queries : Expire(q)
  BY <1>4, TimeKeepsInv
<1> QED
  BY <1>1, <1>2, <1>3, <1>4 DEF Next

\* The inductive invariant holds in every state: besides types, nothing is newer
\* than the data, and a fetch waits for nothing older than the key it holds.
THEOREM CacheInvAlways == Spec => []CacheInv
BY InitCacheInv, CacheInvNext, PTL DEF Spec

\* No error is cached in place of a result, and nothing is cached without a key.
THEOREM CacheTypeOK == Spec => []TypeOK
<1>1. CacheInv => TypeOK
  BY DEF CacheInv
<1> QED
  BY <1>1, CacheInvAlways, PTL

\* What an execution that began after it was asked for returns is as new as the
\* refresh key that it is cached with.
THEOREM OwnEntriesMatchKeys == Spec => []OwnEntryMatchesKey
<1>1. CacheInv => OwnEntryMatchesKey
  BY DEF CacheInv
<1> QED
  BY <1>1, CacheInvAlways, PTL
=============================================================================
