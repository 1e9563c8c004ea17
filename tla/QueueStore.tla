----------------------------- MODULE QueueStore -----------------------------
(***************************************************************************)
(* The shared store of one query queue and the operations its driver       *)
(* performs on it.  Two drivers exist: RedisQueueDriver.js (the store is a *)
(* Redis instance that every API process and worker shares) and            *)
(* LocalQueueDriver.js (the store is a set of objects of one process).     *)
(*                                                                         *)
(* A Redis MULTI/EXEC block is one step.  A WATCH lock / GET lock / EXEC   *)
(* sequence is one conditional step as well: processing ids are never      *)
(* reused, so a lock that still holds my id at EXEC has not been touched   *)
(* since WATCH, and a retrieval that EXEC refuses is the retrieval that    *)
(* had found the lock taken at the moment somebody took it.                *)
(***************************************************************************)
EXTENDS Naturals, FiniteSets

CONSTANTS
    Keys,          \* hashes of query keys (redisHash)
    Priority,      \* Priority[k]: the priority requests for k carry
    Concurrency,   \* the queue's concurrency option
    MaxId,         \* bound on processing ids (an unbounded counter in the code)
    MaxHandle,     \* bound on cancel handle numbers (unbounded in the code)
    Driver         \* "redis" or "local"

ASSUME KeysAssumption == IsFiniteSet(Keys) /\ Keys # {}
ASSUME PriorityAssumption == Priority \in [Keys -> Nat]
ASSUME ConcurrencyAssumption == Concurrency \in Nat \ {0}
ASSUME BoundsAssumption == MaxId \in Nat /\ MaxHandle \in Nat
ASSUME DriverAssumption == Driver \in {"redis", "local"}

VARIABLES
    queryDef,           \* keys with a definition (hash QUERIES)
    cancelHandler,      \* the cancelHandler field of a definition, 0 when unset
    toProcess,          \* the queue (sorted set QUEUE)
    earlier,            \* <<j, k>>: j entered the queue before k
    recent,             \* keys with a last-request deadline (sorted set RECENT)
    orphaned,           \* those of them whose deadline has passed
    active,             \* sorted set ACTIVE: score (a processing id) or 0
    heartBeat,          \* keys with a heartbeat time (sorted set HEART_BEAT)
    stalled,            \* those of them whose heartbeat is heartBeatTimeout old
    lock,               \* the processing lock: the holder's processing id or 0
    results,            \* the id of the worker whose result for the key no
                        \* request has taken yet, 0 if there is none
    processingCounter   \* the last processing id handed out

storeVars == <<queryDef, cancelHandler, toProcess, earlier, recent, orphaned,
               active, heartBeat, stalled, lock, results, processingCounter>>

Ids == 1 .. MaxId
Handles == 1 .. MaxHandle

StoreTypeOK ==
    /\ queryDef \subseteq Keys
    /\ cancelHandler \in [Keys -> Handles \cup {0}]
    /\ toProcess \subseteq Keys
    /\ earlier \subseteq Keys \X Keys
    /\ recent \subseteq Keys
    /\ orphaned \subseteq recent
    /\ active \in [Keys -> Ids \cup {0}]
    /\ heartBeat \subseteq Keys
    /\ stalled \subseteq heartBeat
    /\ lock \in [Keys -> Ids \cup {0}]
    /\ results \in [Keys -> Ids \cup {0}]
    /\ processingCounter \in Ids \cup {0}

StoreInit ==
    /\ queryDef = {}
    /\ cancelHandler = [k \in Keys |-> 0]
    /\ toProcess = {}
    /\ earlier = {}
    /\ recent = {}
    /\ orphaned = {}
    /\ active = [k \in Keys |-> 0]
    /\ heartBeat = {}
    /\ stalled = {}
    /\ lock = [k \in Keys |-> 0]
    /\ results = [k \in Keys |-> 0]
    /\ processingCounter = 0

(***************************************************************************)
(* Reading the queue.                                                      *)
(***************************************************************************)

\* The order of keyScore: priority first, then the time the key was added.
Ahead(j, k) ==
    \/ Priority[j] > Priority[k]
    \/ Priority[j] = Priority[k] /\ <<j, k>> \in earlier

\* The first n queued keys of S (S is a part of toProcess).
TakeFirst(n, S) == {k \in S : Cardinality({j \in S : Ahead(j, k)}) < n}

ActiveKeys == {k \in Keys : active[k] # 0}

\* Ranks 0 .. n-1 of the ACTIVE sorted set, given its scores.
LowestScores(n, score) ==
    LET members == {k \in Keys : score[k] # 0}
    IN  {k \in members : Cardinality({j \in members : score[j] < score[k]}) < n}

(***************************************************************************)
(* Operations.  Each one says what it does to the variables it names; the  *)
(* caller says what becomes of processingCounter.                          *)
(***************************************************************************)

AddToQueue(k) ==
    /\ queryDef' = queryDef \cup {k}
    /\ toProcess' = toProcess \cup {k}
    /\ earlier' = IF k \in toProcess THEN earlier
                                     ELSE earlier \cup (toProcess \X {k})
    /\ recent' = recent \cup {k}
    /\ orphaned' = orphaned \ {k}
    /\ UNCHANGED <<cancelHandler, active, heartBeat, stalled, lock, results>>

\* Mutant: the removal forgets DEL of the processing lock.
DeleteEntryKeepsLock(k) ==
    /\ queryDef' = queryDef \ {k}
    /\ cancelHandler' = [cancelHandler EXCEPT ![k] = 0]
    /\ toProcess' = toProcess \ {k}
    /\ earlier' = {e \in earlier : e[1] # k /\ e[2] # k}
    /\ recent' = recent \ {k}
    /\ orphaned' = orphaned \ {k}
    /\ active' = [active EXCEPT ![k] = 0]
    /\ heartBeat' = heartBeat \ {k}
    /\ stalled' = stalled \ {k}
    /\ lock' = lock

\* What every removal deletes: the definition, the queue entry, the deadline,
\* the heartbeat, the activity and the processing lock.
DeleteEntry(k) ==
    /\ queryDef' = queryDef \ {k}
    /\ cancelHandler' = [cancelHandler EXCEPT ![k] = 0]
    /\ toProcess' = toProcess \ {k}
    /\ earlier' = {e \in earlier : e[1] # k /\ e[2] # k}
    /\ recent' = recent \ {k}
    /\ orphaned' = orphaned \ {k}
    /\ active' = [active EXCEPT ![k] = 0]
    /\ heartBeat' = heartBeat \ {k}
    /\ stalled' = stalled \ {k}
    /\ lock' = [lock EXCEPT ![k] = 0]

GetQueryAndRemove(k) == DeleteEntry(k) /\ UNCHANGED results

\* Mutant: a result is accepted as long as somebody holds the lock.
SetResultUnderAnyLock(k, id) ==
    IF lock[k] # 0
    THEN DeleteEntry(k) /\ results' = [results EXCEPT ![k] = id]
    ELSE UNCHANGED <<queryDef, cancelHandler, toProcess, earlier, recent, orphaned,
                     active, heartBeat, stalled, lock, results>>

\* Without the lock the result is dropped ("Orphaned execution result").
SetResultAndRemoveQuery(k, id) ==
    IF lock[k] = id
    THEN DeleteEntry(k) /\ results' = [results EXCEPT ![k] = id]
    ELSE UNCHANGED <<queryDef, cancelHandler, toProcess, earlier, recent, orphaned,
                     active, heartBeat, stalled, lock, results>>

\* A request takes the last result there is for k.
GetResult(k) ==
    /\ results[k] # 0
    /\ results' = [results EXCEPT ![k] = 0]
    /\ UNCHANGED <<queryDef, cancelHandler, toProcess, earlier, recent, orphaned,
                   active, heartBeat, stalled, lock>>

\* Mutant: nothing is removed by rank.
RedisActivateUntrimmed(k, id) == [active EXCEPT ![k] = IF @ = 0 THEN id ELSE @]

\* ZADD NX of the id, then ZREMRANGEBYRANK concurrency -1 over all of ACTIVE:
\* the highest scores go, whoever holds them.
RedisActivate(k, id) ==
    LET added == [active EXCEPT ![k] = IF @ = 0 THEN id ELSE @]
    IN  [j \in Keys |-> IF j \in LowestScores(Concurrency, added) THEN added[j] ELSE 0]

\* Mutant: one key too many.
LocalActivateOneMore(k, id) ==
    IF active[k] = 0 /\ Cardinality(ActiveKeys) <= Concurrency
    THEN [active EXCEPT ![k] = id]
    ELSE active

LocalActivate(k, id) ==
    IF active[k] = 0 /\ Cardinality(ActiveKeys) < Concurrency
    THEN [active EXCEPT ![k] = id]
    ELSE active

\* What ACTIVE becomes when k is retrieved under id.
ActiveAfter(k, id) ==
    IF Driver = "redis" THEN RedisActivate(k, id) ELSE LocalActivate(k, id)

\* insertedCount: ZADD counts the key even if it is then removed by rank.
Inserted(k, id) ==
    active[k] = 0 /\ (Driver = "redis" \/ LocalActivate(k, id)[k] # 0)

\* Mutant: a retrieval writes no heartbeat time.
NoFirstHeartBeat(k) == UNCHANGED <<heartBeat, stalled>>

\* The first heartbeat: ZADD NX leaves an older time alone, the local driver
\* writes the present time.
FirstHeartBeat(k) ==
    /\ heartBeat' = heartBeat \cup {k}
    /\ stalled' = IF Driver = "redis" THEN stalled ELSE stalled \ {k}

\* Mutant: the lock is set to the id that comes next.
RetrieveUnderNextId(k, id) ==
    /\ active' = ActiveAfter(k, id)
    /\ lock' = [lock EXCEPT ![k] = id + 1]
    /\ FirstHeartBeat(k)
    /\ UNCHANGED <<queryDef, cancelHandler, toProcess, earlier, recent, orphaned, results>>

\* The free lock is taken; the key becomes active if there is room for it.
RetrieveForProcessing(k, id) ==
    /\ active' = ActiveAfter(k, id)
    /\ lock' = [lock EXCEPT ![k] = id]
    /\ FirstHeartBeat(k)
    /\ UNCHANGED <<queryDef, cancelHandler, toProcess, earlier, recent, orphaned, results>>

\* Mutant: the activity of an activated key is left behind.
FreeLockKeepsActivity(k, id, activated) ==
    /\ lock' = [lock EXCEPT ![k] = IF @ = id THEN 0 ELSE @]
    /\ UNCHANGED <<queryDef, cancelHandler, toProcess, earlier, recent, orphaned,
                   active, heartBeat, stalled, results>>

FreeProcessingLock(k, id, activated) ==
    /\ lock' = [lock EXCEPT ![k] = IF @ = id THEN 0 ELSE @]
    /\ active' = [active EXCEPT ![k] = IF lock[k] = id /\ activated THEN 0 ELSE @]
    /\ UNCHANGED <<queryDef, cancelHandler, toProcess, earlier, recent, orphaned,
                   heartBeat, stalled, results>>

\* Mutant: the definition is written without looking at the lock.
UpdateUnchecked(k, id, handle) ==
    /\ queryDef' = queryDef \cup {k}
    /\ cancelHandler' = [cancelHandler EXCEPT ![k] = handle]
    /\ UNCHANGED <<toProcess, earlier, recent, orphaned, active, heartBeat, stalled,
                   lock, results>>

\* HSET of the whole definition with one field replaced, if the lock is held.
OptimisticQueryUpdate(k, id, handle) ==
    /\ queryDef' = IF lock[k] = id THEN queryDef \cup {k} ELSE queryDef
    /\ cancelHandler' = [cancelHandler EXCEPT ![k] = IF lock[k] = id THEN handle ELSE @]
    /\ UNCHANGED <<toProcess, earlier, recent, orphaned, active, heartBeat, stalled,
                   lock, results>>

\* In Redis the update throws when it finds no definition and when EXEC is
\* refused because the lock has changed since GET.  An update that finds the
\* lock changed at GET returns false, whatever became of the definition.
UpdateReturns(k, id) == Driver = "local" \/ k \in queryDef \/ lock[k] # id
UpdateThrows(k, id) == Driver = "redis" /\ (k \notin queryDef \/ lock[k] # id)

\* ZADD without XX in Redis; the local driver updates an existing time only.
UpdateHeartBeat(k) ==
    /\ heartBeat' = IF Driver = "redis" THEN heartBeat \cup {k} ELSE heartBeat
    /\ stalled' = stalled \ {k}
    /\ UNCHANGED <<queryDef, cancelHandler, toProcess, earlier, recent, orphaned,
                   active, lock, results>>

GetNextProcessingId ==
    /\ processingCounter < MaxId
    /\ processingCounter' = processingCounter + 1
=============================================================================
