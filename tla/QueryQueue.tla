----------------------------- MODULE QueryQueue -----------------------------
(***************************************************************************)
(* QueryQueue.js on top of a queue store: API requests enqueue queries     *)
(* (executeInQueue), each process reconciles the queue (reconcileQueue),   *)
(* and every message a reconciliation sends starts a processQuery, which   *)
(* tries to lock, activate and execute its query.                          *)
(*                                                                         *)
(* A processQuery is a worker: an asynchronous function of its process,    *)
(* interleaved with the others at every await.  The number of workers      *)
(* bounds how many of them are in flight at once.                          *)
(***************************************************************************)
EXTENDS QueueStore

CONSTANTS
    Procs,       \* processes that share the store
    Workers,     \* processQuery invocations in flight
    Home,        \* Home[w]: the process worker w runs in
    MayExpire,   \* a query's deadline may pass (no request for orphanedTimeout)
    MayStall,    \* a live worker may miss heartbeats for heartBeatTimeout
    MayTimeOut,  \* an execution may exceed executionTimeout
    MayCrash     \* processes may crash and restart

ASSUME ActorsAssumption ==
    /\ Home \in [Workers -> Procs]
    /\ {MayExpire, MayStall, MayTimeOut, MayCrash} \subseteq BOOLEAN

\* The local store lives and dies with its only process.
ASSUME LocalAssumption ==
    Driver = "local" => ~MayCrash /\ \A p, q \in Procs : p = q

VARIABLES
    wk,            \* the state of each worker's processQuery
    rec,           \* the state of each process's reconcileQueue
    inbox,         \* keys of sendProcessMessage calls not yet started
    handleCounter  \* cancelHandlerCounter of each process's queue

vars == <<storeVars, wk, rec, inbox, handleCounter>>

\* pc:       where processQuery is
\*   "idle"    not running
\*   "begin"   has a processing id, about to retrieve
\*   "reread"  retrieved without a definition, about to read it again
\*   "mark"    owns the query, about to record startQueryTime
\*   "run"     the query handler runs, the heartbeat timer is on
\*   "save"    as "run", and the cancel handle is about to be recorded
\*   "finish"  has an execution result, about to set it
\*   "free"    skips the query, about to free the lock
\* activated: the key was in ACTIVE when it was retrieved
\* handle:    the number of its cancel handle, 0 before it is registered
\* listed:    the process's handles map holds that number
\* reported:  the key's heartbeat time is this worker's own
IdleWorker == [pc |-> "idle", key |-> CHOOSE k \in Keys : TRUE, id |-> 0,
               activated |-> FALSE, handle |-> 0, listed |-> FALSE,
               reported |-> FALSE]

\* pc:        where reconcileQueueImpl is; "idle" when no reconcilePromise
\* toCancel:  the stalled and orphaned keys it still has to remove
\* active:    the ACTIVE keys it has read
\* again:     reconcileAgain
IdleReconciler == [pc |-> "idle", toCancel |-> {}, active |-> {}, again |-> FALSE]

WorkerPcs == {"idle", "begin", "reread", "mark", "run", "save", "finish", "free"}
ReconcilerPcs == {"idle", "read", "remove", "send"}

TypeOK ==
    /\ StoreTypeOK
    /\ wk \in [Workers -> [pc : WorkerPcs, key : Keys, id : Ids \cup {0},
                           activated : BOOLEAN, handle : Handles \cup {0},
                           listed : BOOLEAN, reported : BOOLEAN]]
    /\ rec \in [Procs -> [pc : ReconcilerPcs, toCancel : SUBSET Keys,
                          active : SUBSET Keys, again : BOOLEAN]]
    /\ inbox \in [Procs -> SUBSET Keys]
    /\ handleCounter \in [Procs -> Handles \cup {0}]

Init ==
    /\ StoreInit
    /\ wk = [w \in Workers |-> IdleWorker]
    /\ rec = [p \in Procs |-> IdleReconciler]
    /\ inbox = [p \in Procs |-> {}]
    /\ handleCounter = [p \in Procs |-> 0]

\* Owning a query: past the retrieval that took its lock, and not skipping it.
OwnerPcs == {"mark", "run", "save", "finish"}
\* The query handler runs and heartbeats are sent.
ExecutingPcs == {"run", "save"}

Owns(w) == wk[w].pc \in OwnerPcs /\ lock[wk[w].key] = wk[w].id
Executes(w, k) == wk[w].pc \in ExecutingPcs /\ wk[w].key = k

-----------------------------------------------------------------------------
(***************************************************************************)
(* Requests and reconciliation.                                            *)
(***************************************************************************)

\* reconcileQueue: start a reconciliation, or ask the running one to repeat.
Reconcile(p) ==
    rec' = [rec EXCEPT ![p] = IF @.pc = "idle"
                              THEN [IdleReconciler EXCEPT !.pc = "read"]
                              ELSE [@ EXCEPT !.again = TRUE]]

\* executeInQueue found no result: enqueue the query and reconcile.
Request(p, k) ==
    /\ AddToQueue(k)
    /\ Reconcile(p)
    /\ UNCHANGED <<processingCounter, wk, inbox, handleCounter>>

\* executeInQueue found a result, or waited for it.
TakeResult(k) ==
    /\ GetResult(k)
    /\ UNCHANGED <<processingCounter, wk, rec, inbox, handleCounter>>

\* Mutant: only the orphaned queries are looked for.
ReadOrphanedOnly(p) ==
    /\ rec[p].pc = "read"
    /\ rec' = [rec EXCEPT ![p].pc = "remove", ![p].toCancel = orphaned]
    /\ UNCHANGED <<storeVars, wk, inbox, handleCounter>>

\* getStalledQueries and getOrphanedQueries.
ReadToCancel(p) ==
    /\ rec[p].pc = "read"
    /\ rec' = [rec EXCEPT ![p].pc = "remove", ![p].toCancel = stalled \cup orphaned]
    /\ UNCHANGED <<storeVars, wk, inbox, handleCounter>>

\* Mutant: everything the process executes is cancelled.
AfterCancelAll(p, handle) ==
    [w \in Workers |->
       IF Home[w] = p /\ handle # 0 THEN [wk[w] EXCEPT !.listed = FALSE] ELSE wk[w]]

\* The cancel handler of process p: cancel what its handles map holds under
\* the number of a definition, and drop the entry.  0 is "no cancelHandler".
AfterCancel(p, handle) ==
    [w \in Workers |->
       IF Home[w] = p /\ wk[w].listed /\ handle # 0 /\ wk[w].handle = handle
       THEN [wk[w] EXCEPT !.listed = FALSE]
       ELSE wk[w]]

\* getQueryAndRemove, then processCancel of the definition it returned.  The
\* keys are handled concurrently, in any order.
RemoveAndCancel(p, k) ==
    /\ rec[p].pc = "remove"
    /\ k \in rec[p].toCancel
    /\ GetQueryAndRemove(k)
    /\ wk' = IF k \in queryDef THEN AfterCancel(p, cancelHandler[k]) ELSE wk
    /\ rec' = [rec EXCEPT ![p].toCancel = @ \ {k}]
    /\ UNCHANGED <<processingCounter, inbox, handleCounter>>

ReadActive(p) ==
    /\ rec[p].pc = "remove"
    /\ rec[p].toCancel = {}
    /\ rec' = [rec EXCEPT ![p].pc = "send", ![p].active = ActiveKeys]
    /\ UNCHANGED <<storeVars, wk, inbox, handleCounter>>

\* Read the queue, send its first inactive queries to be processed, and start
\* over if another reconciliation was asked for meanwhile.
SendProcessMessages(p) ==
    /\ rec[p].pc = "send"
    /\ inbox' = [inbox EXCEPT
                   ![p] = @ \cup TakeFirst(Concurrency, toProcess \ rec[p].active)]
    /\ rec' = [rec EXCEPT ![p] = IF @.again
                                 THEN [IdleReconciler EXCEPT !.pc = "read"]
                                 ELSE IdleReconciler]
    /\ UNCHANGED <<storeVars, wk, handleCounter>>

-----------------------------------------------------------------------------
(***************************************************************************)
(* processQuery.                                                           *)
(***************************************************************************)

Start(w, k) ==
    /\ wk[w].pc = "idle"
    /\ k \in inbox[Home[w]]
    /\ GetNextProcessingId
    /\ inbox' = [inbox EXCEPT ![Home[w]] = @ \ {k}]
    /\ wk' = [wk EXCEPT ![w] = [IdleWorker EXCEPT !.pc = "begin", !.key = k,
                                                  !.id = processingCounter + 1]]
    /\ UNCHANGED <<queryDef, cancelHandler, toProcess, earlier, recent, orphaned,
                   active, heartBeat, stalled, lock, results, rec, handleCounter>>

\* The lock is taken: nothing was retrieved and there is nothing to free.
RetrieveNothing(w) ==
    /\ wk[w].pc = "begin"
    /\ lock[wk[w].key] # 0
    /\ wk' = [wk EXCEPT ![w] = IdleWorker]
    /\ UNCHANGED <<storeVars, rec, inbox, handleCounter>>

\* The lock is free.  A query that was inserted into ACTIVE and stayed there
\* is executed, provided there is a definition; any other is skipped.
Retrieve(w) ==
    LET k == wk[w].key
        activated == ActiveAfter(k, wk[w].id)[k] # 0
    IN  /\ wk[w].pc = "begin"
        /\ lock[k] = 0
        /\ RetrieveForProcessing(k, wk[w].id)
        /\ wk' = [wk EXCEPT
                    ![w].pc = IF ~(Inserted(k, wk[w].id) /\ activated) THEN "free"
                              ELSE IF k \in queryDef THEN "mark" ELSE "reread",
                    ![w].activated = activated,
                    ![w].reported = Driver = "local" \/ k \notin heartBeat]
        /\ UNCHANGED <<processingCounter, rec, inbox, handleCounter>>

\* The retrieval brought no definition: it is read once more.
ReadDefinition(w) ==
    /\ wk[w].pc = "reread"
    /\ wk' = [wk EXCEPT ![w].pc = IF wk[w].key \in queryDef THEN "mark" ELSE "free"]
    /\ UNCHANGED <<storeVars, rec, inbox, handleCounter>>

\* startQueryTime is recorded; whether the update was refused is not looked at.
MarkStarted(w) ==
    LET k == wk[w].key
    IN  /\ wk[w].pc = "mark"
        /\ UpdateReturns(k, wk[w].id)
        /\ OptimisticQueryUpdate(k, wk[w].id, cancelHandler[k])
        /\ wk' = [wk EXCEPT ![w].pc = "run"]
        /\ UNCHANGED <<processingCounter, rec, inbox, handleCounter>>

\* The update throws: processQuery ends there and frees nothing.
MarkFailed(w) ==
    /\ wk[w].pc = "mark"
    /\ UpdateThrows(wk[w].key, wk[w].id)
    /\ wk' = [wk EXCEPT ![w] = IdleWorker]
    /\ UNCHANGED <<storeVars, rec, inbox, handleCounter>>

\* The handler started a cancellable query: it gets a number of its process.
RegisterHandle(w) ==
    LET p == Home[w]
    IN  /\ wk[w].pc = "run"
        /\ wk[w].handle = 0
        /\ handleCounter[p] < MaxHandle
        /\ handleCounter' = [handleCounter EXCEPT ![p] = @ + 1]
        /\ wk' = [wk EXCEPT ![w].pc = "save", ![w].listed = TRUE,
                            ![w].handle = handleCounter[p] + 1]
        /\ UNCHANGED <<storeVars, rec, inbox>>

\* The number is written into the definition, if the lock is still held.
SaveHandle(w) ==
    /\ wk[w].pc = "save"
    /\ UpdateReturns(wk[w].key, wk[w].id)
    /\ OptimisticQueryUpdate(wk[w].key, wk[w].id, wk[w].handle)
    /\ wk' = [wk EXCEPT ![w].pc = "run"]
    /\ UNCHANGED <<processingCounter, rec, inbox, handleCounter>>

\* The update throws, and with it the handler: the execution ends in an error.
SaveHandleFailed(w) ==
    /\ wk[w].pc = "save"
    /\ UpdateThrows(wk[w].key, wk[w].id)
    /\ wk' = [wk EXCEPT ![w].pc = "finish"]
    /\ UNCHANGED <<storeVars, rec, inbox, handleCounter>>

HeartBeat(w) ==
    /\ wk[w].pc \in ExecutingPcs
    /\ UpdateHeartBeat(wk[w].key)
    /\ wk' = [wk EXCEPT ![w].reported = TRUE]
    /\ UNCHANGED <<processingCounter, rec, inbox, handleCounter>>

\* The handler returns (and drops its handle) or fails (a settled promise is
\* left in the handles map, and cancelling it does nothing).
Complete(w) ==
    /\ wk[w].pc = "run"
    /\ wk' = [wk EXCEPT ![w].pc = "finish", ![w].listed = FALSE]
    /\ UNCHANGED <<storeVars, rec, inbox, handleCounter>>

\* queryTimeout rejects: the definition is read and its cancelHandler is
\* cancelled in this process.  SaveHandle is not under way at that moment.
TimeOut(w) ==
    LET k == wk[w].key
        cancelled == IF k \in queryDef THEN AfterCancel(Home[w], cancelHandler[k]) ELSE wk
    IN  /\ MayTimeOut
        /\ wk[w].pc = "run"
        /\ wk' = [cancelled EXCEPT ![w].pc = "finish"]
        /\ UNCHANGED <<storeVars, rec, inbox, handleCounter>>

SetResult(w) ==
    /\ wk[w].pc = "finish"
    /\ SetResultAndRemoveQuery(wk[w].key, wk[w].id)
    /\ wk' = [wk EXCEPT ![w] = IdleWorker]
    /\ Reconcile(Home[w])
    /\ UNCHANGED <<processingCounter, inbox, handleCounter>>

FreeLock(w) ==
    /\ wk[w].pc = "free"
    /\ FreeProcessingLock(wk[w].key, wk[w].id, wk[w].activated)
    /\ wk' = [wk EXCEPT ![w] = IdleWorker]
    /\ UNCHANGED <<processingCounter, rec, inbox, handleCounter>>

-----------------------------------------------------------------------------
(***************************************************************************)
(* Time and failures.                                                      *)
(***************************************************************************)

\* orphanedTimeout has passed since the last request for k.
DeadlinePasses(k) ==
    /\ MayExpire
    /\ k \in recent
    /\ orphaned' = orphaned \cup {k}
    /\ UNCHANGED <<queryDef, cancelHandler, toProcess, earlier, recent, active,
                   heartBeat, stalled, lock, results, processingCounter,
                   wk, rec, inbox, handleCounter>>

\* heartBeatTimeout has passed since the recorded heartbeat of k.  It does not
\* while the worker that recorded it reports every heartBeatInterval.
HeartBeatAges(k) ==
    /\ k \in heartBeat
    /\ \/ MayStall
       \/ \A w \in Workers :
            ~(wk[w].pc \in OwnerPcs /\ wk[w].key = k /\ wk[w].reported)
    /\ stalled' = stalled \cup {k}
    /\ UNCHANGED <<queryDef, cancelHandler, toProcess, earlier, recent, orphaned,
                   active, heartBeat, lock, results, processingCounter,
                   wk, rec, inbox, handleCounter>>

\* A process stops and a new one takes its place: its workers, reconciliation,
\* pending messages and handle numbers are gone, the store is not.
Crash(p) ==
    /\ MayCrash
    /\ wk' = [w \in Workers |-> IF Home[w] = p THEN IdleWorker ELSE wk[w]]
    /\ rec' = [rec EXCEPT ![p] = IdleReconciler]
    /\ inbox' = [inbox EXCEPT ![p] = {}]
    /\ handleCounter' = [handleCounter EXCEPT ![p] = 0]
    /\ UNCHANGED storeVars

-----------------------------------------------------------------------------

ReconcileStep(p) ==
    \/ ReadToCancel(p)
    \/ \E k \in Keys : RemoveAndCancel(p, k)
    \/ ReadActive(p)
    \/ SendProcessMessages(p)

\* What a worker does once it is started.
WorkerProgress(w) ==
    \/ RetrieveNothing(w)
    \/ Retrieve(w)
    \/ ReadDefinition(w)
    \/ MarkStarted(w)
    \/ MarkFailed(w)
    \/ RegisterHandle(w)
    \/ SaveHandle(w)
    \/ SaveHandleFailed(w)
    \/ Complete(w)
    \/ TimeOut(w)
    \/ SetResult(w)
    \/ FreeLock(w)

Next ==
    \/ \E p \in Procs, k \in Keys : Request(p, k)
    \/ \E k \in Keys : TakeResult(k)
    \/ \E p \in Procs : ReconcileStep(p)
    \/ \E w \in Workers, k \in Keys : Start(w, k)
    \/ \E w \in Workers : WorkerProgress(w)
    \/ \E w \in Workers : HeartBeat(w)
    \/ \E k \in Keys : DeadlinePasses(k)
    \/ \E k \in Keys : HeartBeatAges(k)
    \/ \E p \in Procs : Crash(p)

Spec == Init /\ [][Next]_vars

-----------------------------------------------------------------------------
(***************************************************************************)
(* What must hold.                                                         *)
(***************************************************************************)

\* A query is defined exactly when it is queued and has a deadline: no
\* half-removed entry stays behind that a reconciliation would never clean up
\* (addToQueue, the removals and optimisticQueryUpdate write these separately).
EntryWhole == queryDef = toProcess /\ toProcess = recent

\* A worker that holds the lock of the query it executes finds the query still
\* queued and defined: no removal leaves a running execution its lock.
OwnerHasEntry == \A w \in Workers : Owns(w) => wk[w].key \in queryDef

\* An active key is active on behalf of the holder of its lock: whoever frees
\* or reclaims the lock can tell whose activity ends, and an activity never
\* outlives the lock it came with and blocks the queue.
ActiveBelongsToOwner == \A k \in Keys : active[k] \in {0, lock[k]}

\* A held lock comes with a heartbeat time, the only thing by which a later
\* reconciliation can reclaim it when its holder has died.
LockIsReclaimable == \A k \in Keys : lock[k] # 0 => k \in heartBeat

\* ACTIVE never holds more than `concurrency` keys after a retrieval has
\* inserted one, however retrievals and removals interleave.
ActiveWithinConcurrency == Cardinality(ActiveKeys) <= Concurrency

\* The queries that a worker executes and holds the lock of.
KeysInExecution == {wk[w].key : w \in {v \in Workers : Owns(v)}}

\* Config.md, concurrency: "Maximum number of queries to be processed
\* simultaneosly."
ConcurrencyRespected == Cardinality(KeysInExecution) <= Concurrency

\* This step cancels the execution of w, which goes on until it notices.
IsCancelled(w) ==
    /\ wk[w].listed /\ ~wk'[w].listed
    /\ wk[w].pc \in ExecutingPcs /\ wk'[w].pc \in ExecutingPcs

\* Config.md, heartBeatInterval and orphanedTimeout: it is "the query" that
\* stopped reporting, or was not requested, that gets cancelled.  A step
\* cancels an execution only if it removes the query executed, or if an
\* execution of that query has exceeded its timeout in the step.
CancelsItsOwnQuery ==
    [][\A w \in Workers : IsCancelled(w) =>
         \/ wk[w].key \in queryDef \ queryDef'
         \/ \E v \in Workers : wk[v].key = wk[w].key /\ wk[v].pc = "run" /\ wk'[v].pc = "finish"
      ]_vars

\* The queue keeps the promises of FencedQueue: the lock is the grant, and the
\* ids that are not spent are those still to be handed out or about to retrieve.
\* A worker whose query was reclaimed, and is executed by another by now, sets
\* no result under that other's lock (setResultAndRemoveQuery compares the ids).
Promise == INSTANCE FencedQueue WITH
    queued <- queryDef,
    grant <- lock,
    spent <- {i \in 1 .. processingCounter :
                \A w \in Workers : ~(wk[w].pc = "begin" /\ wk[w].id = i)},
    result <- results

KeepsPromise == Promise!FencedSpec

-----------------------------------------------------------------------------
(***************************************************************************)
(* What must happen eventually.                                            *)
(***************************************************************************)

\* The holder of k's lock is gone: it crashed, or its processQuery ended.
Abandoned(k) ==
    lock[k] # 0 /\ \A w \in Workers : wk[w].pc = "idle" \/ wk[w].id # lock[k]

\* Steps of a live process are taken eventually, executions end, time passes,
\* and clients keep asking for the queries they wait for ("Continue wait").
\* No fairness for Crash; processes that crash for ever reconcile nothing.
Fairness ==
    /\ \A p \in Procs : WF_vars(ReconcileStep(p))
    /\ \A w \in Workers : WF_vars(WorkerProgress(w))
    /\ \A k \in Keys : WF_vars(\E p \in Procs : Request(p, k))
    /\ \A k \in Keys : WF_vars(HeartBeatAges(k))
    /\ <>[][~\E p \in Procs : Crash(p)]_vars

FairSpec == Spec /\ Fairness

\* A query whose worker died is not locked for ever: its heartbeat ages, a
\* reconciliation removes it, and the next request can have it executed.
AbandonedIsReclaimed == \A k \in Keys : Abandoned(k) ~> ~Abandoned(k)
=============================================================================
