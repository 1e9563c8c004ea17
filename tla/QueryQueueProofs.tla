-------------------------- MODULE QueryQueueProofs --------------------------
(***************************************************************************)
(* Theorems about QueryQueue, for every value of its constants: types; the *)
(* safety invariants and the promise of the queue, for both drivers; how   *)
(* many queries are active; which executions a cancellation ends.          *)
(***************************************************************************)
EXTENDS QueryQueue, FiniteSetTheorems, TLAPS

\* What the type of wk and rec says of one element.
WorkerType == [pc : WorkerPcs, key : Keys, id : Ids \cup {0}, activated : BOOLEAN,
               handle : Handles \cup {0}, listed : BOOLEAN, reported : BOOLEAN]
ReconcilerType == [pc : ReconcilerPcs, toCancel : SUBSET Keys, active : SUBSET Keys,
                   again : BOOLEAN]

\* The idle worker and the idle reconciliation are well typed.
LEMMA IdleTypes == IdleWorker \in WorkerType /\ IdleReconciler \in ReconcilerType
<1>1. (CHOOSE k \in Keys : TRUE) \in Keys
  BY KeysAssumption
<1>2. IdleWorker \in WorkerType
  BY <1>1 DEF IdleWorker, WorkerType, WorkerPcs
<1>3. IdleReconciler \in ReconcilerType
  BY DEF IdleReconciler, ReconcilerType, ReconcilerPcs
<1> QED
  BY <1>2, <1>3

\* Activating a key keeps ACTIVE a map from keys to ids.
LEMMA ActiveAfterType ==
  ASSUME StoreTypeOK, NEW k \in Keys, NEW id \in Ids
  PROVE  ActiveAfter(k, id) \in [Keys -> Ids \cup {0}]
BY DEF StoreTypeOK, ActiveAfter, RedisActivate, LocalActivate

\* Removing an entry keeps the store well typed.
LEMMA DeleteEntryType ==
  ASSUME StoreTypeOK, NEW k \in Keys, DeleteEntry(k)
  PROVE  /\ queryDef' \subseteq Keys
         /\ cancelHandler' \in [Keys -> Handles \cup {0}]
         /\ toProcess' \subseteq Keys
         /\ earlier' \subseteq Keys \X Keys
         /\ recent' \subseteq Keys
         /\ orphaned' \subseteq recent'
         /\ active' \in [Keys -> Ids \cup {0}]
         /\ heartBeat' \subseteq Keys
         /\ stalled' \subseteq heartBeat'
         /\ lock' \in [Keys -> Ids \cup {0}]
BY DEF StoreTypeOK, DeleteEntry

\* A step that leaves the store alone leaves it well typed.
LEMMA SameStoreType == StoreTypeOK /\ UNCHANGED storeVars => StoreTypeOK'
BY DEF StoreTypeOK, storeVars

\* The operations of the store that need no processing id keep it well typed.
LEMMA EntryOperationsType ==
  ASSUME StoreTypeOK, UNCHANGED processingCounter, NEW k \in Keys,
         \/ AddToQueue(k)
         \/ GetQueryAndRemove(k)
         \/ GetResult(k)
         \/ UpdateHeartBeat(k)
  PROVE  StoreTypeOK'
<1>1. CASE AddToQueue(k)
  BY <1>1 DEF StoreTypeOK, AddToQueue
<1>2. CASE GetQueryAndRemove(k)
  BY <1>2, DeleteEntryType DEF StoreTypeOK, GetQueryAndRemove
<1>3. CASE GetResult(k)
  BY <1>3 DEF StoreTypeOK, GetResult
<1>4. CASE UpdateHeartBeat(k)
  BY <1>4 DEF StoreTypeOK, UpdateHeartBeat
<1> QED
  BY <1>1, <1>2, <1>3, <1>4

\* So do those that a worker performs under its id.
LEMMA LockOperationsType ==
  ASSUME StoreTypeOK, UNCHANGED processingCounter, NEW k \in Keys, NEW id \in Ids,
         NEW handle \in Handles \cup {0}, NEW activated \in BOOLEAN,
         \/ SetResultAndRemoveQuery(k, id)
         \/ RetrieveForProcessing(k, id)
         \/ FreeProcessingLock(k, id, activated)
         \/ OptimisticQueryUpdate(k, id, handle)
  PROVE  StoreTypeOK'
<1>1. CASE SetResultAndRemoveQuery(k, id)
  BY <1>1, DeleteEntryType DEF StoreTypeOK, SetResultAndRemoveQuery
<1>2. CASE RetrieveForProcessing(k, id)
  BY <1>2, ActiveAfterType DEF StoreTypeOK, RetrieveForProcessing, FirstHeartBeat
<1>3. CASE FreeProcessingLock(k, id, activated)
  BY <1>3 DEF StoreTypeOK, FreeProcessingLock
<1>4. CASE OptimisticQueryUpdate(k, id, handle)
  BY <1>4 DEF StoreTypeOK, OptimisticQueryUpdate
<1> QED
  BY <1>1, <1>2, <1>3, <1>4

-----------------------------------------------------------------------------
(***************************************************************************)
(* Types.  TypeOK is not inductive by itself: that a retrieval writes an   *)
(* id of the right range rests on every running worker having got one from *)
(* the processing counter.                                                 *)
(***************************************************************************)

\* Every running worker has an id of its own that was handed out before.
IdsAreOwn ==
    /\ \A w \in Workers : wk[w].pc # "idle" =>
          wk[w].id \in Ids /\ wk[w].id <= processingCounter
    /\ \A v, w \in Workers :
          v # w /\ wk[v].pc # "idle" /\ wk[w].pc # "idle" => wk[v].id # wk[w].id

TypeInv == TypeOK /\ IdsAreOwn

LEMMA InitTypeInv == Init => TypeInv
<1> SUFFICES ASSUME Init PROVE TypeInv
  OBVIOUS
<1>1. StoreTypeOK
  BY BoundsAssumption DEF Init, StoreInit, StoreTypeOK
<1>2. TypeOK
  BY <1>1, IdleTypes, ActorsAssumption
  DEF Init, TypeOK, WorkerType, ReconcilerType
<1>3. IdsAreOwn
  BY DEF Init, IdsAreOwn, IdleWorker
<1> QED
  BY <1>2, <1>3 DEF TypeInv

\* The worker that an action moves on keeps its id or becomes idle.
LEMMA SameIds ==
  ASSUME TypeInv, UNCHANGED processingCounter, wk' \in [Workers -> WorkerType],
         \A w \in Workers :
           wk'[w].pc # "idle" => wk[w].pc # "idle" /\ wk'[w].id = wk[w].id
  PROVE  IdsAreOwn'
BY DEF TypeInv, IdsAreOwn

\* Cancelling changes nothing but which handles are listed.
LEMMA AfterCancelType ==
  ASSUME TypeInv, NEW p \in Procs, NEW handle
  PROVE  /\ AfterCancel(p, handle) \in [Workers -> WorkerType]
         /\ \A w \in Workers :
              LET a == AfterCancel(p, handle)[w]
              IN  /\ a.pc = wk[w].pc /\ a.key = wk[w].key /\ a.id = wk[w].id
                  /\ a.activated = wk[w].activated /\ a.handle = wk[w].handle
BY ZenonT(30) DEF TypeInv, TypeOK, WorkerType, AfterCancel

\* Asking for a reconciliation keeps the reconcilers well typed.
LEMMA ReconcileType ==
  ASSUME TypeOK, NEW p \in Procs, Reconcile(p)
  PROVE  rec' \in [Procs -> ReconcilerType]
BY IdleTypes DEF TypeOK, Reconcile, ReconcilerType, ReconcilerPcs

LEMMA NextTypeInv == TypeInv /\ [Next]_vars => TypeInv'
<1> SUFFICES ASSUME TypeInv, [Next]_vars PROVE TypeInv'
  OBVIOUS
<1>0. /\ StoreTypeOK
      /\ wk \in [Workers -> WorkerType]
      /\ rec \in [Procs -> ReconcilerType]
      /\ inbox \in [Procs -> SUBSET Keys]
      /\ handleCounter \in [Procs -> Handles \cup {0}]
      /\ IdsAreOwn
  BY DEF TypeInv, TypeOK, WorkerType, ReconcilerType
<1> DEFINE Goal == /\ StoreTypeOK'
                   /\ wk' \in [Workers -> WorkerType]
                   /\ rec' \in [Procs -> ReconcilerType]
                   /\ inbox' \in [Procs -> SUBSET Keys]
                   /\ handleCounter' \in [Procs -> Handles \cup {0}]
                   /\ IdsAreOwn'
<1> SUFFICES Goal
  BY DEF TypeInv, TypeOK, WorkerType, ReconcilerType
<1>1. ASSUME NEW p \in Procs, NEW k \in Keys, Request(p, k) PROVE Goal
  <2>1. StoreTypeOK'
    BY <1>0, <1>1, EntryOperationsType DEF Request
  <2>2. rec' \in [Procs -> ReconcilerType]
    BY <1>1, ReconcileType DEF Request, TypeInv
  <2> QED
    BY <1>0, <1>1, <2>1, <2>2 DEF Request, IdsAreOwn
<1>2. ASSUME NEW k \in Keys, TakeResult(k) PROVE Goal
  <2>1. StoreTypeOK'
    BY <1>0, <1>2, EntryOperationsType DEF TakeResult
  <2> QED
    BY <1>0, <1>2, <2>1 DEF TakeResult, IdsAreOwn
<1>3. ASSUME NEW p \in Procs, ReconcileStep(p) PROVE Goal
  <2>1. CASE ReadToCancel(p)
    <3>1. StoreTypeOK' /\ processingCounter' = processingCounter
      BY <1>0, <2>1, SameStoreType DEF ReadToCancel, storeVars
    <3>2. stalled \cup orphaned \in SUBSET Keys
      BY <1>0 DEF StoreTypeOK
    <3>3. PICK S \in SUBSET Keys :
            rec' = [rec EXCEPT ![p].pc = "remove", ![p].toCancel = S]
      BY <2>1, <3>2 DEF ReadToCancel
    <3>4. [rec[p] EXCEPT !.pc = "remove", !.toCancel = S] \in ReconcilerType
      BY <1>0 DEF ReconcilerType, ReconcilerPcs
    <3>5. rec' = [rec EXCEPT ![p] = [rec[p] EXCEPT !.pc = "remove", !.toCancel = S]]
      BY <1>0, <3>3
    <3>6. rec' \in [Procs -> ReconcilerType]
      BY <1>0, <3>4, <3>5
    <3> QED
      BY <1>0, <2>1, <3>1, <3>6 DEF ReadToCancel, IdsAreOwn
  <2>2. ASSUME NEW k \in Keys, RemoveAndCancel(p, k) PROVE Goal
    <3>1. StoreTypeOK'
      BY <1>0, <2>2, EntryOperationsType DEF RemoveAndCancel
    <3>2. wk' \in [Workers -> WorkerType] /\ IdsAreOwn'
      BY <1>0, <2>2, AfterCancelType DEF RemoveAndCancel, IdsAreOwn
    <3> QED
      BY <1>0, <2>2, <3>1, <3>2 DEF RemoveAndCancel, ReconcilerType
  <2>3. CASE ReadActive(p)
    <3>1. StoreTypeOK' /\ processingCounter' = processingCounter
      BY <1>0, <2>3, SameStoreType DEF ReadActive, storeVars
    <3>2. rec' \in [Procs -> ReconcilerType]
      BY <1>0, <2>3, ZenonT(30) DEF ReadActive, ReconcilerType, ReconcilerPcs, ActiveKeys
    <3> QED
      BY <1>0, <2>3, <3>1, <3>2 DEF ReadActive, IdsAreOwn
  <2>4. CASE SendProcessMessages(p)
    <3>1. TakeFirst(Concurrency, toProcess \ rec[p].active) \subseteq Keys
      BY <1>0 DEF TakeFirst, StoreTypeOK
    <3>2. StoreTypeOK' /\ processingCounter' = processingCounter
      BY <1>0, <2>4, SameStoreType DEF SendProcessMessages, storeVars
    <3>3. rec' \in [Procs -> ReconcilerType]
      BY <1>0, <2>4, IdleTypes DEF SendProcessMessages, ReconcilerType, ReconcilerPcs
    <3>4. inbox' \in [Procs -> SUBSET Keys]
      BY <1>0, <2>4, <3>1 DEF SendProcessMessages
    <3> QED
      BY <1>0, <2>4, <3>2, <3>3, <3>4 DEF SendProcessMessages, IdsAreOwn
  <2> QED
    BY <1>3, <2>1, <2>2, <2>3, <2>4 DEF ReconcileStep
<1>4. ASSUME NEW w \in Workers, NEW k \in Keys, Start(w, k) PROVE Goal
  <2>1. processingCounter' \in Ids /\ processingCounter' = processingCounter + 1
    BY <1>0, <1>4, BoundsAssumption DEF Start, GetNextProcessingId, StoreTypeOK, Ids
  <2>2. StoreTypeOK'
    BY <1>0, <1>4, <2>1 DEF Start, StoreTypeOK
  <2>3. wk' \in [Workers -> WorkerType]
    BY <1>0, <1>4, <2>1, IdleTypes DEF Start, WorkerType, WorkerPcs
  <2>4. IdsAreOwn'
    BY <1>0, <1>4, <2>1 DEF Start, IdsAreOwn, StoreTypeOK, Ids, IdleWorker
  <2> QED
    BY <1>0, <1>4, <2>2, <2>3, <2>4 DEF Start
<1>5. ASSUME NEW w \in Workers, WorkerProgress(w) PROVE Goal
  <2> DEFINE k == wk[w].key
  <2>0. k \in Keys /\ wk[w] \in WorkerType /\ cancelHandler[k] \in Handles \cup {0}
    BY <1>0 DEF WorkerType, StoreTypeOK
  <2>1. ASSUME wk' \in [Workers -> WorkerType],
               \A v \in Workers :
                 wk'[v].pc # "idle" => wk[v].pc # "idle" /\ wk'[v].id = wk[v].id,
               processingCounter' = processingCounter
        PROVE  IdsAreOwn'
    BY <1>0, <2>1 DEF IdsAreOwn
  <2>2. wk[w].pc # "idle" => wk[w].id \in Ids
    BY <1>0 DEF IdsAreOwn
  <2>3. CASE RetrieveNothing(w)
    <3>1. StoreTypeOK' /\ processingCounter' = processingCounter
      BY <1>0, <2>3, SameStoreType DEF RetrieveNothing, storeVars
    <3>2. wk' \in [Workers -> WorkerType]
      BY <1>0, <2>3, <2>0, IdleTypes DEF RetrieveNothing, WorkerType, WorkerPcs
    <3> QED
      BY <1>0, <2>1, <2>3, <3>1, <3>2 DEF RetrieveNothing, IdleWorker, WorkerType
  <2>4. CASE Retrieve(w)
    <3>1. processingCounter' = processingCounter /\ wk[w].id \in Ids
      BY <2>2, <2>4 DEF Retrieve
    <3>2. StoreTypeOK'
      BY <1>0, <2>4, <2>0, <3>1, LockOperationsType DEF Retrieve, WorkerType
    <3>3. PICK x \in {"free", "mark", "reread"}, a \in BOOLEAN, r \in BOOLEAN :
            wk' = [wk EXCEPT ![w].pc = x, ![w].activated = a, ![w].reported = r]
      BY <2>4 DEF Retrieve
    <3> DEFINE new == [wk[w] EXCEPT !.pc = x, !.activated = a, !.reported = r]
    <3>4. new \in WorkerType /\ new.id = wk[w].id
      BY <2>0 DEF WorkerType, WorkerPcs
    <3>5. wk' = [wk EXCEPT ![w] = new]
      BY <1>0, <3>3
    <3> HIDE DEF new
    <3>6. wk' \in [Workers -> WorkerType]
      BY <1>0, <3>4, <3>5
    <3> QED
      BY <1>0, <2>1, <2>4, <3>1, <3>2, <3>4, <3>5, <3>6 DEF Retrieve, WorkerType
  <2>5. CASE ReadDefinition(w)
    <3>1. StoreTypeOK' /\ processingCounter' = processingCounter
      BY <1>0, <2>5, SameStoreType DEF ReadDefinition, storeVars
    <3>2. wk' \in [Workers -> WorkerType]
      BY <1>0, <2>5, <2>0, IdleTypes DEF ReadDefinition, WorkerType, WorkerPcs
    <3> QED
      BY <1>0, <2>1, <2>5, <3>1, <3>2 DEF ReadDefinition, IdleWorker, WorkerType
  <2>6. CASE MarkStarted(w)
    <3>1. processingCounter' = processingCounter /\ wk[w].id \in Ids
      BY <2>2, <2>6 DEF MarkStarted
    <3>2. StoreTypeOK'
      BY <1>0, <2>6, <2>0, <3>1, LockOperationsType DEF MarkStarted, WorkerType
    <3>3. wk' \in [Workers -> WorkerType]
      BY <1>0, <2>6, <2>0, IdleTypes DEF MarkStarted, WorkerType, WorkerPcs
    <3> QED
      BY <1>0, <2>1, <2>6, <3>1, <3>2, <3>3 DEF MarkStarted, IdleWorker, WorkerType
  <2>7. CASE MarkFailed(w)
    <3>1. StoreTypeOK' /\ processingCounter' = processingCounter
      BY <1>0, <2>7, SameStoreType DEF MarkFailed, storeVars
    <3>2. wk' \in [Workers -> WorkerType]
      BY <1>0, <2>7, <2>0, IdleTypes DEF MarkFailed, WorkerType, WorkerPcs
    <3> QED
      BY <1>0, <2>1, <2>7, <3>1, <3>2 DEF MarkFailed, IdleWorker, WorkerType
  <2>8. CASE RegisterHandle(w)
    <3>1. StoreTypeOK' /\ processingCounter' = processingCounter
      BY <1>0, <2>8, SameStoreType DEF RegisterHandle, storeVars
    <3>2. Home[w] \in Procs /\ handleCounter[Home[w]] + 1 \in Handles
      <4>1. Home[w] \in Procs
        BY ActorsAssumption
      <4>2. handleCounter[Home[w]] \in Handles \cup {0}
        BY <1>0, <4>1
      <4> QED
        BY <2>8, <4>1, <4>2, BoundsAssumption DEF RegisterHandle, Handles
    <3>3. wk' \in [Workers -> WorkerType] /\ handleCounter' \in [Procs -> Handles \cup {0}]
      BY <1>0, <2>8, <2>0, <3>2 DEF RegisterHandle, WorkerType, WorkerPcs
    <3> QED
      BY <1>0, <2>1, <2>8, <3>1, <3>3 DEF RegisterHandle, WorkerType
  <2>9. CASE SaveHandle(w)
    <3>1. processingCounter' = processingCounter /\ wk[w].id \in Ids
      BY <2>2, <2>9 DEF SaveHandle
    <3>2. StoreTypeOK'
      BY <1>0, <2>9, <2>0, <3>1, LockOperationsType DEF SaveHandle, WorkerType
    <3>3. wk' \in [Workers -> WorkerType]
      BY <1>0, <2>9, <2>0, IdleTypes DEF SaveHandle, WorkerType, WorkerPcs
    <3> QED
      BY <1>0, <2>1, <2>9, <3>1, <3>2, <3>3 DEF SaveHandle, IdleWorker, WorkerType
  <2>10. CASE SaveHandleFailed(w)
    <3>1. StoreTypeOK' /\ processingCounter' = processingCounter
      BY <1>0, <2>10, SameStoreType DEF SaveHandleFailed, storeVars
    <3>2. wk' \in [Workers -> WorkerType]
      BY <1>0, <2>10, <2>0, IdleTypes DEF SaveHandleFailed, WorkerType, WorkerPcs
    <3> QED
      BY <1>0, <2>1, <2>10, <3>1, <3>2 DEF SaveHandleFailed, IdleWorker, WorkerType
  <2>11. CASE Complete(w)
    <3>1. StoreTypeOK' /\ processingCounter' = processingCounter
      BY <1>0, <2>11, SameStoreType DEF Complete, storeVars
    <3>2. wk' \in [Workers -> WorkerType]
      BY <1>0, <2>11, <2>0, IdleTypes DEF Complete, WorkerType, WorkerPcs
    <3> QED
      BY <1>0, <2>1, <2>11, <3>1, <3>2 DEF Complete, IdleWorker, WorkerType
  <2>12. CASE TimeOut(w)
    <3>1. StoreTypeOK' /\ processingCounter' = processingCounter
      BY <1>0, <2>12, SameStoreType DEF TimeOut, storeVars
    <3> DEFINE cancelled == IF k \in queryDef THEN AfterCancel(Home[w], cancelHandler[k]) ELSE wk
    <3>2. /\ cancelled \in [Workers -> WorkerType]
          /\ \A v \in Workers : cancelled[v].pc = wk[v].pc /\ cancelled[v].id = wk[v].id
      BY <1>0, AfterCancelType, ActorsAssumption
    <3>3. wk' = [cancelled EXCEPT ![w].pc = "finish"] /\ wk[w].pc = "run"
      BY <2>12 DEF TimeOut
    <3> HIDE DEF cancelled
    <3>4. wk' \in [Workers -> WorkerType]
      BY <3>2, <3>3 DEF WorkerType, WorkerPcs
    <3>5. \A v \in Workers :
            wk'[v].pc # "idle" => wk[v].pc # "idle" /\ wk'[v].id = wk[v].id
      BY <3>2, <3>3 DEF WorkerType
    <3> QED
      BY <1>0, <2>1, <2>12, <3>1, <3>4, <3>5 DEF TimeOut
  <2>13. CASE SetResult(w)
    <3>1. processingCounter' = processingCounter /\ wk[w].id \in Ids
      BY <2>2, <2>13 DEF SetResult
    <3>2. StoreTypeOK'
      BY <1>0, <2>13, <2>0, <3>1, LockOperationsType DEF SetResult, WorkerType
    <3>3. wk' \in [Workers -> WorkerType]
      BY <1>0, <2>13, <2>0, IdleTypes DEF SetResult, WorkerType, WorkerPcs
    <3>4. rec' \in [Procs -> ReconcilerType]
      BY <2>13, ReconcileType, ActorsAssumption DEF SetResult, TypeInv
    <3> QED
      BY <1>0, <2>1, <2>13, <3>1, <3>2, <3>3, <3>4 DEF SetResult, IdleWorker
  <2>14. CASE FreeLock(w)
    <3>1. processingCounter' = processingCounter /\ wk[w].id \in Ids
      BY <2>2, <2>14 DEF FreeLock
    <3>2. StoreTypeOK'
      BY <1>0, <2>14, <2>0, <3>1, LockOperationsType DEF FreeLock, WorkerType
    <3>3. wk' \in [Workers -> WorkerType]
      BY <1>0, <2>14, <2>0, IdleTypes DEF FreeLock, WorkerType, WorkerPcs
    <3> QED
      BY <1>0, <2>1, <2>14, <3>1, <3>2, <3>3 DEF FreeLock, IdleWorker, WorkerType
  <2> QED
    BY <1>5, <2>3, <2>4, <2>5, <2>6, <2>7, <2>8, <2>9, <2>10, <2>11, <2>12, <2>13, <2>14
    DEF WorkerProgress
<1>6. ASSUME NEW w \in Workers, HeartBeat(w) PROVE Goal
  <2>1. StoreTypeOK'
    BY <1>0, <1>6, EntryOperationsType DEF HeartBeat, WorkerType
  <2>2. wk' \in [Workers -> WorkerType]
    BY <1>0, <1>6, ZenonT(30) DEF HeartBeat, WorkerType
  <2> QED
    BY <1>0, <1>6, <2>1, <2>2 DEF HeartBeat, IdsAreOwn, WorkerType
<1>7. ASSUME NEW k \in Keys, DeadlinePasses(k) \/ HeartBeatAges(k) PROVE Goal
  <2>1. StoreTypeOK'
    BY <1>0, <1>7 DEF DeadlinePasses, HeartBeatAges, StoreTypeOK
  <2> QED
    BY <1>0, <1>7, <2>1 DEF DeadlinePasses, HeartBeatAges, IdsAreOwn
<1>8. ASSUME NEW p \in Procs, Crash(p) PROVE Goal
  <2>1. StoreTypeOK' /\ processingCounter' = processingCounter
    BY <1>0, <1>8, SameStoreType DEF Crash, storeVars
  <2>2. wk' \in [Workers -> WorkerType] /\ rec' \in [Procs -> ReconcilerType]
    BY <1>0, <1>8, IdleTypes DEF Crash
  <2>3. IdsAreOwn'
    BY <1>0, <1>8, <2>1, <2>2 DEF Crash, IdsAreOwn, IdleWorker
  <2> QED
    BY <1>0, <1>8, <2>1, <2>2, <2>3 DEF Crash
<1>9. CASE UNCHANGED vars
  <2>1. StoreTypeOK' /\ UNCHANGED <<processingCounter, wk, rec, inbox, handleCounter>>
    BY <1>0, <1>9, SameStoreType DEF vars, storeVars
  <2> QED
    BY <1>0, <2>1 DEF IdsAreOwn
<1> QED
  BY <1>1, <1>2, <1>3, <1>4, <1>5, <1>6, <1>7, <1>8, <1>9 DEF Next

\* Type correctness: every reachable state is well typed, whatever the number
\* of processes, workers, queries and bounds, and for both drivers.
THEOREM TypeCorrect == Spec => []TypeOK
<1>1. TypeInv => TypeOK
  BY DEF TypeInv
<1> QED
  BY <1>1, InitTypeInv, NextTypeInv, PTL DEF Spec

-----------------------------------------------------------------------------
(***************************************************************************)
(* The safety invariants of QueryQueue hold for every value of its         *)
(* constants and for both drivers.                                         *)
(***************************************************************************)
\* A worker that skips its query and still holds the lock knows whether the key
\* is active: freeing the lock without deactivating the key is right then.
SkippingPcs == {"reread", "free"}
SkippedIsInactive ==
    \A w \in Workers :
      wk[w].pc \in SkippingPcs /\ lock[wk[w].key] = wk[w].id /\ ~wk[w].activated
        => active[wk[w].key] = 0

\* The invariants, made inductive by one another: that an update of a
\* definition never brings a removed one back (EntryWhole) rests on a lock's
\* holder having its query queued (OwnerHasEntry), which in turn rests on ids
\* never being shared (IdsAreOwn); that freeing a lock leaves no activity behind
\* (ActiveBelongsToOwner) rests on SkippedIsInactive.
QueueInv ==
    /\ TypeInv
    /\ EntryWhole
    /\ OwnerHasEntry
    /\ ActiveBelongsToOwner
    /\ LockIsReclaimable
    /\ SkippedIsInactive

\* The part of the invariant that is not about types.
Safe == /\ EntryWhole
        /\ OwnerHasEntry
        /\ ActiveBelongsToOwner
        /\ LockIsReclaimable
        /\ SkippedIsInactive

\* This step does not make w an owner, nor a worker that skips its query.
Follows(w) ==
    /\ wk'[w].pc \in OwnerPcs =>
         wk[w].pc \in OwnerPcs /\ wk'[w].key = wk[w].key /\ wk'[w].id = wk[w].id
    /\ wk'[w].pc \in SkippingPcs =>
         /\ wk[w].pc \in SkippingPcs /\ wk'[w].key = wk[w].key /\ wk'[w].id = wk[w].id
         /\ wk'[w].activated = wk[w].activated

\* A step that leaves this part of the store alone and makes no new owner.
LEMMA QuietStep ==
  ASSUME QueueInv, UNCHANGED <<queryDef, toProcess, recent, active, lock, heartBeat>>,
         \A w \in Workers : Follows(w)
  PROVE  Safe'
BY DEF QueueInv, Safe, EntryWhole, OwnerHasEntry, ActiveBelongsToOwner, LockIsReclaimable,
       SkippedIsInactive, Follows, Owns

\* An owner's id is a lock value and no "free" lock.
LEMMA OwnerIds ==
  ASSUME TypeInv
  PROVE  /\ \A w \in Workers : wk[w].pc # "idle" => wk[w].id \in Ids /\ wk[w].id # 0
         /\ \A v, w \in Workers :
              v # w /\ wk[v].pc # "idle" /\ wk[w].pc # "idle" => wk[v].id # wk[w].id
BY BoundsAssumption DEF TypeInv, IdsAreOwn, Ids

\* Removing an entry, by whomever: no owner of the key is left.
LEMMA DeleteEntryStep ==
  ASSUME QueueInv, NEW k \in Keys, DeleteEntry(k),
         \A w \in Workers : Follows(w)
  PROVE  Safe'
<1>1. /\ active' = [active EXCEPT ![k] = 0] /\ lock' = [lock EXCEPT ![k] = 0]
      /\ heartBeat' = heartBeat \ {k}
      /\ queryDef' = queryDef \ {k} /\ toProcess' = toProcess \ {k} /\ recent' = recent \ {k}
  BY DEF DeleteEntry
<1>2. /\ lock \in [Keys -> Ids \cup {0}] /\ active \in [Keys -> Ids \cup {0}]
      /\ \A w \in Workers : wk[w].key \in Keys
  BY DEF QueueInv, TypeInv, TypeOK, StoreTypeOK
<1>3. EntryWhole'
  BY <1>1 DEF QueueInv, EntryWhole
<1>4. OwnerHasEntry'
  <2> SUFFICES ASSUME NEW w \in Workers, Owns(w)' PROVE wk'[w].key \in queryDef'
    BY DEF OwnerHasEntry
  <2>1. wk[w].pc \in OwnerPcs /\ wk'[w].key = wk[w].key /\ wk'[w].id = wk[w].id
    BY DEF Owns, Follows
  <2>2. wk[w].id # 0
    BY <2>1, OwnerIds DEF QueueInv, OwnerPcs
  <2>3. wk[w].key # k /\ lock[wk[w].key] = wk[w].id
    BY <1>1, <1>2, <2>1, <2>2 DEF Owns
  <2> QED
    BY <1>1, <2>1, <2>3 DEF QueueInv, OwnerHasEntry, Owns
<1>5. ActiveBelongsToOwner' /\ LockIsReclaimable'
  BY <1>1, <1>2 DEF QueueInv, ActiveBelongsToOwner, LockIsReclaimable
<1>6. SkippedIsInactive'
  BY <1>1, <1>2 DEF QueueInv, SkippedIsInactive, Follows
<1> QED
  BY <1>3, <1>4, <1>5, <1>6 DEF Safe

\* An accepted update rewrites a definition that is there.
LEMMA UpdateStep ==
  ASSUME QueueInv, NEW w \in Workers, NEW handle, wk[w].pc \in OwnerPcs,
         OptimisticQueryUpdate(wk[w].key, wk[w].id, handle),
         \A v \in Workers : Follows(v)
  PROVE  Safe'
<1>1. queryDef' = queryDef
  BY DEF OptimisticQueryUpdate, QueueInv, OwnerHasEntry, Owns
<1> QED
  BY <1>1, QuietStep DEF OptimisticQueryUpdate

\* A retrieval takes a free lock with a fresh id.
LEMMA RetrieveStep ==
  ASSUME QueueInv, NEW w \in Workers, Retrieve(w)
  PROVE  Safe'
<1> DEFINE k == wk[w].key
           id == wk[w].id
<1>1. /\ k \in Keys /\ wk \in [Workers -> WorkerType]
      /\ lock \in [Keys -> Ids \cup {0}] /\ active \in [Keys -> Ids \cup {0}]
      /\ id \in Ids /\ id # 0 /\ wk[w].pc = "begin" /\ lock[k] = 0
  BY OwnerIds DEF QueueInv, TypeInv, TypeOK, StoreTypeOK, WorkerType, Retrieve
<1>2. /\ lock' = [lock EXCEPT ![k] = id] /\ active' = ActiveAfter(k, id)
      /\ heartBeat' = heartBeat \cup {k}
      /\ UNCHANGED <<queryDef, toProcess, recent>>
  BY DEF Retrieve, RetrieveForProcessing, FirstHeartBeat
<1>3. EntryWhole'
  BY <1>2 DEF QueueInv, EntryWhole
<1>4. LockIsReclaimable'
  BY <1>1, <1>2 DEF QueueInv, LockIsReclaimable
<1>5. ActiveBelongsToOwner'
  <2>1. active[k] = 0
    BY <1>1 DEF QueueInv, ActiveBelongsToOwner
  <2>2. \A j \in Keys : active'[j] \in {0, IF j = k THEN id ELSE active[j]}
    BY <1>1, <1>2, <2>1 DEF ActiveAfter, RedisActivate, LocalActivate
  <2> QED
    BY <1>1, <1>2, <2>2 DEF QueueInv, ActiveBelongsToOwner
<1>6. /\ \A v \in Workers : v # w => wk'[v] = wk[v]
      /\ wk'[w].key = k /\ wk'[w].id = id
      /\ wk'[w].pc \in OwnerPcs => k \in queryDef
  <2>1. wk'[w].pc = IF ~(Inserted(k, id) /\ ActiveAfter(k, id)[k] # 0) THEN "free"
                    ELSE IF k \in queryDef THEN "mark" ELSE "reread"
    BY <1>1 DEF Retrieve, WorkerType
  <2>2. /\ \A v \in Workers : v # w => wk'[v] = wk[v]
        /\ wk'[w].key = k /\ wk'[w].id = id
    BY <1>1 DEF Retrieve, WorkerType
  <2> QED
    BY <2>1, <2>2 DEF OwnerPcs
<1>7. OwnerHasEntry'
  <2> SUFFICES ASSUME NEW v \in Workers, Owns(v)' PROVE wk'[v].key \in queryDef'
    BY DEF OwnerHasEntry
  <2>1. CASE v = w
    BY <1>2, <1>6, <2>1 DEF Owns
  <2>2. CASE v # w
    <3>1. wk'[v] = wk[v] /\ wk[v].pc \in OwnerPcs /\ wk[v].id # id
      BY <1>1, <1>6, <2>2, OwnerIds DEF QueueInv, OwnerPcs, Owns
    <3>2. wk[v].key # k /\ lock[wk[v].key] = wk[v].id
      BY <1>1, <1>2, <3>1 DEF Owns, WorkerType
    <3> QED
      BY <1>2, <3>1, <3>2 DEF QueueInv, OwnerHasEntry, Owns
  <2> QED
    BY <2>1, <2>2
<1>8. SkippedIsInactive'
  <2> SUFFICES ASSUME NEW v \in Workers, wk'[v].pc \in SkippingPcs,
                      lock'[wk'[v].key] = wk'[v].id, ~wk'[v].activated
               PROVE  active'[wk'[v].key] = 0
    BY DEF SkippedIsInactive
  <2>1. CASE v = w
    <3>1. wk'[w].activated = (ActiveAfter(k, id)[k] # 0)
      BY <1>1, ZenonT(30) DEF Retrieve, WorkerType
    <3> QED
      BY <1>2, <1>6, <2>1, <3>1
  <2>2. CASE v # w
    <3>1. wk'[v] = wk[v] /\ wk[v].id # id
      BY <1>1, <1>6, <2>2, OwnerIds DEF QueueInv, SkippingPcs
    <3>2. wk[v].key \in Keys /\ wk[v].key # k /\ lock[wk[v].key] = wk[v].id
      BY <1>1, <1>2, <3>1 DEF WorkerType
    <3>3. active[wk[v].key] = 0
      BY <3>1, <3>2 DEF QueueInv, SkippedIsInactive
    <3> QED
      BY <1>1, <1>2, <3>1, <3>2, <3>3 DEF ActiveAfter, RedisActivate, LocalActivate
  <2> QED
    BY <2>1, <2>2
<1> QED
  BY <1>3, <1>4, <1>5, <1>7, <1>8 DEF Safe

LEMMA InitQueueInv == Init => QueueInv
<1> SUFFICES ASSUME Init PROVE QueueInv
  OBVIOUS
<1>1. EntryWhole /\ ActiveBelongsToOwner /\ LockIsReclaimable
  BY DEF Init, StoreInit, EntryWhole, ActiveBelongsToOwner, LockIsReclaimable
<1>2. OwnerHasEntry /\ SkippedIsInactive
  BY DEF Init, OwnerHasEntry, Owns, OwnerPcs, SkippedIsInactive, SkippingPcs, IdleWorker
<1> QED
  BY <1>1, <1>2, InitTypeInv DEF QueueInv

LEMMA NextQueueInv == QueueInv /\ [Next]_vars => QueueInv'
<1> SUFFICES ASSUME QueueInv, [Next]_vars PROVE Safe'
  BY NextTypeInv DEF QueueInv, Safe
<1>0. /\ wk \in [Workers -> WorkerType]
      /\ IdleWorker.pc \notin OwnerPcs \cup SkippingPcs
      /\ \A w \in Workers : wk[w].key \in Keys
  BY DEF QueueInv, TypeInv, TypeOK, WorkerType, IdleWorker, OwnerPcs, SkippingPcs
<1>1. ASSUME NEW p \in Procs, NEW k \in Keys, Request(p, k) PROVE Safe'
  <2>1. EntryWhole'
    BY <1>1 DEF Request, AddToQueue, QueueInv, EntryWhole
  <2>2. OwnerHasEntry'
    BY <1>1 DEF Request, AddToQueue, QueueInv, OwnerHasEntry, Owns
  <2>3. ActiveBelongsToOwner' /\ LockIsReclaimable' /\ SkippedIsInactive'
    BY <1>1 DEF Request, AddToQueue, QueueInv, ActiveBelongsToOwner, LockIsReclaimable,
                SkippedIsInactive
  <2> QED
    BY <2>1, <2>2, <2>3 DEF Safe
<1>2. ASSUME NEW k \in Keys, TakeResult(k) PROVE Safe'
  BY <1>2, QuietStep DEF TakeResult, GetResult, Follows
<1>3. ASSUME NEW p \in Procs, ReconcileStep(p) PROVE Safe'
  <2>1. ASSUME NEW k \in Keys, RemoveAndCancel(p, k) PROVE Safe'
    <3>1. \A v \in Workers : Follows(v)
      BY <2>1, AfterCancelType DEF RemoveAndCancel, QueueInv, Follows, OwnerPcs, SkippingPcs
    <3> QED
      BY <2>1, <3>1, DeleteEntryStep DEF RemoveAndCancel, GetQueryAndRemove
  <2>2. CASE ReadToCancel(p) \/ ReadActive(p) \/ SendProcessMessages(p)
    BY <2>2, QuietStep DEF ReadToCancel, ReadActive, SendProcessMessages, storeVars, Follows
  <2> QED
    BY <1>3, <2>1, <2>2 DEF ReconcileStep
<1>4. ASSUME NEW w \in Workers, NEW k \in Keys, Start(w, k) PROVE Safe'
  <2>1. \A v \in Workers : Follows(v)
    BY <1>0, <1>4, IdleTypes DEF Start, OwnerPcs, WorkerType, Follows, SkippingPcs
  <2> QED
    BY <1>4, <2>1, QuietStep DEF Start
<1>5. ASSUME NEW w \in Workers, WorkerProgress(w) PROVE Safe'
  <2>1. CASE Retrieve(w)
    BY <2>1, RetrieveStep
  <2>2. CASE RetrieveNothing(w)
    <3>1. \A v \in Workers : Follows(v)
      BY <1>0, <2>2 DEF RetrieveNothing, Follows, OwnerPcs, SkippingPcs
    <3> QED
      BY <2>2, <3>1, QuietStep DEF RetrieveNothing, storeVars
  <2>3. CASE ReadDefinition(w)
    <3>1. \A v \in Workers : /\ wk'[v].key = wk[v].key /\ wk'[v].id = wk[v].id
                             /\ wk'[v].activated = wk[v].activated
      BY <1>0, <2>3 DEF ReadDefinition, WorkerType
    <3>2. \A v \in Workers :
            /\ wk'[v].pc \in OwnerPcs => wk[v].pc \in OwnerPcs \/ wk[v].key \in queryDef
            /\ wk'[v].pc \in SkippingPcs => wk[v].pc \in SkippingPcs
      BY <1>0, <2>3 DEF ReadDefinition, WorkerType, OwnerPcs, SkippingPcs
    <3>3. UNCHANGED <<queryDef, toProcess, recent, active, lock, heartBeat>>
      BY <2>3 DEF ReadDefinition, storeVars
    <3> QED
      BY <3>1, <3>2, <3>3
      DEF QueueInv, Safe, EntryWhole, OwnerHasEntry, ActiveBelongsToOwner,
          LockIsReclaimable, SkippedIsInactive, Owns
  <2>4. CASE MarkStarted(w)
    <3>1. wk[w].pc \in OwnerPcs /\ \A v \in Workers : Follows(v)
      BY <1>0, <2>4 DEF MarkStarted, WorkerType, OwnerPcs, Follows, SkippingPcs
    <3> QED
      BY <2>4, <3>1, UpdateStep DEF MarkStarted
  <2>5. CASE SaveHandle(w)
    <3>1. wk[w].pc \in OwnerPcs /\ \A v \in Workers : Follows(v)
      BY <1>0, <2>5 DEF SaveHandle, WorkerType, OwnerPcs, Follows, SkippingPcs
    <3> QED
      BY <2>5, <3>1, UpdateStep DEF SaveHandle
  <2>6. CASE MarkFailed(w)
    <3>1. \A v \in Workers : Follows(v)
      BY <1>0, <2>6 DEF MarkFailed, Follows, OwnerPcs, SkippingPcs
    <3> QED
      BY <2>6, <3>1, QuietStep DEF MarkFailed, storeVars
  <2>7. CASE RegisterHandle(w)
    <3>1. \A v \in Workers : Follows(v)
      BY <1>0, <2>7 DEF RegisterHandle, WorkerType, OwnerPcs, Follows, SkippingPcs
    <3> QED
      BY <2>7, <3>1, QuietStep DEF RegisterHandle, storeVars
  <2>8. CASE SaveHandleFailed(w) \/ Complete(w)
    <3>1. \A v \in Workers : Follows(v)
      BY <1>0, <2>8 DEF SaveHandleFailed, Complete, WorkerType, OwnerPcs, Follows, SkippingPcs
    <3> QED
      BY <2>8, <3>1, QuietStep DEF SaveHandleFailed, Complete, storeVars
  <2>9. CASE TimeOut(w)
    <3> DEFINE k == wk[w].key
               cancelled == IF k \in queryDef THEN AfterCancel(Home[w], cancelHandler[k])
                                              ELSE wk
    <3>1. /\ cancelled \in [Workers -> WorkerType]
          /\ \A v \in Workers : /\ cancelled[v].pc = wk[v].pc
                                /\ cancelled[v].activated = wk[v].activated
                                /\ cancelled[v].key = wk[v].key
                                /\ cancelled[v].id = wk[v].id
      BY <1>0, AfterCancelType, ActorsAssumption DEF QueueInv
    <3>2. wk' = [cancelled EXCEPT ![w].pc = "finish"] /\ wk[w].pc = "run"
      BY <2>9 DEF TimeOut
    <3> HIDE DEF cancelled
    <3>3. \A v \in Workers : Follows(v)
      BY <3>1, <3>2 DEF WorkerType, OwnerPcs, Follows, SkippingPcs
    <3> QED
      BY <2>9, <3>3, QuietStep DEF TimeOut, storeVars
  <2>10. CASE SetResult(w)
    <3>1. \A v \in Workers : Follows(v)
      BY <1>0, <2>10 DEF SetResult, Follows, OwnerPcs, SkippingPcs
    <3>2. CASE lock[wk[w].key] = wk[w].id
      BY <1>0, <2>10, <3>1, <3>2, DeleteEntryStep DEF SetResult, SetResultAndRemoveQuery
    <3>3. CASE lock[wk[w].key] # wk[w].id
      BY <2>10, <3>1, <3>3, QuietStep DEF SetResult, SetResultAndRemoveQuery
    <3> QED
      BY <3>2, <3>3
  <2>11. CASE FreeLock(w)
    <3> DEFINE k == wk[w].key
    <3>1. \A v \in Workers : Follows(v) /\ (v # w => wk'[v] = wk[v])
      BY <1>0, <2>11 DEF FreeLock, Follows, OwnerPcs, SkippingPcs
    <3>2. wk[w].id # 0 /\ lock \in [Keys -> Ids \cup {0}] /\ active \in [Keys -> Ids \cup {0}]
      BY <2>11, OwnerIds DEF FreeLock, QueueInv, TypeInv, TypeOK, StoreTypeOK
    <3>3. CASE lock[k] # wk[w].id
      <4>1. lock' = lock /\ active' = active
        BY <1>0, <2>11, <3>2, <3>3 DEF FreeLock, FreeProcessingLock
      <4> QED
        BY <2>11, <3>1, <4>1, QuietStep DEF FreeLock, FreeProcessingLock
    <3>4. CASE lock[k] = wk[w].id
      <4>1. /\ lock' = [lock EXCEPT ![k] = 0]
            /\ active' = [active EXCEPT ![k] = IF wk[w].activated THEN 0 ELSE @]
            /\ UNCHANGED <<queryDef, toProcess, recent, heartBeat>>
        BY <2>11, <3>4 DEF FreeLock, FreeProcessingLock
      <4>2. active'[k] = 0
        BY <1>0, <2>11, <3>2, <3>4, <4>1
        DEF FreeLock, QueueInv, SkippedIsInactive, SkippingPcs
      <4>3. EntryWhole' /\ LockIsReclaimable'
        BY <1>0, <3>2, <4>1 DEF QueueInv, EntryWhole, LockIsReclaimable
      <4>4. ActiveBelongsToOwner'
        BY <1>0, <3>2, <4>1, <4>2 DEF QueueInv, ActiveBelongsToOwner
      <4>5. \A v \in Workers : wk'[v].pc # "idle" => wk'[v] = wk[v] /\ wk[v].id # wk[w].id
        BY <1>0, <2>11, <3>1, OwnerIds DEF FreeLock, IdleWorker, QueueInv
      <4>6. OwnerHasEntry'
        BY <1>0, <3>2, <4>1, <4>5, OwnerIds DEF QueueInv, OwnerHasEntry, Owns, OwnerPcs
      <4>7. SkippedIsInactive'
        BY <1>0, <3>2, <4>1, <4>2, <4>5 DEF QueueInv, SkippedIsInactive, SkippingPcs
      <4> QED
        BY <4>3, <4>4, <4>6, <4>7 DEF Safe
    <3> QED
      BY <3>3, <3>4
  <2> QED
    BY <1>5, <2>1, <2>2, <2>3, <2>4, <2>5, <2>6, <2>7, <2>8, <2>9, <2>10, <2>11
    DEF WorkerProgress
<1>6. ASSUME NEW w \in Workers, HeartBeat(w) PROVE Safe'
  <2>1. \A v \in Workers : Follows(v)
    BY <1>0, <1>6 DEF HeartBeat, WorkerType, Follows, OwnerPcs, SkippingPcs
  <2>2. heartBeat \subseteq heartBeat'
    BY <1>6 DEF HeartBeat, UpdateHeartBeat
  <2> QED
    BY <1>6, <2>1, <2>2
    DEF HeartBeat, UpdateHeartBeat, QueueInv, Safe, EntryWhole, OwnerHasEntry,
        ActiveBelongsToOwner, LockIsReclaimable, SkippedIsInactive, Follows, Owns
<1>7. ASSUME NEW k \in Keys, DeadlinePasses(k) \/ HeartBeatAges(k) PROVE Safe'
  BY <1>7, QuietStep DEF DeadlinePasses, HeartBeatAges, Follows
<1>8. ASSUME NEW p \in Procs, Crash(p) PROVE Safe'
  <2>1. \A v \in Workers : Follows(v)
    BY <1>0, <1>8 DEF Crash, Follows, OwnerPcs, SkippingPcs
  <2> QED
    BY <1>8, <2>1, QuietStep DEF Crash, storeVars
<1>9. CASE UNCHANGED vars
  BY <1>9, QuietStep DEF vars, storeVars, Follows
<1> QED
  BY <1>1, <1>2, <1>3, <1>4, <1>5, <1>6, <1>7, <1>8, <1>9 DEF Next

\* The inductive invariant holds in every state: entries, locks, activities and
\* the workers that use them fit each other, whichever driver keeps them.
THEOREM QueueInvariant == Spec => []QueueInv
BY InitQueueInv, NextQueueInv, PTL DEF Spec

\* No reachable state holds a half-removed entry: addToQueue, the removals and
\* optimisticQueryUpdate leave definition, queue entry and deadline together.
THEOREM EntriesAreWhole == Spec => []EntryWhole
<1>1. QueueInv => EntryWhole
  BY DEF QueueInv
<1> QED
  BY <1>1, QueueInvariant, PTL

\* A worker that still holds its lock executes a query that is still queued:
\* whoever removes a query takes the lock of its execution with it.
THEOREM OwnersHaveEntries == Spec => []OwnerHasEntry
<1>1. QueueInv => OwnerHasEntry
  BY DEF QueueInv
<1> QED
  BY <1>1, QueueInvariant, PTL

\* An activity never outlives the lock it came with.
THEOREM ActivityIsOwned == Spec => []ActiveBelongsToOwner
<1>1. QueueInv => ActiveBelongsToOwner
  BY DEF QueueInv
<1> QED
  BY <1>1, QueueInvariant, PTL

\* Every lock can be reclaimed by the heartbeat that comes with it, also after
\* any number of crashes.
THEOREM LocksAreReclaimable == Spec => []LockIsReclaimable
<1>1. QueueInv => LockIsReclaimable
  BY DEF QueueInv
<1> QED
  BY <1>1, QueueInvariant, PTL

-----------------------------------------------------------------------------
(***************************************************************************)
(* QueryQueue implements FencedQueue.                                      *)
(***************************************************************************)

Spent == {i \in 1 .. processingCounter :
            \A w \in Workers : ~(wk[w].pc = "begin" /\ wk[w].id = i)}

\* A step that lets nobody begin or retrieve leaves the spent ids as they are.
LEMMA SameSpent ==
  ASSUME UNCHANGED processingCounter,
         \A w \in Workers : \/ wk'[w].pc # "begin" /\ wk[w].pc # "begin"
                            \/ wk'[w].pc = wk[w].pc /\ wk'[w].id = wk[w].id
  PROVE  Spent' = Spent
BY DEF Spent

\* A worker that leaves "begin" spends its id, and only that.
LEMMA IdIsSpent ==
  ASSUME QueueInv, UNCHANGED processingCounter, NEW w \in Workers,
         wk[w].pc = "begin", wk'[w].pc # "begin",
         \A v \in Workers : v # w => wk'[v] = wk[v]
  PROVE  /\ wk[w].id \in Ids /\ wk[w].id \notin Spent
         /\ Spent' = Spent \cup {wk[w].id}
<1>1. wk[w].id \in Ids /\ wk[w].id \in 1 .. processingCounter
  BY BoundsAssumption DEF QueueInv, TypeInv, TypeOK, StoreTypeOK, IdsAreOwn, Ids
<1>2. \A v \in Workers : v # w /\ wk[v].pc = "begin" => wk[v].id # wk[w].id
  BY DEF QueueInv, TypeInv, IdsAreOwn
<1> QED
  BY <1>1, <1>2 DEF Spent

LEMMA PromisedInit == Init => Promise!FencedInit
<1> SUFFICES ASSUME Init PROVE Promise!FencedInit
  OBVIOUS
<1>1. Spent = {}
  BY DEF Init, StoreInit, Spent
<1> QED
  BY <1>1 DEF Init, StoreInit, Spent, Promise!FencedInit

LEMMA PromisedStep == QueueInv /\ [Next]_vars => [Promise!FencedNext]_(Promise!fencedVars)
<1> SUFFICES ASSUME QueueInv, [Next]_vars
             PROVE  Promise!FencedNext \/ UNCHANGED Promise!fencedVars
  OBVIOUS
<1> DEFINE Goal == Promise!FencedNext \/ UNCHANGED Promise!fencedVars
<1>0. /\ wk \in [Workers -> WorkerType]
      /\ lock \in [Keys -> Ids \cup {0}]
      /\ \A w \in Workers : wk[w].key \in Keys
      /\ IdleWorker.pc = "idle"
  BY DEF QueueInv, TypeInv, TypeOK, StoreTypeOK, WorkerType, IdleWorker
<1>10. ASSUME Spent' = Spent, UNCHANGED <<queryDef, lock, results>> PROVE Goal
  BY <1>10 DEF Promise!fencedVars, Spent
<1>1. ASSUME NEW p \in Procs, NEW k \in Keys, Request(p, k) PROVE Goal
  <2>1. Spent' = Spent
    BY <1>1, SameSpent DEF Request
  <2>2. Promise!Enqueue(k)
    BY <1>1, <2>1 DEF Request, AddToQueue, Promise!Enqueue, Spent
  <2> QED
    BY <2>2 DEF Promise!FencedNext
<1>2. ASSUME NEW k \in Keys, TakeResult(k) PROVE Goal
  <2>1. Spent' = Spent
    BY <1>2, SameSpent DEF TakeResult
  <2>2. Promise!Take(k)
    BY <1>2, <2>1 DEF TakeResult, GetResult, Promise!Take, Spent
  <2> QED
    BY <2>2 DEF Promise!FencedNext
<1>3. ASSUME NEW p \in Procs, ReconcileStep(p) PROVE Goal
  <2>1. ASSUME NEW k \in Keys, RemoveAndCancel(p, k) PROVE Goal
    <3>1. Spent' = Spent
      BY <2>1, AfterCancelType, SameSpent DEF RemoveAndCancel, QueueInv
    <3>2. Promise!Drop(k)
      BY <2>1, <3>1 DEF RemoveAndCancel, GetQueryAndRemove, DeleteEntry, Promise!Drop, Spent
    <3> QED
      BY <3>2 DEF Promise!FencedNext
  <2>2. CASE ReadToCancel(p) \/ ReadActive(p) \/ SendProcessMessages(p)
    <3>1. Spent' = Spent
      BY <2>2, SameSpent DEF ReadToCancel, ReadActive, SendProcessMessages, storeVars
    <3> QED
      BY <1>10, <2>2, <3>1 DEF ReadToCancel, ReadActive, SendProcessMessages, storeVars
  <2> QED
    BY <1>3, <2>1, <2>2 DEF ReconcileStep
<1>4. ASSUME NEW w \in Workers, NEW k \in Keys, Start(w, k) PROVE Goal
  <2>1. /\ processingCounter \in Nat /\ processingCounter' = processingCounter + 1
        /\ wk'[w].pc = "begin" /\ wk'[w].id = processingCounter + 1 /\ wk[w].pc = "idle"
        /\ \A v \in Workers : v # w => wk'[v] = wk[v]
        /\ \A v \in Workers : wk[v].pc = "begin" => wk[v].id <= processingCounter
    BY <1>0, <1>4, BoundsAssumption
    DEF Start, GetNextProcessingId, QueueInv, TypeInv, TypeOK, StoreTypeOK, Ids, IdsAreOwn,
        IdleWorker
  <2>2. Spent' = Spent
    BY <2>1 DEF Spent
  <2> QED
    BY <1>10, <1>4, <2>2 DEF Start
<1>5. ASSUME NEW w \in Workers, WorkerProgress(w) PROVE Goal
  <2> DEFINE k == wk[w].key
  <2>1. CASE RetrieveNothing(w)
    <3>1. wk[w].id \in Ids /\ Spent' = Spent \cup {wk[w].id}
      BY <1>0, <2>1, IdIsSpent DEF RetrieveNothing, storeVars
    <3>2. Promise!GiveUp({wk[w].id})
      BY <2>1, <3>1 DEF RetrieveNothing, storeVars, Promise!GiveUp, Spent
    <3>3. {wk[w].id} \in SUBSET Ids
      BY <3>1
    <3>4. \E S \in SUBSET Ids : Promise!GiveUp(S)
      BY <3>2, <3>3 DEF Promise!GiveUp
    <3> QED
      BY <3>4, Zenon DEF Promise!FencedNext
  <2>2. CASE Retrieve(w)
    <3>1. wk'[w].pc # "begin" /\ \A v \in Workers : v # w => wk'[v] = wk[v]
      BY <1>0, <2>2 DEF Retrieve, WorkerType
    <3>2. wk[w].id \in Ids /\ wk[w].id \notin Spent /\ Spent' = Spent \cup {wk[w].id}
      BY <2>2, <3>1, IdIsSpent DEF Retrieve
    <3>3. Promise!Grant(k, wk[w].id)
      BY <2>2, <3>2 DEF Retrieve, RetrieveForProcessing, Promise!Grant, Spent
    <3>4. \E j \in Keys, id \in Ids : Promise!Grant(j, id)
      BY <1>0, <3>2, <3>3 DEF Promise!Grant
    <3> QED
      BY <3>4, Zenon DEF Promise!FencedNext
  <2>3. CASE \/ ReadDefinition(w) \/ MarkFailed(w) \/ RegisterHandle(w)
             \/ SaveHandleFailed(w) \/ Complete(w)
    <3>1. Spent' = Spent
      BY <1>0, <2>3, SameSpent
      DEF ReadDefinition, MarkFailed, RegisterHandle, SaveHandleFailed, Complete, storeVars,
          WorkerType
    <3> QED
      BY <1>10, <2>3, <3>1
      DEF ReadDefinition, MarkFailed, RegisterHandle, SaveHandleFailed, Complete, storeVars
  <2>4. CASE MarkStarted(w) \/ SaveHandle(w)
    <3>1. Spent' = Spent
      BY <1>0, <2>4, SameSpent DEF MarkStarted, SaveHandle, WorkerType
    <3>2. UNCHANGED <<queryDef, lock, results>>
      BY <2>4 DEF MarkStarted, SaveHandle, OptimisticQueryUpdate, QueueInv, OwnerHasEntry,
                  Owns, OwnerPcs
    <3> QED
      BY <1>10, <3>1, <3>2
  <2>5. CASE TimeOut(w)
    <3> DEFINE cancelled == IF k \in queryDef THEN AfterCancel(Home[w], cancelHandler[k])
                                              ELSE wk
    <3>1. /\ cancelled \in [Workers -> WorkerType]
          /\ \A v \in Workers : cancelled[v].pc = wk[v].pc /\ cancelled[v].id = wk[v].id
      BY <1>0, AfterCancelType, ActorsAssumption DEF QueueInv
    <3>2. wk' = [cancelled EXCEPT ![w].pc = "finish"] /\ wk[w].pc = "run"
      BY <2>5 DEF TimeOut
    <3> HIDE DEF cancelled
    <3>3. Spent' = Spent
      BY <2>5, <3>1, <3>2, SameSpent, ZenonT(30) DEF TimeOut, storeVars, WorkerType
    <3> QED
      BY <1>10, <2>5, <3>3 DEF TimeOut, storeVars
  <2>6. CASE SetResult(w)
    <3>1. Spent' = Spent
      BY <1>0, <2>6, SameSpent DEF SetResult
    <3>2. CASE lock[k] = wk[w].id
      <4>1. lock[k] # 0 /\ k \in queryDef
        BY <2>6, <3>2, OwnerIds DEF SetResult, QueueInv, OwnerHasEntry, Owns, OwnerPcs
      <4>2. Promise!Finish(k, lock[k])
        BY <2>6, <3>1, <3>2, <4>1
        DEF SetResult, SetResultAndRemoveQuery, DeleteEntry, Promise!Finish, Spent
      <4>3. k \in Keys /\ lock[k] \in Ids
        BY <1>0, <4>1
      <4> QED
        BY <4>2, <4>3 DEF Promise!FencedNext
    <3>3. CASE lock[k] # wk[w].id
      BY <1>10, <2>6, <3>1, <3>3 DEF SetResult, SetResultAndRemoveQuery
    <3> QED
      BY <3>2, <3>3
  <2>7. CASE FreeLock(w)
    <3>1. Spent' = Spent
      BY <1>0, <2>7, SameSpent DEF FreeLock
    <3>2. CASE lock[k] = wk[w].id
      <4>1. Promise!Release(k)
        BY <2>7, <3>1, <3>2 DEF FreeLock, FreeProcessingLock, Promise!Release, Spent
      <4> QED
        BY <1>0, <4>1 DEF Promise!FencedNext
    <3>3. CASE lock[k] # wk[w].id
      <4>1. lock' = lock
        BY <1>0, <2>7, <3>3 DEF FreeLock, FreeProcessingLock
      <4> QED
        BY <1>10, <2>7, <3>1, <4>1 DEF FreeLock, FreeProcessingLock
    <3> QED
      BY <3>2, <3>3
  <2> QED
    BY <1>5, <2>1, <2>2, <2>3, <2>4, <2>5, <2>6, <2>7 DEF WorkerProgress
<1>6. ASSUME NEW w \in Workers, HeartBeat(w) PROVE Goal
  <2>1. Spent' = Spent
    BY <1>0, <1>6, SameSpent DEF HeartBeat, WorkerType
  <2> QED
    BY <1>10, <1>6, <2>1 DEF HeartBeat, UpdateHeartBeat
<1>7. ASSUME NEW k \in Keys, DeadlinePasses(k) \/ HeartBeatAges(k) PROVE Goal
  <2>1. Spent' = Spent
    BY <1>7, SameSpent DEF DeadlinePasses, HeartBeatAges
  <2> QED
    BY <1>10, <1>7, <2>1 DEF DeadlinePasses, HeartBeatAges
<1>8. ASSUME NEW p \in Procs, Crash(p) PROVE Goal
  <2> DEFINE lost == {i \in Ids : \E w \in Workers :
                        Home[w] = p /\ wk[w].pc = "begin" /\ wk[w].id = i}
  <2>1. \A w \in Workers : wk'[w].pc = "begin" <=> Home[w] # p /\ wk[w].pc = "begin"
    BY <1>0, <1>8 DEF Crash
  <2>2. \A w \in Workers : Home[w] # p => wk'[w] = wk[w]
    BY <1>8 DEF Crash
  <2>3. /\ \A w \in Workers : wk[w].pc = "begin" =>
              wk[w].id \in Ids /\ wk[w].id \in 1 .. processingCounter
        /\ \A v, w \in Workers : v # w /\ wk[v].pc = "begin" /\ wk[w].pc = "begin"
              => wk[v].id # wk[w].id
    BY BoundsAssumption DEF QueueInv, TypeInv, TypeOK, StoreTypeOK, IdsAreOwn, Ids
  <2>4. Spent' = Spent \cup lost
    BY <1>8, <2>1, <2>2, <2>3 DEF Spent, Crash, storeVars
  <2>5. Promise!GiveUp(lost)
    BY <1>8, <2>4 DEF Crash, storeVars, Promise!GiveUp, Spent
  <2>6. \E S \in SUBSET Ids : Promise!GiveUp(S)
    <3>1. lost \in SUBSET Ids
      OBVIOUS
    <3> HIDE DEF lost
    <3> QED
      BY <2>5, <3>1 DEF Promise!GiveUp
  <2> QED
    BY <2>6, Zenon DEF Promise!FencedNext
<1>9. CASE UNCHANGED vars
  <2>1. Spent' = Spent
    BY <1>9, SameSpent DEF vars, storeVars
  <2> QED
    BY <1>10, <1>9, <2>1 DEF vars, storeVars
<1> QED
  BY <1>1, <1>2, <1>3, <1>4, <1>5, <1>6, <1>7, <1>8, <1>9 DEF Next

\* The queue keeps the promises of FencedQueue with either driver, whatever
\* crashes, stalls, time-outs and expiries happen: only the holder of a query's
\* lock sets its result, once, while the query is queued, and no processing id
\* ever gets a lock twice.
THEOREM QueueKeepsPromise == Spec => KeepsPromise
<1>1. Init /\ [][Next]_vars /\ []QueueInv => Promise!FencedInit /\ [][Promise!FencedNext]_(Promise!fencedVars)
  BY PromisedInit, PromisedStep, PTL
<1> QED
  BY <1>1, QueueInvariant, PTL DEF Spec, KeepsPromise, Promise!FencedSpec

-----------------------------------------------------------------------------
(***************************************************************************)
(* How many queries are active, for every value of the constants: ACTIVE   *)
(* stays within the concurrency with either driver, and the local driver   *)
(* keeps what is executed within it as well.                               *)
(***************************************************************************)
(***************************************************************************)
(* Counting.                                                               *)
(***************************************************************************)

\* ZREMRANGEBYRANK leaves no more than n members, provided that no two of them
\* have the same score: their ranks are different numbers below n.
LEMMA TrimmedCount ==
  ASSUME NEW score \in [Keys -> Ids \cup {0}], NEW n \in Nat,
         \A j, k \in Keys : score[j] # 0 /\ score[j] = score[k] => j = k
  PROVE  Cardinality(LowestScores(n, score)) <= n
<1> DEFINE members == {k \in Keys : score[k] # 0}
           below(k) == {j \in members : score[j] < score[k]}
           kept == LowestScores(n, score)
           rank == [k \in kept |-> Cardinality(below(k))]
<1>1. IsFiniteSet(members)
  BY KeysAssumption, FS_Subset
<1>2. ASSUME NEW k \in Keys PROVE IsFiniteSet(below(k)) /\ Cardinality(below(k)) \in Nat
  BY <1>1, FS_Subset, FS_CardinalityType
<1>3. kept \subseteq members /\ \A k \in kept : Cardinality(below(k)) < n
  BY DEF LowestScores
<1>4. rank \in [kept -> 0 .. n - 1]
  <2> SUFFICES ASSUME NEW k \in kept PROVE Cardinality(below(k)) \in 0 .. n - 1
    OBVIOUS
  <2>1. k \in Keys /\ Cardinality(below(k)) < n
    BY <1>3
  <2>2. Cardinality(below(k)) \in Nat
    BY <1>2, <2>1
  <2> HIDE DEF below
  <2> QED
    BY <2>1, <2>2
<1>5. ASSUME NEW j \in kept, NEW k \in kept, score[j] < score[k]
      PROVE  Cardinality(below(j)) < Cardinality(below(k))
  <2>1. j \in members /\ k \in members
    BY <1>3
  <2>2. score[j] \in Nat /\ score[k] \in Nat /\ \A i \in members : score[i] \in Nat
    BY <2>1, BoundsAssumption DEF Ids
  <2>3. below(j) \in SUBSET below(k)
    BY <1>5, <2>2
  <2>4. j \in below(k) /\ j \notin below(j)
    BY <1>5, <2>1, <2>2
  <2>5. /\ IsFiniteSet(below(k)) /\ Cardinality(below(k)) \in Nat
        /\ Cardinality(below(j)) \in Nat
    BY <1>2, <2>1
  <2> HIDE DEF below
  <2>6. Cardinality(below(j)) <= Cardinality(below(k)) /\ Cardinality(below(k)) # Cardinality(below(j))
    BY <2>3, <2>4, <2>5, FS_Subset
  <2> QED
    BY <2>5, <2>6
<1>6. \A j, k \in kept : rank[j] = rank[k] => j = k
  <2> SUFFICES ASSUME NEW j \in kept, NEW k \in kept, rank[j] = rank[k], j # k
               PROVE  FALSE
    OBVIOUS
  <2>1. j \in members /\ k \in members
    BY <1>3
  <2>2. score[j] # score[k] /\ score[j] \in Nat /\ score[k] \in Nat
    BY <2>1, BoundsAssumption DEF Ids
  <2>3. score[j] < score[k] \/ score[k] < score[j]
    BY <2>2
  <2>4. Cardinality(below(j)) = Cardinality(below(k))
    OBVIOUS
  <2>5. Cardinality(below(j)) \in Nat
    BY <1>2, <2>1
  <2> HIDE DEF below, kept
  <2>6. CASE score[j] < score[k]
    BY <1>5, <2>4, <2>5, <2>6
  <2>7. CASE score[k] < score[j]
    BY <1>5, <2>4, <2>5, <2>7
  <2> QED
    BY <2>3, <2>6, <2>7
<1>7. rank \in Injection(kept, 0 .. n - 1)
  BY <1>4, <1>6 DEF Injection, IsInjective
<1>8. IsFiniteSet(0 .. n - 1) /\ Cardinality(0 .. n - 1) = n
  BY FS_Interval
<1> HIDE DEF rank, kept
<1>9. Cardinality(kept) <= n
  BY <1>7, <1>8, FS_Injection
<1> QED
  BY <1>9 DEF kept

\* A part of a set of keys has no more elements.
LEMMA FewerKeys ==
  ASSUME NEW S \in SUBSET Keys, NEW T \in SUBSET S, NEW n \in Nat, Cardinality(S) <= n
  PROVE  Cardinality(T) <= n
<1>1. IsFiniteSet(S)
  BY KeysAssumption, FS_Subset
<1>2. IsFiniteSet(T) /\ Cardinality(T) <= Cardinality(S)
  BY <1>1, FS_Subset
<1>3. Cardinality(S) \in Nat /\ Cardinality(T) \in Nat
  BY <1>1, <1>2, FS_CardinalityType
<1> QED
  BY <1>2, <1>3

-----------------------------------------------------------------------------
(***************************************************************************)
(* Scores are distinct: the lock of a key, from which its score comes, is  *)
(* an id nobody else has or will take.                                     *)
(***************************************************************************)

LocksAreDistinct ==
    /\ \A j, k \in Keys : lock[j] # 0 /\ lock[j] = lock[k] => j = k
    /\ \A k \in Keys : lock[k] <= processingCounter
    /\ \A k \in Keys, w \in Workers : wk[w].pc = "begin" => lock[k] # wk[w].id

\* Past its retrieval, and not skipping the query.
HoldingPcs == OwnerPcs \cup {"reread"}

\* With the local driver, whoever has been let through is still active as long
\* as the lock is its own: nothing takes a place away from it.
HoldersAreActive ==
    Driver = "local" =>
      \A w \in Workers :
        wk[w].pc \in HoldingPcs /\ lock[wk[w].key] = wk[w].id => active[wk[w].key] # 0

ConcurrencyInv ==
    /\ QueueInv
    /\ LocksAreDistinct
    /\ ActiveWithinConcurrency
    /\ HoldersAreActive

\* What every step but a retrieval does: locks and places are only given back,
\* a place together with its lock, and ids are new.
GivesBack ==
    /\ \A k \in Keys : lock'[k] \in {0, lock[k]}
    /\ \A k \in Keys : active'[k] = active[k] \/ (active'[k] = 0 /\ lock'[k] = 0)
    /\ processingCounter' \in Nat /\ processingCounter <= processingCounter'
    /\ \A w \in Workers : wk'[w].pc = "begin" =>
         \/ wk[w].pc = "begin" /\ wk'[w].id = wk[w].id
         \/ processingCounter < wk'[w].id
    /\ \A w \in Workers : wk'[w].pc \in HoldingPcs =>
         wk[w].pc \in HoldingPcs /\ wk'[w].key = wk[w].key /\ wk'[w].id = wk[w].id

\* The worker's part of GivesBack, for steps that hand out no id.
StaysOrLeaves(w) ==
    /\ wk'[w].pc = "begin" => wk[w].pc = "begin" /\ wk'[w].id = wk[w].id
    /\ wk'[w].pc \in HoldingPcs =>
         wk[w].pc \in HoldingPcs /\ wk'[w].key = wk[w].key /\ wk'[w].id = wk[w].id

LEMMA QuietGivesBack ==
  ASSUME QueueInv, UNCHANGED <<active, lock, processingCounter>>,
         \A w \in Workers : StaysOrLeaves(w)
  PROVE  GivesBack
BY BoundsAssumption DEF GivesBack, StaysOrLeaves, QueueInv, TypeInv, TypeOK, StoreTypeOK, Ids

\* A removal gives back the place and the lock of its key.
LEMMA RemovalGivesBack ==
  ASSUME QueueInv, NEW k \in Keys, DeleteEntry(k), UNCHANGED processingCounter,
         \A w \in Workers : StaysOrLeaves(w)
  PROVE  GivesBack
BY BoundsAssumption
DEF GivesBack, StaysOrLeaves, DeleteEntry, QueueInv, TypeInv, TypeOK, StoreTypeOK, Ids

LEMMA OtherStepsGiveBack ==
  ASSUME QueueInv, [Next]_vars, \A w \in Workers : ~Retrieve(w)
  PROVE  GivesBack
<1>0. /\ wk \in [Workers -> WorkerType]
      /\ IdleWorker.pc = "idle"
      /\ \A w \in Workers : wk[w].key \in Keys
      /\ lock \in [Keys -> Ids \cup {0}] /\ active \in [Keys -> Ids \cup {0}]
      /\ processingCounter \in Nat
  BY BoundsAssumption
  DEF QueueInv, TypeInv, TypeOK, StoreTypeOK, WorkerType, IdleWorker, Ids
<1> USE DEF HoldingPcs, OwnerPcs
<1>1. ASSUME NEW p \in Procs, NEW k \in Keys, Request(p, k) PROVE GivesBack
  BY <1>1, QuietGivesBack DEF Request, AddToQueue, StaysOrLeaves
<1>2. ASSUME NEW k \in Keys, TakeResult(k) PROVE GivesBack
  BY <1>2, QuietGivesBack DEF TakeResult, GetResult, StaysOrLeaves
<1>3. ASSUME NEW p \in Procs, ReconcileStep(p) PROVE GivesBack
  <2>1. ASSUME NEW k \in Keys, RemoveAndCancel(p, k) PROVE GivesBack
    <3>1. \A v \in Workers : StaysOrLeaves(v)
      BY <2>1, AfterCancelType DEF RemoveAndCancel, QueueInv, StaysOrLeaves
    <3> QED
      BY <2>1, <3>1, RemovalGivesBack DEF RemoveAndCancel, GetQueryAndRemove
  <2>2. CASE ReadToCancel(p) \/ ReadActive(p) \/ SendProcessMessages(p)
    BY <2>2, QuietGivesBack
    DEF ReadToCancel, ReadActive, SendProcessMessages, storeVars, StaysOrLeaves
  <2> QED
    BY <1>3, <2>1, <2>2 DEF ReconcileStep
<1>4. ASSUME NEW w \in Workers, NEW k \in Keys, Start(w, k) PROVE GivesBack
  <2>1. /\ wk'[w].pc = "begin" /\ wk'[w].id = processingCounter + 1
        /\ \A v \in Workers : v # w => wk'[v] = wk[v]
    BY <1>0, <1>4 DEF Start, WorkerType, IdleWorker
  <2>2. processingCounter' = processingCounter + 1 /\ UNCHANGED <<active, lock>>
    BY <1>4 DEF Start, GetNextProcessingId
  <2> QED
    BY <1>0, <2>1, <2>2 DEF GivesBack
<1>5. ASSUME NEW w \in Workers, WorkerProgress(w) PROVE GivesBack
  <2>1. CASE \/ RetrieveNothing(w) \/ ReadDefinition(w) \/ MarkFailed(w)
             \/ RegisterHandle(w) \/ SaveHandleFailed(w) \/ Complete(w)
    <3>1. \A v \in Workers : StaysOrLeaves(v)
      BY <1>0, <2>1
      DEF RetrieveNothing, ReadDefinition, MarkFailed, RegisterHandle, SaveHandleFailed,
          Complete, StaysOrLeaves, WorkerType
    <3> QED
      BY <2>1, <3>1, QuietGivesBack
      DEF RetrieveNothing, ReadDefinition, MarkFailed, RegisterHandle, SaveHandleFailed,
          Complete, storeVars
  <2>2. CASE MarkStarted(w) \/ SaveHandle(w)
    <3>1. \A v \in Workers : StaysOrLeaves(v)
      BY <1>0, <2>2 DEF MarkStarted, SaveHandle, StaysOrLeaves, WorkerType
    <3> QED
      BY <2>2, <3>1, QuietGivesBack DEF MarkStarted, SaveHandle, OptimisticQueryUpdate
  <2>3. CASE TimeOut(w)
    <3> DEFINE k == wk[w].key
               cancelled == IF k \in queryDef THEN AfterCancel(Home[w], cancelHandler[k])
                                              ELSE wk
    <3>1. /\ cancelled \in [Workers -> WorkerType]
          /\ \A v \in Workers : /\ cancelled[v].pc = wk[v].pc
                                /\ cancelled[v].key = wk[v].key
                                /\ cancelled[v].id = wk[v].id
      BY <1>0, AfterCancelType, ActorsAssumption DEF QueueInv
    <3>2. wk' = [cancelled EXCEPT ![w].pc = "finish"] /\ wk[w].pc = "run"
      BY <2>3 DEF TimeOut
    <3> HIDE DEF cancelled
    <3>3. \A v \in Workers : StaysOrLeaves(v)
      BY <3>1, <3>2 DEF WorkerType, StaysOrLeaves
    <3> QED
      BY <2>3, <3>3, QuietGivesBack DEF TimeOut, storeVars
  <2>4. CASE SetResult(w)
    <3>1. \A v \in Workers : StaysOrLeaves(v)
      BY <1>0, <2>4 DEF SetResult, StaysOrLeaves
    <3>2. CASE lock[wk[w].key] = wk[w].id
      BY <1>0, <2>4, <3>1, <3>2, RemovalGivesBack DEF SetResult, SetResultAndRemoveQuery
    <3>3. CASE lock[wk[w].key] # wk[w].id
      BY <2>4, <3>1, <3>3, QuietGivesBack DEF SetResult, SetResultAndRemoveQuery
    <3> QED
      BY <3>2, <3>3
  <2>5. CASE FreeLock(w)
    <3>1. \A v \in Workers : StaysOrLeaves(v)
      BY <1>0, <2>5 DEF FreeLock, StaysOrLeaves
    <3>2. /\ lock' = [lock EXCEPT ![wk[w].key] = IF @ = wk[w].id THEN 0 ELSE @]
          /\ active' = [active EXCEPT ![wk[w].key] =
                          IF lock[wk[w].key] = wk[w].id /\ wk[w].activated THEN 0 ELSE @]
          /\ UNCHANGED processingCounter
      BY <2>5 DEF FreeLock, FreeProcessingLock
    <3> QED
      BY <1>0, <3>1, <3>2 DEF GivesBack, StaysOrLeaves
  <2> QED
    BY <1>5, <2>1, <2>2, <2>3, <2>4, <2>5 DEF WorkerProgress
<1>6. ASSUME NEW w \in Workers, HeartBeat(w) PROVE GivesBack
  <2>1. \A v \in Workers : StaysOrLeaves(v)
    BY <1>0, <1>6 DEF HeartBeat, WorkerType, StaysOrLeaves
  <2> QED
    BY <1>6, <2>1, QuietGivesBack DEF HeartBeat, UpdateHeartBeat
<1>7. ASSUME NEW k \in Keys, DeadlinePasses(k) \/ HeartBeatAges(k) PROVE GivesBack
  BY <1>7, QuietGivesBack DEF DeadlinePasses, HeartBeatAges, StaysOrLeaves
<1>8. ASSUME NEW p \in Procs, Crash(p) PROVE GivesBack
  <2>1. \A v \in Workers : StaysOrLeaves(v)
    BY <1>0, <1>8 DEF Crash, StaysOrLeaves
  <2> QED
    BY <1>8, <2>1, QuietGivesBack DEF Crash, storeVars
<1>9. CASE UNCHANGED vars
  BY <1>9, QuietGivesBack DEF vars, storeVars, StaysOrLeaves
<1> QED
  BY <1>1, <1>2, <1>3, <1>4, <1>5, <1>6, <1>7, <1>8, <1>9 DEF Next

-----------------------------------------------------------------------------
LEMMA GivingBackKeepsInv ==
  ASSUME ConcurrencyInv, GivesBack
  PROVE  LocksAreDistinct' /\ ActiveWithinConcurrency' /\ HoldersAreActive'
<1>1. /\ \A k \in Keys : lock[k] \in Nat
      /\ processingCounter \in Nat
      /\ \A w \in Workers : wk[w].key \in Keys
      /\ \A w \in Workers : wk[w].pc # "idle" => wk[w].id \in Nat \ {0}
  BY BoundsAssumption, OwnerIds
  DEF ConcurrencyInv, QueueInv, TypeInv, TypeOK, StoreTypeOK, Ids
<1>2. LocksAreDistinct'
  <2>1. \A j, k \in Keys : lock'[j] # 0 /\ lock'[j] = lock'[k] => j = k
    BY DEF ConcurrencyInv, LocksAreDistinct, GivesBack
  <2>2. \A k \in Keys : lock'[k] <= processingCounter'
    BY <1>1 DEF ConcurrencyInv, LocksAreDistinct, GivesBack
  <2>3. ASSUME NEW k \in Keys, NEW w \in Workers, wk'[w].pc = "begin"
        PROVE  lock'[k] # wk'[w].id
    <3>1. CASE wk[w].pc = "begin" /\ wk'[w].id = wk[w].id
      BY <1>1, <3>1 DEF ConcurrencyInv, LocksAreDistinct, GivesBack
    <3>2. CASE processingCounter < wk'[w].id
      BY <1>1, <3>2 DEF ConcurrencyInv, LocksAreDistinct, GivesBack
    <3> QED
      BY <2>3, <3>1, <3>2 DEF GivesBack
  <2> QED
    BY <2>1, <2>2, <2>3 DEF LocksAreDistinct
<1>3. ActiveWithinConcurrency'
  <2>1. ActiveKeys \in SUBSET Keys /\ ActiveKeys' \in SUBSET ActiveKeys
    BY DEF ActiveKeys, GivesBack
  <2>2. Concurrency \in Nat /\ Cardinality(ActiveKeys) <= Concurrency
    BY ConcurrencyAssumption DEF ConcurrencyInv, ActiveWithinConcurrency
  <2>3. Cardinality(ActiveKeys') <= Concurrency
    BY <2>1, <2>2, FewerKeys
  <2> QED
    BY <2>3 DEF ActiveWithinConcurrency
<1>4. HoldersAreActive'
  <2> SUFFICES ASSUME Driver = "local", NEW w \in Workers, wk'[w].pc \in HoldingPcs,
                      lock'[wk'[w].key] = wk'[w].id
               PROVE  active'[wk'[w].key] # 0
    BY DEF HoldersAreActive
  <2>1. wk[w].pc \in HoldingPcs /\ wk'[w].key = wk[w].key /\ wk'[w].id = wk[w].id
    BY DEF GivesBack
  <2>2. wk[w].id # 0 /\ wk[w].key \in Keys
    BY <1>1, <2>1 DEF HoldingPcs, OwnerPcs
  <2>3. lock[wk[w].key] = wk[w].id /\ lock'[wk[w].key] # 0
    BY <2>1, <2>2 DEF GivesBack
  <2> QED
    BY <2>1, <2>2, <2>3 DEF ConcurrencyInv, HoldersAreActive, GivesBack
<1> QED
  BY <1>2, <1>3, <1>4

LEMMA RetrievalKeepsInv ==
  ASSUME ConcurrencyInv, NEW w \in Workers, Retrieve(w)
  PROVE  LocksAreDistinct' /\ ActiveWithinConcurrency' /\ HoldersAreActive'
<1> DEFINE k == wk[w].key
           id == wk[w].id
<1>1. /\ k \in Keys /\ wk \in [Workers -> WorkerType]
      /\ lock \in [Keys -> Ids \cup {0}] /\ active \in [Keys -> Ids \cup {0}]
      /\ id \in Ids /\ id # 0 /\ wk[w].pc = "begin" /\ lock[k] = 0
      /\ \A j \in Keys : active[j] \in {0, lock[j]}
      /\ \A j \in Keys : lock[j] # id
      /\ id <= processingCounter /\ processingCounter' = processingCounter
  BY OwnerIds
  DEF ConcurrencyInv, LocksAreDistinct, QueueInv, ActiveBelongsToOwner, TypeInv, TypeOK,
      IdsAreOwn, StoreTypeOK, WorkerType, Retrieve
<1>2. lock' = [lock EXCEPT ![k] = id] /\ active' = ActiveAfter(k, id)
  BY DEF Retrieve, RetrieveForProcessing
<1>3. active[k] = 0
  BY <1>1
<1>4. /\ \A v \in Workers : v # w => wk'[v] = wk[v]
      /\ wk'[w].key = k /\ wk'[w].id = id /\ wk'[w].pc # "begin"
      /\ wk'[w].pc \in HoldingPcs => ActiveAfter(k, id)[k] # 0
  <2>1. wk'[w].pc = IF ~(Inserted(k, id) /\ ActiveAfter(k, id)[k] # 0) THEN "free"
                    ELSE IF k \in queryDef THEN "mark" ELSE "reread"
    BY <1>1 DEF Retrieve, WorkerType
  <2>2. /\ \A v \in Workers : v # w => wk'[v] = wk[v]
        /\ wk'[w].key = k /\ wk'[w].id = id
    BY <1>1 DEF Retrieve, WorkerType
  <2> QED
    BY <2>1, <2>2 DEF HoldingPcs, OwnerPcs
<1>5. LocksAreDistinct'
  <2>1. \A i, j \in Keys : lock'[i] # 0 /\ lock'[i] = lock'[j] => i = j
    BY <1>1, <1>2 DEF ConcurrencyInv, LocksAreDistinct
  <2>2. \A j \in Keys : lock'[j] <= processingCounter'
    BY <1>1, <1>2 DEF ConcurrencyInv, LocksAreDistinct
  <2>3. ASSUME NEW j \in Keys, NEW v \in Workers, wk'[v].pc = "begin"
        PROVE  lock'[j] # wk'[v].id
    <3>1. v # w /\ wk'[v] = wk[v] /\ wk[v].id # id
      BY <1>1, <1>4, <2>3, OwnerIds DEF ConcurrencyInv, QueueInv
    <3> QED
      BY <1>1, <1>2, <2>3, <3>1 DEF ConcurrencyInv, LocksAreDistinct
  <2> QED
    BY <2>1, <2>2, <2>3 DEF LocksAreDistinct
<1>6. ActiveWithinConcurrency'
  <2>1. CASE Driver = "redis"
    <3> DEFINE added == [active EXCEPT ![k] = IF @ = 0 THEN id ELSE @]
    <3>1. added \in [Keys -> Ids \cup {0}]
      BY <1>1
    <3>2. \A i, j \in Keys : added[i] # 0 /\ added[i] = added[j] => i = j
      BY <1>1, <1>3 DEF ConcurrencyInv, LocksAreDistinct
    <3>3. active' = [j \in Keys |-> IF j \in LowestScores(Concurrency, added) THEN added[j] ELSE 0]
      BY <1>2, <2>1 DEF ActiveAfter, RedisActivate
    <3>4. ActiveKeys' = LowestScores(Concurrency, added)
      BY <3>3 DEF ActiveKeys, LowestScores
    <3> HIDE DEF added
    <3>5. Cardinality(LowestScores(Concurrency, added)) <= Concurrency
      BY <3>1, <3>2, TrimmedCount, ConcurrencyAssumption
    <3> QED
      BY <3>4, <3>5 DEF ActiveWithinConcurrency
  <2>2. CASE Driver = "local" /\ Cardinality(ActiveKeys) < Concurrency
    <3>1. active' = [active EXCEPT ![k] = id]
      BY <1>2, <1>3, <2>2 DEF ActiveAfter, LocalActivate
    <3>2. ActiveKeys' = ActiveKeys \cup {k}
      BY <1>1, <3>1 DEF ActiveKeys
    <3>3. IsFiniteSet(ActiveKeys) /\ Cardinality(ActiveKeys) \in Nat
      BY KeysAssumption, FS_Subset, FS_CardinalityType DEF ActiveKeys
    <3>4. Cardinality(ActiveKeys \cup {k}) <= Cardinality(ActiveKeys) + 1
      <4>1. Cardinality(ActiveKeys \cup {k}) =
              IF k \in ActiveKeys THEN Cardinality(ActiveKeys) ELSE Cardinality(ActiveKeys) + 1
        BY <3>3, FS_AddElement
      <4>2. Cardinality(ActiveKeys) <= Cardinality(ActiveKeys) + 1
        BY <3>3
      <4> QED
        BY <3>3, <4>1, <4>2
    <3>5. Cardinality(ActiveKeys \cup {k}) \in Nat
      BY <3>3, FS_AddElement, FS_CardinalityType
    <3> QED
      BY <2>2, <3>2, <3>3, <3>4, <3>5, ConcurrencyAssumption DEF ActiveWithinConcurrency
  <2>3. CASE Driver = "local" /\ ~(Cardinality(ActiveKeys) < Concurrency)
    <3>1. active' = active
      BY <1>2, <2>3 DEF ActiveAfter, LocalActivate
    <3>2. ActiveKeys' = ActiveKeys
      BY <3>1 DEF ActiveKeys
    <3> QED
      BY <3>2 DEF ConcurrencyInv, ActiveWithinConcurrency
  <2> QED
    BY <2>1, <2>2, <2>3, DriverAssumption
<1>7. HoldersAreActive'
  <2> SUFFICES ASSUME Driver = "local", NEW v \in Workers, wk'[v].pc \in HoldingPcs,
                      lock'[wk'[v].key] = wk'[v].id
               PROVE  active'[wk'[v].key] # 0
    BY DEF HoldersAreActive
  <2>1. CASE v = w
    BY <1>2, <1>4, <2>1
  <2>2. CASE v # w
    <3>1. wk'[v] = wk[v] /\ wk[v].key \in Keys /\ wk[v].id # id
      BY <1>1, <1>4, <2>2, OwnerIds
      DEF ConcurrencyInv, QueueInv, HoldingPcs, OwnerPcs, WorkerType
    <3>2. wk[v].key # k /\ lock[wk[v].key] = wk[v].id
      BY <1>1, <1>2, <3>1
    <3>3. active[wk[v].key] # 0
      BY <3>1, <3>2 DEF ConcurrencyInv, HoldersAreActive
    <3> QED
      BY <1>1, <1>2, <3>1, <3>2, <3>3 DEF ActiveAfter, LocalActivate
  <2> QED
    BY <2>1, <2>2
<1> QED
  BY <1>5, <1>6, <1>7

LEMMA InitConcurrencyInv == Init => ConcurrencyInv
<1> SUFFICES ASSUME Init PROVE ConcurrencyInv
  OBVIOUS
<1>1. LocksAreDistinct
  BY DEF Init, StoreInit, LocksAreDistinct, IdleWorker
<1>2. ActiveKeys = {}
  BY DEF Init, StoreInit, ActiveKeys
<1>3. ActiveWithinConcurrency
  BY <1>2, FS_EmptySet, ConcurrencyAssumption DEF ActiveWithinConcurrency
<1>4. HoldersAreActive
  BY DEF Init, HoldersAreActive, HoldingPcs, OwnerPcs, IdleWorker
<1> QED
  BY <1>1, <1>3, <1>4, InitQueueInv DEF ConcurrencyInv

LEMMA NextConcurrencyInv == ConcurrencyInv /\ [Next]_vars => ConcurrencyInv'
<1> SUFFICES ASSUME ConcurrencyInv, [Next]_vars PROVE ConcurrencyInv'
  OBVIOUS
<1>1. QueueInv'
  BY NextQueueInv DEF ConcurrencyInv
<1>2. CASE \E w \in Workers : Retrieve(w)
  BY <1>1, <1>2, RetrievalKeepsInv DEF ConcurrencyInv
<1>3. CASE \A w \in Workers : ~Retrieve(w)
  BY <1>1, <1>3, OtherStepsGiveBack, GivingBackKeepsInv DEF ConcurrencyInv
<1> QED
  BY <1>2, <1>3

\* With it, in every state: no two keys are locked or active under one id, and
\* ACTIVE has no more keys than the concurrency.
THEOREM ConcurrencyInvariant == Spec => []ConcurrencyInv
BY InitConcurrencyInv, NextConcurrencyInv, PTL DEF Spec

\* ACTIVE holds no more than `concurrency` keys, with either driver: the trim
\* by rank of retrieveForProcessing in Redis, the count of the local driver.
THEOREM ActiveIsWithinConcurrency == Spec => []ActiveWithinConcurrency
<1>1. ConcurrencyInv => ActiveWithinConcurrency
  BY DEF ConcurrencyInv
<1> QED
  BY <1>1, ConcurrencyInvariant, PTL

\* With the local driver no more queries are executed than `concurrency`: a
\* worker that has been let through keeps its place until it gives up its lock.
THEOREM LocalConcurrencyRespected ==
  ASSUME Driver = "local"
  PROVE  Spec => []ConcurrencyRespected
<1>1. ConcurrencyInv => ConcurrencyRespected
  <2> SUFFICES ASSUME ConcurrencyInv PROVE ConcurrencyRespected
    OBVIOUS
  <2>1. KeysInExecution \in SUBSET ActiveKeys
    <3> SUFFICES ASSUME NEW w \in Workers, Owns(w) PROVE wk[w].key \in ActiveKeys
      BY DEF KeysInExecution
    <3> QED
      BY DEF Owns, ConcurrencyInv, HoldersAreActive, HoldingPcs, ActiveKeys, QueueInv,
             TypeInv, TypeOK
  <2>2. ActiveKeys \in SUBSET Keys
    BY DEF ActiveKeys
  <2>3. Concurrency \in Nat /\ Cardinality(ActiveKeys) <= Concurrency
    BY ConcurrencyAssumption DEF ConcurrencyInv, ActiveWithinConcurrency
  <2> QED
    BY <2>1, <2>2, <2>3, FewerKeys DEF ConcurrencyRespected
<1> QED
  BY <1>1, ConcurrencyInvariant, PTL

-----------------------------------------------------------------------------
(***************************************************************************)
(* Which executions a cancellation ends.  A cancel handle is a number of   *)
(* one process, written into a definition that all processes share.  As    *)
(* long as there is one process, and it does not restart, the number names *)
(* the query it is stored with.  (With several it does not, see the        *)
(* README.)                                                                *)
(***************************************************************************)
OneProcess == ~MayCrash /\ \A p, q \in Procs : p = q

\* The numbers in use, by workers or in definitions, have been handed out.
HandlesAreOld ==
    /\ \A w \in Workers, p \in Procs : wk[w].handle <= handleCounter[p]
    /\ \A k \in Keys, p \in Procs : cancelHandler[k] <= handleCounter[p]

\* No two workers have the same number.
HandlesAreOwn ==
    \A v, w \in Workers : wk[v].handle # 0 /\ wk[v].handle = wk[w].handle => v = w

\* The number in a definition is that of a worker of this query, or of nobody.
HandleNamesItsQuery ==
    \A k \in Keys, w \in Workers :
      wk[w].handle # 0 /\ cancelHandler[k] = wk[w].handle => wk[w].key = k

HandleInv == HandlesAreOld /\ HandlesAreOwn /\ HandleNamesItsQuery

\* A worker keeps its number and its key, or has no number after the step.
KeepsHandle(w) ==
    wk'[w].handle # 0 => wk'[w].handle = wk[w].handle /\ wk'[w].key = wk[w].key

\* What the type invariant says of numbers.
LEMMA HandleTypes ==
  ASSUME QueueInv
  PROVE  /\ wk \in [Workers -> WorkerType]
         /\ IdleWorker.handle = 0 /\ IdleWorker.pc = "idle"
         /\ \A w \in Workers : wk[w].handle \in Nat /\ wk[w].key \in Keys
         /\ cancelHandler \in [Keys -> Nat]
         /\ handleCounter \in [Procs -> Nat]
BY BoundsAssumption
DEF QueueInv, TypeInv, TypeOK, StoreTypeOK, WorkerType, IdleWorker, Handles

\* A step that hands out no number, and writes none but 0 or the one a worker
\* of the query has.
LEMMA NoNewHandle ==
  ASSUME QueueInv, HandleInv, UNCHANGED handleCounter,
         \A w \in Workers : KeepsHandle(w) /\ wk'[w].handle \in Nat,
         \A k \in Keys :
            \/ cancelHandler'[k] = cancelHandler[k] \/ cancelHandler'[k] = 0
            \/ \E w \in Workers : wk[w].key = k /\ cancelHandler'[k] = wk[w].handle
  PROVE  HandleInv'
<1> USE HandleTypes DEF HandleInv
<1>1. HandlesAreOld'
  <2>1. \A w \in Workers, p \in Procs : wk'[w].handle <= handleCounter'[p]
    BY DEF HandlesAreOld, KeepsHandle
  <2>2. \A k \in Keys, p \in Procs : cancelHandler'[k] <= handleCounter'[p]
    BY DEF HandlesAreOld
  <2> QED
    BY <2>1, <2>2 DEF HandlesAreOld
<1>2. HandlesAreOwn'
  BY DEF HandlesAreOwn, KeepsHandle
<1>3. HandleNamesItsQuery'
  <2> SUFFICES ASSUME NEW k \in Keys, NEW w \in Workers,
                      wk'[w].handle # 0, cancelHandler'[k] = wk'[w].handle
               PROVE  wk'[w].key = k
    BY DEF HandleNamesItsQuery
  <2>1. wk'[w].handle = wk[w].handle /\ wk'[w].key = wk[w].key
    BY DEF KeepsHandle
  <2>2. CASE cancelHandler'[k] = cancelHandler[k]
    BY <2>1, <2>2 DEF HandleNamesItsQuery
  <2>3. ASSUME NEW v \in Workers, wk[v].key = k, cancelHandler'[k] = wk[v].handle
        PROVE  wk[w].key = k
    BY <2>1, <2>3 DEF HandlesAreOwn
  <2> QED
    BY <2>1, <2>2, <2>3
<1> QED
  BY <1>1, <1>2, <1>3

\* The next number of the only process is nobody's yet.
LEMMA NewHandle ==
  ASSUME OneProcess, QueueInv, HandleInv, NEW w \in Workers, RegisterHandle(w)
  PROVE  HandleInv'
<1> DEFINE p == Home[w]
           n == handleCounter[p] + 1
<1>1. /\ p \in Procs /\ \A q \in Procs : q = p
      /\ handleCounter[p] \in Nat /\ handleCounter' = [handleCounter EXCEPT ![p] = n]
  BY ActorsAssumption, HandleTypes DEF OneProcess, RegisterHandle
<1>2. /\ wk'[w].handle = n /\ wk'[w].key = wk[w].key
      /\ \A v \in Workers : v # w => wk'[v] = wk[v]
      /\ cancelHandler' = cancelHandler
  BY HandleTypes DEF RegisterHandle, WorkerType, storeVars
<1>3. /\ \A v \in Workers : wk[v].handle < n
      /\ \A k \in Keys : cancelHandler[k] < n
  BY <1>1, HandleTypes DEF HandleInv, HandlesAreOld
<1>4. handleCounter'[p] = n
  BY <1>1, HandleTypes
<1> HIDE DEF n
<1>5. n \in Nat
  BY <1>1 DEF n
<1>6. HandlesAreOld'
  <2>1. \A v \in Workers, q \in Procs : wk'[v].handle <= handleCounter'[q]
    BY <1>1, <1>2, <1>3, <1>4, <1>5, HandleTypes
  <2>2. \A k \in Keys, q \in Procs : cancelHandler'[k] <= handleCounter'[q]
    BY <1>1, <1>2, <1>3, <1>4, <1>5, HandleTypes
  <2> QED
    BY <2>1, <2>2 DEF HandlesAreOld
<1>7. HandlesAreOwn'
  <2>1. \A v \in Workers : v # w => wk'[v].handle # wk'[w].handle
    BY <1>2, <1>3, <1>5, HandleTypes
  <2> QED
    BY <1>2, <2>1 DEF HandleInv, HandlesAreOwn
<1>8. HandleNamesItsQuery'
  <2>1. \A k \in Keys : cancelHandler'[k] # wk'[w].handle
    BY <1>2, <1>3, <1>5, HandleTypes
  <2> QED
    BY <1>2, <2>1 DEF HandleInv, HandleNamesItsQuery
<1> QED
  BY <1>6, <1>7, <1>8 DEF HandleInv

LEMMA InitHandleInv == Init => HandleInv
BY DEF Init, StoreInit, HandleInv, HandlesAreOld, HandlesAreOwn, HandleNamesItsQuery,
       IdleWorker

\* What one step does to the numbers of workers and definitions.
LEMMA NextHandleInv ==
  ASSUME OneProcess, QueueInv, HandleInv, [Next]_vars
  PROVE  HandleInv'
<1> USE HandleTypes
<1>1. ASSUME NEW p \in Procs, NEW k \in Keys, Request(p, k) PROVE HandleInv'
  BY <1>1, NoNewHandle DEF Request, AddToQueue, KeepsHandle
<1>2. ASSUME NEW k \in Keys, TakeResult(k) PROVE HandleInv'
  BY <1>2, NoNewHandle DEF TakeResult, GetResult, KeepsHandle
<1>3. ASSUME NEW p \in Procs, ReconcileStep(p) PROVE HandleInv'
  <2>1. ASSUME NEW k \in Keys, RemoveAndCancel(p, k) PROVE HandleInv'
    <3>1. \A v \in Workers : KeepsHandle(v) /\ wk'[v].handle \in Nat
      BY <2>1, AfterCancelType DEF RemoveAndCancel, QueueInv, KeepsHandle
    <3>2. \A j \in Keys : cancelHandler'[j] = cancelHandler[j] \/ cancelHandler'[j] = 0
      BY <2>1 DEF RemoveAndCancel, GetQueryAndRemove, DeleteEntry
    <3> QED
      BY <2>1, <3>1, <3>2, NoNewHandle DEF RemoveAndCancel
  <2>2. CASE ReadToCancel(p) \/ ReadActive(p) \/ SendProcessMessages(p)
    BY <2>2, NoNewHandle
    DEF ReadToCancel, ReadActive, SendProcessMessages, storeVars, KeepsHandle
  <2> QED
    BY <1>3, <2>1, <2>2 DEF ReconcileStep
<1>4. ASSUME NEW w \in Workers, NEW k \in Keys, Start(w, k) PROVE HandleInv'
  <2>1. \A v \in Workers : KeepsHandle(v) /\ wk'[v].handle \in Nat
    BY <1>4, IdleTypes DEF Start, KeepsHandle, WorkerType, IdleWorker
  <2> QED
    BY <1>4, <2>1, NoNewHandle DEF Start
<1>5. ASSUME NEW w \in Workers, WorkerProgress(w) PROVE HandleInv'
  <2>1. CASE RegisterHandle(w)
    BY <2>1, NewHandle
  <2>2. CASE \/ RetrieveNothing(w) \/ ReadDefinition(w) \/ MarkFailed(w)
             \/ SaveHandleFailed(w) \/ Complete(w)
    <3>1. \A v \in Workers : KeepsHandle(v) /\ wk'[v].handle \in Nat
      BY <2>2
      DEF RetrieveNothing, ReadDefinition, MarkFailed, SaveHandleFailed, Complete,
          KeepsHandle, WorkerType
    <3> QED
      BY <2>2, <3>1, NoNewHandle
      DEF RetrieveNothing, ReadDefinition, MarkFailed, SaveHandleFailed, Complete, storeVars
  <2>3. CASE Retrieve(w)
    <3>1. \A v \in Workers : KeepsHandle(v) /\ wk'[v].handle \in Nat
      BY <2>3, SMTT(20) DEF Retrieve, KeepsHandle, WorkerType
    <3> QED
      BY <2>3, <3>1, NoNewHandle DEF Retrieve, RetrieveForProcessing
  <2>4. CASE MarkStarted(w) \/ SaveHandle(w)
    <3>1. \A v \in Workers : KeepsHandle(v) /\ wk'[v].handle \in Nat
      BY <2>4 DEF MarkStarted, SaveHandle, KeepsHandle, WorkerType
    <3>2. \A k \in Keys : \/ cancelHandler'[k] = cancelHandler[k]
                          \/ wk[w].key = k /\ cancelHandler'[k] = wk[w].handle
      BY <2>4 DEF MarkStarted, SaveHandle, OptimisticQueryUpdate
    <3> QED
      BY <2>4, <3>1, <3>2, NoNewHandle DEF MarkStarted, SaveHandle
  <2>5. CASE TimeOut(w)
    <3> DEFINE k == wk[w].key
               cancelled == IF k \in queryDef THEN AfterCancel(Home[w], cancelHandler[k])
                                              ELSE wk
    <3>1. /\ cancelled \in [Workers -> WorkerType]
          /\ \A v \in Workers : /\ cancelled[v].handle = wk[v].handle
                                /\ cancelled[v].key = wk[v].key
      BY AfterCancelType, ActorsAssumption DEF QueueInv
    <3>2. wk' = [cancelled EXCEPT ![w].pc = "finish"]
      BY <2>5 DEF TimeOut
    <3> HIDE DEF cancelled
    <3>3. \A v \in Workers : KeepsHandle(v) /\ wk'[v].handle \in Nat
      BY <3>1, <3>2 DEF WorkerType, KeepsHandle
    <3> QED
      BY <2>5, <3>3, NoNewHandle DEF TimeOut, storeVars
  <2>6. CASE SetResult(w)
    <3>1. \A v \in Workers : KeepsHandle(v) /\ wk'[v].handle \in Nat
      BY <2>6 DEF SetResult, KeepsHandle
    <3>2. \A k \in Keys : cancelHandler'[k] = cancelHandler[k] \/ cancelHandler'[k] = 0
      BY <2>6 DEF SetResult, SetResultAndRemoveQuery, DeleteEntry
    <3> QED
      BY <2>6, <3>1, <3>2, NoNewHandle DEF SetResult
  <2>7. CASE FreeLock(w)
    <3>1. \A v \in Workers : KeepsHandle(v) /\ wk'[v].handle \in Nat
      BY <2>7 DEF FreeLock, KeepsHandle
    <3> QED
      BY <2>7, <3>1, NoNewHandle DEF FreeLock, FreeProcessingLock
  <2> QED
    BY <1>5, <2>1, <2>2, <2>3, <2>4, <2>5, <2>6, <2>7 DEF WorkerProgress
<1>6. ASSUME NEW w \in Workers, HeartBeat(w) PROVE HandleInv'
  <2>1. \A v \in Workers : KeepsHandle(v) /\ wk'[v].handle \in Nat
    BY <1>6 DEF HeartBeat, WorkerType, KeepsHandle
  <2> QED
    BY <1>6, <2>1, NoNewHandle DEF HeartBeat, UpdateHeartBeat
<1>7. ASSUME NEW k \in Keys, DeadlinePasses(k) \/ HeartBeatAges(k) PROVE HandleInv'
  BY <1>7, NoNewHandle DEF DeadlinePasses, HeartBeatAges, KeepsHandle
<1>8. ASSUME NEW p \in Procs, Crash(p) PROVE HandleInv'
  BY <1>8 DEF Crash, OneProcess
<1>9. CASE UNCHANGED vars
  BY <1>9, NoNewHandle DEF vars, storeVars, KeepsHandle
<1> QED
  BY <1>1, <1>2, <1>3, <1>4, <1>5, <1>6, <1>7, <1>8, <1>9 DEF Next

-----------------------------------------------------------------------------
\* Only two steps take an execution out of the handles map and let it go on:
\* the removal of a query, and the time-out of an execution.
LEMMA WhoCancels ==
  ASSUME QueueInv, [Next]_vars, NEW w \in Workers, IsCancelled(w)
  PROVE  \/ \E p \in Procs, k \in Keys : RemoveAndCancel(p, k)
         \/ \E v \in Workers : TimeOut(v)
<1> SUFFICES ASSUME \A p \in Procs, k \in Keys : ~RemoveAndCancel(p, k),
                    \A v \in Workers : ~TimeOut(v)
             PROVE  FALSE
  OBVIOUS
<1> USE HandleTypes DEF IsCancelled, ExecutingPcs
<1>1. ASSUME UNCHANGED wk PROVE FALSE
  BY <1>1
<1>2. ASSUME NEW v \in Workers, WorkerProgress(v) PROVE FALSE
  <2>1. CASE RetrieveNothing(v) \/ MarkFailed(v) \/ SetResult(v) \/ FreeLock(v)
    BY <2>1 DEF RetrieveNothing, MarkFailed, SetResult, FreeLock
  <2>2. CASE Retrieve(v) \/ ReadDefinition(v) \/ MarkStarted(v)
    BY <2>2 DEF Retrieve, ReadDefinition, MarkStarted, WorkerType
  <2>3. CASE RegisterHandle(v) \/ SaveHandle(v) \/ SaveHandleFailed(v) \/ Complete(v)
    BY <2>3 DEF RegisterHandle, SaveHandle, SaveHandleFailed, Complete, WorkerType
  <2> QED
    BY <1>2, <2>1, <2>2, <2>3 DEF WorkerProgress
<1>3. ASSUME NEW v \in Workers, NEW k \in Keys, Start(v, k) PROVE FALSE
  BY <1>3, IdleTypes DEF Start, WorkerType
<1>4. ASSUME NEW v \in Workers, HeartBeat(v) PROVE FALSE
  BY <1>4 DEF HeartBeat, WorkerType
<1>5. ASSUME NEW p \in Procs, Crash(p) PROVE FALSE
  BY <1>5 DEF Crash
<1>6. CASE \/ \E p \in Procs, k \in Keys : Request(p, k)
           \/ \E k \in Keys : TakeResult(k) \/ DeadlinePasses(k) \/ HeartBeatAges(k)
           \/ \E p \in Procs : ReconcileStep(p)
           \/ UNCHANGED vars
  BY <1>1, <1>6
  DEF Request, TakeResult, DeadlinePasses, HeartBeatAges, ReconcileStep, ReadToCancel,
      ReadActive, SendProcessMessages, vars
<1> QED
  BY <1>2, <1>3, <1>4, <1>5, <1>6 DEF Next

\* Whose execution the number h of a definition of k ends.
LEMMA CancelsThisQuery ==
  ASSUME QueueInv, HandleInv, NEW k \in Keys, NEW p \in Procs, NEW w \in Workers,
         wk[w].listed, ~AfterCancel(p, cancelHandler[k])[w].listed
  PROVE  wk[w].key = k
BY HandleTypes DEF AfterCancel, HandleInv, HandleNamesItsQuery, WorkerType

LEMMA StepCancelsItsOwnQuery ==
  ASSUME QueueInv, HandleInv, [Next]_vars, NEW w \in Workers, IsCancelled(w)
  PROVE  \/ wk[w].key \in queryDef \ queryDef'
         \/ \E v \in Workers : wk[v].key = wk[w].key /\ wk[v].pc = "run" /\ wk'[v].pc = "finish"
<1>1. ASSUME NEW p \in Procs, NEW k \in Keys, RemoveAndCancel(p, k)
      PROVE  wk[w].key \in queryDef \ queryDef'
  <2>1. k \in queryDef /\ wk' = AfterCancel(p, cancelHandler[k])
    BY <1>1 DEF RemoveAndCancel, IsCancelled
  <2>2. wk[w].key = k
    BY <2>1, CancelsThisQuery DEF IsCancelled
  <2> QED
    BY <1>1, <2>1, <2>2 DEF RemoveAndCancel, GetQueryAndRemove, DeleteEntry
<1>2. ASSUME NEW v \in Workers, TimeOut(v)
      PROVE  wk[v].key = wk[w].key /\ wk[v].pc = "run" /\ wk'[v].pc = "finish"
  <2> DEFINE k == wk[v].key
             cancelled == IF k \in queryDef THEN AfterCancel(Home[v], cancelHandler[k])
                                            ELSE wk
  <2>1. Home[v] \in Procs /\ k \in Keys
    BY ActorsAssumption, HandleTypes
  <2>2. cancelled \in [Workers -> WorkerType]
    BY <2>1, AfterCancelType, HandleTypes DEF QueueInv
  <2>3. wk' = [cancelled EXCEPT ![v].pc = "finish"] /\ wk[v].pc = "run"
    BY <1>2 DEF TimeOut
  <2>4. wk'[v].pc = "finish" /\ wk'[w].listed = cancelled[w].listed
    <3> HIDE DEF cancelled
    <3> QED
      BY <2>2, <2>3 DEF WorkerType
  <2>5. k \in queryDef /\ ~AfterCancel(Home[v], cancelHandler[k])[w].listed
    BY <2>4 DEF IsCancelled
  <2>6. wk[w].key = k
    BY <2>1, <2>5, CancelsThisQuery DEF IsCancelled
  <2> QED
    BY <2>3, <2>4, <2>6
<1> QED
  BY <1>1, <1>2, WhoCancels

\* In one process that does not restart, a cancellation ends only executions
\* of the query that is removed, or of the query whose execution timed out,
\* however often queries are removed and executed anew.
THEOREM CancellationsHitTheirQuery ==
  ASSUME OneProcess
  PROVE  Spec => CancelsItsOwnQuery
<1>1. QueueInv /\ HandleInv /\ [Next]_vars => HandleInv'
  BY NextHandleInv
<1>2. QueueInv /\ HandleInv /\ [Next]_vars =>
        [\A w \in Workers : IsCancelled(w) =>
           \/ wk[w].key \in queryDef \ queryDef'
           \/ \E v \in Workers :
                wk[v].key = wk[w].key /\ wk[v].pc = "run" /\ wk'[v].pc = "finish"]_vars
  BY StepCancelsItsOwnQuery
<1> QED
  BY <1>1, <1>2, InitHandleInv, QueueInvariant, PTL DEF Spec, CancelsItsOwnQuery
=============================================================================
