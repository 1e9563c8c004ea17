--------------------------- MODULE QueueReconcile ---------------------------
(***************************************************************************)
(* The wake-ups of one process's QueryQueue.  Nobody polls the queue: a    *)
(* query is sent to be processed by reconcileQueue() alone, which a request *)
(* calls after it added its query and a worker after it removed one.  Calls *)
(* that come while a reconciliation is under way share its promise and ask  *)
(* for one more run (reconcileAgain).  Calls of the store may throw.        *)
(*                                                                         *)
(* QueryQueue has the store in full and a reconciliation without failures; *)
(* here the store is the part of LocalQueueDriver that decides who may run, *)
(* and expiry, stalling and several processes are left out.                *)
(***************************************************************************)
EXTENDS Naturals, FiniteSets, SequencesExt

CONSTANTS
    Keys,          \* hashes of query keys; one client asks for each
    Concurrency,   \* the queue's concurrency option
    MaxMessages,   \* bound on processQuery calls for one key that have not locked
    MaxFailures    \* bound on store calls that throw

ASSUME KeysAssumption == IsFiniteSet(Keys) /\ Keys # {}
ASSUME BoundsAssumption ==
    /\ Concurrency \in Nat \ {0}
    /\ MaxMessages \in Nat \ {0}
    /\ MaxFailures \in Nat

VARIABLES
    queue,        \* toProcess, in order of arrival (priorities are equal)
    active,       \* the keys in ACTIVE
    holder,       \* what the holder of a key's processing lock is doing
    results,      \* keys that have been executed
    starting,     \* processQuery calls of a key that have not retrieved yet
    request,      \* what the client's executeInQueue for a key is doing
    finisher,     \* what the worker that removed a key is doing
    phase,        \* how far reconcileQueueImpl has come; "none": no promise
    again,        \* reconcileAgain
    activeRead,   \* what getActiveQueries returned to reconcileQueueImpl
    heard,        \* requests whose query was queued when a run read the queue
    failures      \* store calls that have thrown

vars == <<queue, active, holder, results, starting, request, finisher, phase,
          again, activeRead, heard, failures>>
storeVars == <<queue, active, holder, results>>
runVars == <<phase, again, activeRead>>

HolderStates == {"free", "rereading", "skipping", "executing"}
RequestStates == {"none", "added", "waiting", "blocked", "answered", "failed"}
FinisherStates == {"none", "removed", "waiting"}
Phases == {"none", "begun", "activeRead", "returned", "threw"}

TypeOK ==
    /\ queue \in Seq(Keys) /\ IsInjective(queue)
    /\ active \subseteq Keys
    /\ holder \in [Keys -> HolderStates]
    /\ results \subseteq Keys
    /\ starting \in [Keys -> 0 .. MaxMessages]
    /\ request \in [Keys -> RequestStates]
    /\ finisher \in [Keys -> FinisherStates]
    /\ phase \in Phases
    /\ again \in BOOLEAN
    /\ activeRead \subseteq Keys
    /\ heard \subseteq Keys
    /\ failures \in 0 .. MaxFailures

Init ==
    /\ queue = <<>>
    /\ active = {}
    /\ holder = [k \in Keys |-> "free"]
    /\ results = {}
    /\ starting = [k \in Keys |-> 0]
    /\ request = [k \in Keys |-> "none"]
    /\ finisher = [k \in Keys |-> "none"]
    /\ phase = "none"
    /\ again = FALSE
    /\ activeRead = {}
    /\ heard = {}
    /\ failures = 0

(***************************************************************************)
(* reconcileQueue                                                          *)
(***************************************************************************)
\* Mutant: joining a run does not ask for another.
AskJoins ==
    /\ phase' = IF phase = "none" THEN "begun" ELSE phase
    /\ again' = FALSE
    /\ UNCHANGED activeRead

\* Begin a run, or ask the one under way for another.
Ask ==
    /\ phase' = IF phase = "none" THEN "begun" ELSE phase
    /\ again' = (phase # "none")
    /\ UNCHANGED activeRead

ReadActive ==
    /\ phase = "begun"
    /\ phase' = "activeRead"
    /\ activeRead' = active
    /\ UNCHANGED <<storeVars, starting, request, finisher, again, heard, failures>>

\* toProcess without what was active, cut to the concurrency.
ToSend ==
    LET inactive == SelectSeq(queue, LAMBDA k : k \notin activeRead)
    IN  {inactive[i] : i \in {j \in DOMAIN inactive : j <= Concurrency}}

\* Read the queue and send the messages; nothing can throw after that.
ReadToProcess ==
    /\ phase = "activeRead"
    /\ \A k \in ToSend : starting[k] < MaxMessages
    /\ phase' = "returned"
    /\ starting' = [k \in Keys |-> starting[k] + IF k \in ToSend THEN 1 ELSE 0]
    /\ heard' = {k \in Keys : request[k] \in {"added", "waiting"}} \cup heard
    /\ UNCHANGED <<storeVars, request, finisher, again, activeRead, failures>>

\* A store call of reconcileQueueImpl throws.
ReconcileThrows ==
    /\ phase \in {"begun", "activeRead"}
    /\ failures < MaxFailures
    /\ failures' = failures + 1
    /\ phase' = "threw"
    /\ UNCHANGED <<storeVars, starting, request, finisher, again, activeRead, heard>>

\* All who await the promise go on; s is what becomes of the requests.
WaitersGoOn(s) ==
    /\ request' = [k \in Keys |-> IF request[k] = "waiting" THEN s ELSE request[k]]
    /\ finisher' = [k \in Keys |-> IF finisher[k] = "waiting" THEN "none" ELSE finisher[k]]

\* .then, when somebody asked meanwhile: reconcileQueue() once more.
Restart ==
    /\ again
    /\ phase' = "begun"
    /\ again' = FALSE
    /\ UNCHANGED <<request, finisher>>

Resolve ==
    /\ ~ again
    /\ phase' = "none"
    /\ WaitersGoOn("blocked")
    /\ UNCHANGED again

ReconcileReturns ==
    /\ phase = "returned"
    /\ Restart \/ Resolve
    /\ UNCHANGED <<storeVars, starting, activeRead, heard, failures>>

\* Mutant: the rejected promise is kept (as before the .catch was added).
RejectKeepsPromise ==
    /\ phase = "threw"
    /\ WaitersGoOn("failed")
    /\ UNCHANGED <<storeVars, starting, runVars, heard, failures>>

\* .catch: forget the promise; whoever awaits it gets the error.
Reject ==
    /\ phase = "threw"
    /\ phase' = "none"
    /\ WaitersGoOn("failed")
    /\ UNCHANGED <<storeVars, starting, again, activeRead, heard, failures>>

(***************************************************************************)
(* executeInQueue                                                          *)
(***************************************************************************)
\* Mutant: a key that is queued is queued again.
EnqueueTwice(k) == Append(queue, k)

\* ZADD NX: a key that is queued keeps its place.
Enqueue(k) == IF Contains(queue, k) THEN queue ELSE Append(queue, k)

\* The request finds no result and adds its query.
AddToQueue(k) ==
    /\ request[k] = "none"
    /\ k \notin results
    /\ queue' = Enqueue(k)
    /\ request' = [request EXCEPT ![k] = "added"]
    /\ heard' = heard \ {k}
    /\ UNCHANGED <<active, holder, results, starting, finisher, runVars, failures>>

AskForRequest(k) ==
    /\ request[k] = "added"
    /\ request' = [request EXCEPT ![k] = "waiting"]
    /\ Ask
    /\ UNCHANGED <<storeVars, starting, finisher, heard, failures>>

\* The first look for a result, or the blocking one.
TakeResult(k) ==
    /\ request[k] \in {"none", "blocked"}
    /\ k \in results
    /\ request' = [request EXCEPT ![k] = "answered"]
    /\ UNCHANGED <<storeVars, starting, finisher, runVars, heard, failures>>

\* ContinueWaitError, or the error of a reconciliation: the client asks anew.
AskAnew(k) ==
    /\ request[k] = "failed" \/ (request[k] = "blocked" /\ k \notin results)
    /\ request' = [request EXCEPT ![k] = "none"]
    /\ UNCHANGED <<storeVars, starting, finisher, runVars, heard, failures>>

(***************************************************************************)
(* processQuery                                                            *)
(***************************************************************************)
\* Somebody else holds the lock: skip, and there is nothing to free.
RetrieveLocked(k) ==
    /\ holder[k] # "free"
    /\ UNCHANGED <<active, holder>>

\* The lock is free.  The key becomes active if there is room, and is
\* executed if it also is (still) queued; else its definition is read again.
RetrieveLock(k) ==
    /\ holder[k] = "free"
    /\ LET activated == Cardinality(active) < Concurrency
       IN  /\ active' = IF activated THEN active \cup {k} ELSE active
           /\ holder' = [holder EXCEPT ![k] =
                  IF ~activated THEN "skipping"
                  ELSE IF Contains(queue, k) THEN "executing" ELSE "rereading"]

Retrieve(k) ==
    /\ starting[k] > 0
    /\ starting' = [starting EXCEPT ![k] = @ - 1]
    /\ RetrieveLocked(k) \/ RetrieveLock(k)
    /\ UNCHANGED <<queue, results, request, finisher, runVars, heard, failures>>

\* getQueryDef: a request may have added the query in the meantime.
ReadDefinition(k) ==
    /\ holder[k] = "rereading"
    /\ holder' = [holder EXCEPT ![k] = IF Contains(queue, k) THEN "executing" ELSE "skipping"]
    /\ UNCHANGED <<queue, active, results, starting, request, finisher, runVars,
                   heard, failures>>

\* The connection cannot be had, or the store throws: "Queue storage error".
ProcessingFails(k) ==
    /\ starting[k] > 0
    /\ failures < MaxFailures
    /\ failures' = failures + 1
    /\ starting' = [starting EXCEPT ![k] = @ - 1]
    /\ UNCHANGED <<storeVars, request, finisher, runVars, heard>>

\* Mutant: the place in ACTIVE is not given back.
FreeLockKeepsPlace(k) ==
    /\ holder[k] = "skipping"
    /\ holder' = [holder EXCEPT ![k] = "free"]
    /\ UNCHANGED <<queue, active, results, starting, request, finisher, runVars,
                   heard, failures>>

\* freeProcessingLock; the skipped worker ends without reconciling.
FreeLock(k) ==
    /\ holder[k] = "skipping"
    /\ holder' = [holder EXCEPT ![k] = "free"]
    /\ active' = active \ {k}
    /\ UNCHANGED <<queue, results, starting, request, finisher, runVars, heard, failures>>

\* setResultAndRemoveQuery
SetResult(k) ==
    /\ holder[k] = "executing"
    /\ finisher[k] = "none"
    /\ holder' = [holder EXCEPT ![k] = "free"]
    /\ active' = active \ {k}
    /\ queue' = RemoveFirst(queue, k)
    /\ results' = results \cup {k}
    /\ finisher' = [finisher EXCEPT ![k] = "removed"]
    /\ UNCHANGED <<starting, request, runVars, heard, failures>>

AskAfterResult(k) ==
    /\ finisher[k] = "removed"
    /\ finisher' = [finisher EXCEPT ![k] = "waiting"]
    /\ Ask
    /\ UNCHANGED <<storeVars, starting, request, heard, failures>>

Reconcile == ReadActive \/ ReadToProcess \/ ReconcileReturns \/ Reject

Next ==
    \/ Reconcile \/ ReconcileThrows
    \/ \E k \in Keys :
          \/ AddToQueue(k) \/ AskForRequest(k) \/ TakeResult(k) \/ AskAnew(k)
          \/ Retrieve(k) \/ ReadDefinition(k) \/ ProcessingFails(k) \/ FreeLock(k)
          \/ SetResult(k) \/ AskAfterResult(k)

Spec == Init /\ [][Next]_vars

\* The event loop runs what is ready, executions end, and clients ask until
\* they have an answer.
Fairness ==
    /\ WF_vars(Reconcile)
    /\ \A k \in Keys :
          /\ WF_vars(AddToQueue(k)) /\ WF_vars(AskForRequest(k))
          /\ WF_vars(TakeResult(k)) /\ WF_vars(AskAnew(k))
          /\ WF_vars(Retrieve(k)) /\ WF_vars(ReadDefinition(k)) /\ WF_vars(FreeLock(k))
          /\ WF_vars(SetResult(k)) /\ WF_vars(AskAfterResult(k))

FairSpec == Spec /\ Fairness
-----------------------------------------------------------------------------
\* A request that goes on to wait for its result (its reconcileQueue() has
\* resolved) was heard: a run that did not fail read the queue after the
\* request had added its query, however many calls shared that run.
HeardBeforeWaiting ==
    \A k \in Keys : request[k] = "blocked" => k \in heard

\* A key in ACTIVE has a lock holder that will take it out again: no
\* overlap of skipped and executing workers leaves a place occupied.
NoPlaceIsLost ==
    \A k \in active : holder[k] # "free"

\* Every query that was added is executed and its client answered, although
\* skipped and failed workers wake nobody and failed runs drop the calls that
\* joined them: the client's next request makes up for a lost wake-up.
AddedIsAnswered ==
    \A k \in Keys : request[k] = "added" ~> request[k] = "answered"
=============================================================================
