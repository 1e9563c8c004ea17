------------------------ MODULE QueueReconcileProofs ------------------------
(***************************************************************************)
(* TypeOK, HeardBeforeWaiting and NoPlaceIsLost of QueueReconcile, for      *)
(* every set of keys, concurrency and bound.                               *)
(***************************************************************************)
EXTENDS QueueReconcile, TLAPS

\* The part of the type invariant the proof needs.
ActorTypes ==
    /\ request \in [Keys -> RequestStates]
    /\ holder \in [Keys -> HolderStates]
    /\ active \subseteq Keys

\* A request that waits has a promise to wait for; when the run has returned
\* and nobody asked for another one, that run heard the request.
WaitingWillBeHeard ==
    \A k \in Keys : request[k] = "waiting" =>
        /\ phase # "none"
        /\ phase = "returned" /\ ~ again => k \in heard

ReconcileInv ==
    ActorTypes /\ WaitingWillBeHeard /\ HeardBeforeWaiting /\ NoPlaceIsLost

LEMMA InitReconcileInv == Init => ReconcileInv
BY DEF Init, ReconcileInv, ActorTypes, WaitingWillBeHeard, HeardBeforeWaiting,
       NoPlaceIsLost, RequestStates, HolderStates

\* What a call of reconcileQueue() does to the run.
LEMMA AskOpensRun ==
    Ask => /\ phase' # "none"
           /\ phase' = "returned" => again'
           /\ activeRead' = activeRead
BY DEF Ask

\* Requests, and steps that touch neither a request nor the run, nor a lock.
LEMMA CallersKeepInv ==
    ASSUME ReconcileInv,
           NEW k \in Keys,
           \/ AddToQueue(k) \/ AskForRequest(k) \/ TakeResult(k)
           \/ AskAnew(k) \/ AskAfterResult(k) \/ ProcessingFails(k)
    PROVE  ReconcileInv'
<1> USE DEF ReconcileInv, ActorTypes, WaitingWillBeHeard, HeardBeforeWaiting,
            NoPlaceIsLost, storeVars, runVars
<1>1. CASE AddToQueue(k)
  BY <1>1 DEF AddToQueue, RequestStates
<1>2. CASE AskForRequest(k)
  BY <1>2, AskOpensRun DEF AskForRequest, RequestStates
<1>3. CASE TakeResult(k)
  BY <1>3 DEF TakeResult, RequestStates
<1>4. CASE AskAnew(k)
  BY <1>4 DEF AskAnew, RequestStates
<1>5. CASE AskAfterResult(k)
  BY <1>5, AskOpensRun DEF AskAfterResult
<1>6. CASE ProcessingFails(k)
  BY <1>6 DEF ProcessingFails
<1> QED
  BY <1>1, <1>2, <1>3, <1>4, <1>5, <1>6

\* The workers' steps: a key becomes active only together with its lock, and
\* the lock is given back together with the place in ACTIVE.
LEMMA WorkersKeepInv ==
    ASSUME ReconcileInv,
           NEW k \in Keys,
           Retrieve(k) \/ ReadDefinition(k) \/ FreeLock(k) \/ SetResult(k)
    PROVE  ReconcileInv'
<1> USE DEF ReconcileInv, ActorTypes
<1>1. UNCHANGED <<request, heard, phase, again>>
  BY DEF Retrieve, ReadDefinition, FreeLock, SetResult, runVars
<1>2. /\ holder' \in [Keys -> HolderStates]
      /\ active' \subseteq Keys
      /\ NoPlaceIsLost'
  <2>1. CASE Retrieve(k)
    <3>1. CASE RetrieveLocked(k)
      BY <3>1 DEF RetrieveLocked, NoPlaceIsLost
    <3>2. CASE RetrieveLock(k)
      BY <3>2 DEF RetrieveLock, NoPlaceIsLost, HolderStates
    <3> QED
      BY <2>1, <3>1, <3>2 DEF Retrieve
  <2>2. CASE FreeLock(k)
    BY <2>2 DEF FreeLock, NoPlaceIsLost, HolderStates
  <2>3. CASE SetResult(k)
    BY <2>3 DEF SetResult, NoPlaceIsLost, HolderStates
  <2>4. CASE ReadDefinition(k)
    BY <2>4 DEF ReadDefinition, NoPlaceIsLost, HolderStates
  <2> QED
    BY <2>1, <2>2, <2>3, <2>4
<1> QED
  BY <1>1, <1>2 DEF WaitingWillBeHeard, HeardBeforeWaiting

\* The steps of a run.
LEMMA RunKeepsInv ==
    ASSUME ReconcileInv, Reconcile \/ ReconcileThrows
    PROVE  ReconcileInv'
<1> USE DEF ReconcileInv, ActorTypes
<1>1. UNCHANGED <<holder, active>>
  BY DEF Reconcile, ReadActive, ReadToProcess, ReconcileReturns, Reject,
         ReconcileThrows, storeVars
<1>2. NoPlaceIsLost'
  BY <1>1 DEF NoPlaceIsLost
<1> USE DEF WaitingWillBeHeard, HeardBeforeWaiting
<1>3. CASE ReadActive
  BY <1>1, <1>2, <1>3 DEF ReadActive
<1>4. CASE ReadToProcess
  BY <1>1, <1>2, <1>4 DEF ReadToProcess
<1>5. CASE ReconcileReturns
  <2>1. CASE Restart
    BY <1>1, <1>2, <1>5, <2>1 DEF ReconcileReturns, Restart
  <2>2. CASE Resolve
    BY <1>1, <1>2, <1>5, <2>2
    DEF ReconcileReturns, Resolve, WaitersGoOn, RequestStates
  <2> QED
    BY <1>5, <2>1, <2>2 DEF ReconcileReturns
<1>6. CASE Reject
  BY <1>1, <1>2, <1>6 DEF Reject, WaitersGoOn, RequestStates
<1>7. CASE ReconcileThrows
  BY <1>1, <1>2, <1>7 DEF ReconcileThrows
<1> QED
  BY <1>3, <1>4, <1>5, <1>6, <1>7 DEF Reconcile

LEMMA NextReconcileInv == ReconcileInv /\ [Next]_vars => ReconcileInv'
<1> SUFFICES ASSUME ReconcileInv, [Next]_vars
             PROVE  ReconcileInv'
  OBVIOUS
<1>1. CASE UNCHANGED vars
  BY <1>1 DEF vars, ReconcileInv, ActorTypes, WaitingWillBeHeard,
              HeardBeforeWaiting, NoPlaceIsLost
<1> QED
  BY <1>1, CallersKeepInv, WorkersKeepInv, RunKeepsInv DEF Next

\* However many calls share a reconciliation, a request goes on to wait for
\* its result only after a run that did not fail read the queue with it.
THEOREM RequestsAreHeard == Spec => []HeardBeforeWaiting
<1>1. ReconcileInv => HeardBeforeWaiting
  BY DEF ReconcileInv
<1> QED
  BY <1>1, InitReconcileInv, NextReconcileInv, PTL DEF Spec

\* No overlap of skipped and executing workers occupies a place for good.
THEOREM PlacesAreHeld == Spec => []NoPlaceIsLost
<1>1. ReconcileInv => NoPlaceIsLost
  BY DEF ReconcileInv
<1> QED
  BY <1>1, InitReconcileInv, NextReconcileInv, PTL DEF Spec

-----------------------------------------------------------------------------
(***************************************************************************)
(* TypeOK is inductive.  What has to be shown is that no step puts a key   *)
(* into the queue twice and that the counters stay within their bounds.    *)
(***************************************************************************)
\* A query that is taken out of the queue, wherever it stands.
LEMMA RemoveFirstKeepsQueue ==
    ASSUME NEW s \in Seq(Keys), IsInjective(s), NEW e
    PROVE  RemoveFirst(s, e) \in Seq(Keys) /\ IsInjective(RemoveFirst(s, e))
<1>1. CASE ~ \E i \in 1 .. Len(s) : s[i] = e
  BY <1>1 DEF RemoveFirst
<1>2. CASE \E i \in 1 .. Len(s) : s[i] = e
  <2>1. PICK p \in 1 .. Len(s) : s[p] = e
    BY <1>2
  <2>2. {i \in 1 .. Len(s) : s[i] = e} = {p}
    BY <2>1 DEF IsInjective
  <2>3. Min({p}) = p
    BY <2>1 DEF Min
  <2>4. SelectInSeq(s, LAMBDA v : v = e) = p
    BY <2>2, <2>3 DEF SelectInSeq
  <2>5. RemoveFirst(s, e) = SubSeq(s, 1, p - 1) \o SubSeq(s, p + 1, Len(s))
    BY <1>2, <2>4 DEF RemoveFirst, RemoveAt
  <2> DEFINE front == SubSeq(s, 1, p - 1)
             back == SubSeq(s, p + 1, Len(s))
  <2>6. /\ front \in Seq(Keys) /\ Len(front) = p - 1
        /\ \A i \in 1 .. p - 1 : front[i] = s[i]
    BY <2>1
  <2>7. /\ back \in Seq(Keys) /\ Len(back) = Len(s) - p
        /\ \A i \in 1 .. Len(s) - p : back[i] = s[i + p]
    BY <2>1
  <2> HIDE DEF front, back
  <2>8. front \o back \in Seq(Keys) /\ Len(front \o back) = Len(front) + Len(back)
    <3>1. front \in Seq(Keys) /\ back \in Seq(Keys)
      BY <2>6, <2>7
    <3> QED  BY <3>1
  <2>9. ASSUME NEW i \in 1 .. Len(s) - 1
        PROVE  (front \o back)[i] = IF i < p THEN s[i] ELSE s[i + 1]
    <3>1. CASE i < p
      BY <2>1, <2>6, <2>7, <3>1
    <3>2. CASE i >= p
      <4>1. i - (p - 1) \in 1 .. Len(s) - p /\ (i - (p - 1)) + p = i + 1
        BY <2>1, <3>2
      <4>2. (front \o back)[i] = back[i - (p - 1)]
        BY <2>1, <2>6, <2>7, <3>2
      <4> QED  BY <2>7, <3>2, <4>1, <4>2
    <3>3. i < p \/ i >= p
      BY <2>1
    <3> QED  BY <2>1, <3>1, <3>2, <3>3
  <2>10. DOMAIN (front \o back) = 1 .. Len(s) - 1
    <3>1. Len(s) \in Nat
      OBVIOUS
    <3> QED  BY <2>1, <2>6, <2>7, <2>8, <3>1
  <2>11. \A i, j \in 1 .. Len(s) : s[i] = s[j] => i = j
    BY DEF IsInjective
  <2>12. PICK t : /\ t = front \o back /\ DOMAIN t = 1 .. Len(s) - 1
                  /\ \A i \in 1 .. Len(s) - 1 : t[i] = IF i < p THEN s[i] ELSE s[i + 1]
    BY <2>9, <2>10
  <2>13. IsInjective(t)
    <3> DEFINE at(x) == IF x < p THEN x ELSE x + 1
    <3>1. \A x \in 1 .. Len(s) - 1 : at(x) \in 1 .. Len(s) /\ t[x] = s[at(x)]
      BY <2>1, <2>12
    <3>2. \A x, y \in Nat : at(x) = at(y) => x = y
      BY <2>1
    <3> HIDE DEF at
    <3>3. ASSUME NEW i \in 1 .. Len(s) - 1, NEW j \in 1 .. Len(s) - 1, t[i] = t[j]
          PROVE  i = j
      <4>1. s[at(i)] = s[at(j)] /\ at(i) \in 1 .. Len(s) /\ at(j) \in 1 .. Len(s)
        BY <3>1, <3>3
      <4>2. at(i) = at(j)
        BY <2>11, <4>1
      <4> QED  BY <3>2, <4>2
    <3> QED  BY <2>12, <3>3 DEF IsInjective
  <2> QED  BY <2>5, <2>8, <2>12, <2>13 DEF front, back
<1> QED  BY <1>1, <1>2

\* A query that is queued, once.
LEMMA EnqueueKeepsQueue ==
    ASSUME TypeOK, NEW k \in Keys
    PROVE  Enqueue(k) \in Seq(Keys) /\ IsInjective(Enqueue(k))
<1>1. queue \in Seq(Keys) /\ IsInjective(queue)
  BY DEF TypeOK
<1>2. CASE Contains(queue, k)
  BY <1>1, <1>2 DEF Enqueue
<1>3. CASE ~ Contains(queue, k)
  <2> DEFINE t == Append(queue, k)
  <2>1. t \in Seq(Keys) /\ Len(t) = Len(queue) + 1
    BY <1>1
  <2>2. t[Len(queue) + 1] = k /\ \A i \in 1 .. Len(queue) : t[i] = queue[i]
    BY <1>1
  <2> HIDE DEF t
  <2>3. \A i \in 1 .. Len(t) : i = Len(queue) + 1 \/ i \in 1 .. Len(queue)
    BY <1>1, <2>1
  <2>4. \A i \in 1 .. Len(queue) : queue[i] # k
    BY <1>3 DEF Contains
  <2>5. \A i, j \in 1 .. Len(queue) : queue[i] = queue[j] => i = j
    BY <1>1 DEF IsInjective
  <2>6. ASSUME NEW i \in 1 .. Len(t), NEW j \in 1 .. Len(t), t[i] = t[j]
        PROVE  i = j
    BY <2>2, <2>3, <2>4, <2>5, <2>6
  <2>7. IsInjective(t)
    BY <2>1, <2>6 DEF IsInjective
  <2> QED  BY <1>3, <2>1, <2>7 DEF Enqueue, t
<1> QED  BY <1>2, <1>3

LEMMA InitTypes == Init => TypeOK
<1>1. <<>> \in Seq(Keys) /\ IsInjective(<<>>)
  BY DEF IsInjective
<1>2. 0 \in 0 .. MaxMessages /\ 0 \in 0 .. MaxFailures
  BY BoundsAssumption
<1> QED
  BY <1>1, <1>2 DEF Init, TypeOK, HolderStates, RequestStates, FinisherStates, Phases

LEMMA AskKeepsTypes ==
    ASSUME TypeOK, Ask PROVE phase' \in Phases /\ again' \in BOOLEAN /\ activeRead' \subseteq Keys
BY DEF Ask, TypeOK, Phases

LEMMA NextKeepsTypes == TypeOK /\ [Next]_vars => TypeOK'
<1> SUFFICES ASSUME TypeOK, [Next]_vars PROVE TypeOK'
  OBVIOUS
<1>1. MaxMessages \in Nat /\ MaxFailures \in Nat
  BY BoundsAssumption
<1> USE DEF storeVars, runVars
<1>2. CASE UNCHANGED vars
  BY <1>2 DEF vars, TypeOK
<1>3. CASE ReadActive
  BY <1>3 DEF ReadActive, TypeOK, Phases
<1>4. CASE ReadToProcess
  <2> DEFINE sent == ToSend
  <2>1. /\ \A k \in sent : starting[k] < MaxMessages
        /\ starting' = [k \in Keys |-> starting[k] + IF k \in sent THEN 1 ELSE 0]
    BY <1>4 DEF ReadToProcess
  <2> HIDE DEF sent
  <2>2. starting' \in [Keys -> 0 .. MaxMessages]
    BY <1>1, <2>1 DEF TypeOK
  <2> QED  BY <1>4, <2>2 DEF ReadToProcess, TypeOK, Phases
<1>5. CASE ReconcileThrows
  BY <1>1, <1>5 DEF ReconcileThrows, TypeOK, Phases
<1>6. ASSUME NEW s \in {"blocked", "failed"}, WaitersGoOn(s)
      PROVE  request' \in [Keys -> RequestStates] /\ finisher' \in [Keys -> FinisherStates]
  BY <1>6 DEF WaitersGoOn, TypeOK, RequestStates, FinisherStates
<1>7. CASE ReconcileReturns
  <2>1. CASE Restart
    BY <1>7, <2>1 DEF ReconcileReturns, Restart, TypeOK, Phases
  <2>2. CASE Resolve
    BY <1>6, <1>7, <2>2 DEF ReconcileReturns, Resolve, TypeOK, Phases
  <2> QED  BY <1>7, <2>1, <2>2 DEF ReconcileReturns
<1>8. CASE Reject
  BY <1>6, <1>8 DEF Reject, TypeOK, Phases
<1>9. ASSUME NEW k \in Keys, AddToQueue(k) PROVE TypeOK'
  BY <1>9, EnqueueKeepsQueue DEF AddToQueue, TypeOK, RequestStates
<1>10. ASSUME NEW k \in Keys, AskForRequest(k) PROVE TypeOK'
  BY <1>10, AskKeepsTypes DEF AskForRequest, TypeOK, RequestStates
<1>11. ASSUME NEW k \in Keys, TakeResult(k) \/ AskAnew(k) PROVE TypeOK'
  BY <1>11 DEF TakeResult, AskAnew, TypeOK, RequestStates
<1>12. ASSUME NEW k \in Keys, starting[k] > 0,
              starting' = [starting EXCEPT ![k] = @ - 1]
       PROVE  starting' \in [Keys -> 0 .. MaxMessages]
  BY <1>1, <1>12 DEF TypeOK
<1>13. ASSUME NEW k \in Keys, Retrieve(k) PROVE TypeOK'
  <2>1. starting' \in [Keys -> 0 .. MaxMessages]
    BY <1>12, <1>13 DEF Retrieve
  <2>2. active' \subseteq Keys /\ holder' \in [Keys -> HolderStates]
    BY <1>13 DEF Retrieve, RetrieveLocked, RetrieveLock, TypeOK, HolderStates
  <2> QED  BY <1>13, <2>1, <2>2 DEF Retrieve, TypeOK
<1>14. ASSUME NEW k \in Keys, ProcessingFails(k) PROVE TypeOK'
  <2>1. starting' \in [Keys -> 0 .. MaxMessages]
    BY <1>12, <1>14 DEF ProcessingFails
  <2> QED  BY <1>1, <1>14, <2>1 DEF ProcessingFails, TypeOK
<1>15. ASSUME NEW k \in Keys, FreeLock(k) PROVE TypeOK'
  BY <1>15 DEF FreeLock, TypeOK, HolderStates
<1>16. ASSUME NEW k \in Keys, SetResult(k) PROVE TypeOK'
  <2>1. queue' \in Seq(Keys) /\ IsInjective(queue')
    BY <1>16, RemoveFirstKeepsQueue DEF SetResult, TypeOK
  <2> QED  BY <1>16, <2>1 DEF SetResult, TypeOK, HolderStates, FinisherStates
<1>17. ASSUME NEW k \in Keys, AskAfterResult(k) PROVE TypeOK'
  BY <1>17, AskKeepsTypes DEF AskAfterResult, TypeOK, FinisherStates
<1>18. ASSUME NEW k \in Keys, ReadDefinition(k) PROVE TypeOK'
  BY <1>18 DEF ReadDefinition, TypeOK, HolderStates
<1> QED
  BY <1>2, <1>3, <1>4, <1>5, <1>7, <1>8, <1>9, <1>10, <1>11, <1>13, <1>14, <1>15,
     <1>16, <1>17, <1>18
  DEF Next, Reconcile

\* Every variable has its type.  A query is queued once at most, however often
\* its client asks and the query is processed, and no key is sent to be
\* processed, and no call of the store throws, more often than bounded.
THEOREM ReconcileTypes == Spec => []TypeOK
BY InitTypes, NextKeepsTypes, PTL DEF Spec
=============================================================================
