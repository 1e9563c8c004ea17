--------------------------- MODULE ResultHandOff ---------------------------
(***************************************************************************)
(* How the result of one query reaches the requests that wait for it.      *)
(*                                                                         *)
(* RedisQueueDriver keeps a list per query.  An execution LPUSHes its      *)
(* result; a request BRPOPs it, LPUSHes it again for whoever else waits,   *)
(* and RPOPs the list once more.  A push serves the client that has been   *)
(* blocked longest and reaches the list only if nobody is blocked.         *)
(*                                                                         *)
(* LocalQueueDriver keeps a promise per query, which all waiting requests  *)
(* race against a time-out and then delete.  A resolved promise nobody has *)
(* taken keeps its value; it is the one element `list` can have.           *)
(*                                                                         *)
(* Results are numbered in the order they are set.  QueueStore abstracts   *)
(* all of this to "there is a result".                                     *)
(***************************************************************************)
EXTENDS Naturals, FiniteSets, SequencesExt

CONSTANTS
    Clients,      \* requests for this query
    MaxResults    \* bound on executions

ASSUME ClientsAssumption == IsFiniteSet(Clients) /\ Clients # {}
ASSUME ResultsAssumption == MaxResults \in Nat

VARIABLES
    driver,      \* "redis" or "local" (cacheAndQueueDriver), fixed at the start
    queued,      \* the query has a definition: it waits or is executed
    list,        \* the result list, the next result to be taken last
    blocked,     \* the clients in BRPOP, or that await the promise
    promise,     \* local: resultPromises has an entry
    set,         \* the number of results set so far
    pc,          \* where a request is
    got,         \* the result a request holds or was answered with, or 0
    answered,    \* local: the newest result any request was answered with
    answeredBefore, \* answered, as it was when the request began
    owed,        \* until disturbed: the requests that were blocked when a result was set
    disturbed    \* a request has timed out or crashed

vars == <<driver, queued, list, blocked, promise, set, pc, got, answered,
          answeredBefore, owed, disturbed>>

Results == 1 .. MaxResults
Pcs == {"idle", "missed", "added", "checked", "blocked", "handing", "handed",
        "answered", "waitError"}

TypeOK ==
    /\ driver \in {"redis", "local"}
    /\ queued \in BOOLEAN /\ promise \in BOOLEAN /\ disturbed \in BOOLEAN
    /\ list \in Seq(Results)
    /\ blocked \in Seq(Clients) /\ IsInjective(blocked)
    /\ set \in 0 .. MaxResults
    /\ pc \in [Clients -> Pcs]
    /\ got \in [Clients -> 0 .. MaxResults]
    /\ answered \in 0 .. MaxResults
    /\ answeredBefore \in [Clients -> 0 .. MaxResults]
    /\ owed \subseteq Clients
    /\ \A c \in Clients : pc[c] = "blocked" <=> Contains(blocked, c)

Init ==
    /\ driver \in {"redis", "local"}
    /\ queued = FALSE /\ promise = FALSE /\ disturbed = FALSE
    /\ list = <<>> /\ blocked = <<>>
    /\ set = 0
    /\ pc = [c \in Clients |-> "idle"]
    /\ got = [c \in Clients |-> 0]
    /\ answered = 0
    /\ answeredBefore = got
    /\ owed = {}

(***************************************************************************)
(* What the drivers do to the store, and to the clients it serves.         *)
(***************************************************************************)
\* History of the local driver, for NotAnsweredAgain.
Newest(S) == IF driver = "local" THEN Max(S \cup {answered}) ELSE 0

\* RPOP by c, which ends in state found or missing.
Pop(c, found, missing) ==
    /\ UNCHANGED <<queued, blocked, set, owed>>
    /\ IF list = <<>>
       THEN /\ pc' = [pc EXCEPT ![c] = missing]
            /\ UNCHANGED <<list, promise, got, answered>>
       ELSE /\ pc' = [pc EXCEPT ![c] = found]
            /\ got' = [got EXCEPT ![c] = Last(list)]
            /\ answered' = IF found = "answered" THEN Newest({Last(list)}) ELSE answered
            /\ list' = Front(list)
            /\ promise' = FALSE

\* Mutant: the client that is served stays blocked.
PushKeepsBlocked(v, p, g) ==
    IF blocked = <<>>
    THEN list' = <<v>> \o list /\ pc' = p /\ got' = g /\ UNCHANGED blocked
    ELSE /\ pc' = [p EXCEPT ![Head(blocked)] = "handing"]
         /\ got' = [g EXCEPT ![Head(blocked)] = v]
         /\ UNCHANGED <<list, blocked>>

\* LPUSH by a step that otherwise leaves pc = p and got = g: the client that
\* has been blocked longest gets v, or the list does.
Push(v, p, g) ==
    IF blocked = <<>>
    THEN list' = <<v>> \o list /\ pc' = p /\ got' = g /\ UNCHANGED blocked
    ELSE /\ blocked' = Tail(blocked)
         /\ pc' = [p EXCEPT ![Head(blocked)] = "handing"]
         /\ got' = [g EXCEPT ![Head(blocked)] = v]
         /\ UNCHANGED list

\* The promise is resolved: all who wait go on and delete it.  If nobody
\* waits it keeps the value, and resolving it once more changes nothing.
ResolvePromise(v) ==
    IF blocked = <<>>
    THEN /\ list' = IF list = <<>> THEN <<v>> ELSE list
         /\ promise' = TRUE
         /\ UNCHANGED <<blocked, pc, got, answered>>
    ELSE /\ blocked' = <<>>
         /\ promise' = FALSE
         /\ pc' = [c \in Clients |-> IF Contains(blocked, c) THEN "answered" ELSE pc[c]]
         /\ got' = [c \in Clients |-> IF Contains(blocked, c) THEN v ELSE got[c]]
         /\ answered' = Newest({v})
         /\ UNCHANGED list

(***************************************************************************)
(* executeInQueue                                                          *)
(***************************************************************************)
\* Mutant: the result stays for later requests.
FirstLookKeeps(c) ==
    /\ pc[c] = "idle"
    /\ pc' = [pc EXCEPT ![c] = IF list = <<>> THEN "missed" ELSE "answered"]
    /\ got' = IF list = <<>> THEN got ELSE [got EXCEPT ![c] = Last(list)]
    /\ answered' = IF list = <<>> THEN answered ELSE Newest({Last(list)})
    /\ answeredBefore' = [answeredBefore EXCEPT ![c] = answered]
    /\ UNCHANGED <<queued, list, blocked, promise, set, owed>>

\* getResult, before the query is added.  (With the local driver a resolved promise
\* is looked at and deleted a few microtasks apart: those who look in between get
\* the same result, here they find none.)
FirstLook(c) ==
    /\ pc[c] = "idle"
    /\ Pop(c, "answered", "missed")
    /\ answeredBefore' = [answeredBefore EXCEPT ![c] = answered]

AddToQueue(c) ==
    /\ pc[c] = "missed"
    /\ queued' = TRUE
    /\ pc' = [pc EXCEPT ![c] = "added"]
    /\ UNCHANGED <<list, blocked, promise, set, got, answered, answeredBefore, owed>>

\* getResultBlocking (Redis): HGET; without a definition just look for a result.
CheckDefinition(c) ==
    /\ driver = "redis" /\ pc[c] = "added"
    /\ IF queued
       THEN /\ pc' = [pc EXCEPT ![c] = "checked"]
            /\ UNCHANGED <<queued, list, blocked, promise, set, got, answered, owed>>
       ELSE Pop(c, "answered", "waitError")
    /\ UNCHANGED answeredBefore

\* Mutant: the result is read and stays in the list.
BlockPeeks(c) ==
    /\ pc[c] = "checked"
    /\ IF list = <<>>
       THEN /\ blocked' = Append(blocked, c)
            /\ pc' = [pc EXCEPT ![c] = "blocked"]
            /\ UNCHANGED got
       ELSE /\ pc' = [pc EXCEPT ![c] = "handing"]
            /\ got' = [got EXCEPT ![c] = Last(list)]
            /\ UNCHANGED blocked
    /\ UNCHANGED <<queued, list, promise, set, answered, answeredBefore, owed>>

\* BRPOP
Block(c) ==
    /\ pc[c] = "checked"
    /\ IF list = <<>>
       THEN /\ blocked' = Append(blocked, c)
            /\ pc' = [pc EXCEPT ![c] = "blocked"]
            /\ UNCHANGED <<queued, list, promise, set, got, answered, owed>>
       ELSE Pop(c, "handing", "blocked")
    /\ UNCHANGED answeredBefore

\* Mutant: the result is kept.
HandBackNothing(c) ==
    /\ pc[c] = "handing"
    /\ pc' = [pc EXCEPT ![c] = "handed"]
    /\ UNCHANGED <<queued, list, blocked, promise, set, got, answered,
                   answeredBefore, owed>>

\* LPUSH the result for the other clients that are blocked.
HandBack(c) ==
    /\ pc[c] = "handing"
    /\ Push(got[c], [pc EXCEPT ![c] = "handed"], got)
    /\ UNCHANGED <<queued, promise, set, answered, answeredBefore, owed>>

\* RPOP; the request is answered with what it had taken before.
DropSpare(c) ==
    /\ pc[c] = "handed"
    /\ pc' = [pc EXCEPT ![c] = "answered"]
    /\ list' = IF list = <<>> THEN list ELSE Front(list)
    /\ answered' = Newest({got[c]})
    /\ UNCHANGED <<queued, blocked, promise, set, got, answeredBefore, owed>>

\* getResultBlocking (local): no await before the race with the time-out.
AwaitPromise(c) ==
    /\ driver = "local" /\ pc[c] = "added"
    /\ IF list = <<>> /\ (queued \/ promise)
       THEN /\ blocked' = Append(blocked, c)
            /\ promise' = TRUE
            /\ pc' = [pc EXCEPT ![c] = "blocked"]
            /\ UNCHANGED <<queued, list, set, got, answered, owed>>
       ELSE Pop(c, "answered", "waitError")
    /\ UNCHANGED answeredBefore

\* continueWaitTimeout passes: ContinueWaitError.  A promise stays.
TimeOut(c) ==
    /\ pc[c] = "blocked"
    /\ disturbed' = TRUE
    /\ pc' = [pc EXCEPT ![c] = "waitError"]
    /\ blocked' = RemoveFirst(blocked, c)
    /\ owed' = {}
    /\ UNCHANGED <<driver, queued, list, promise, set, got, answered, answeredBefore>>

\* The client asks again, or for the next time.
NextRequest(c) ==
    /\ pc[c] \in {"answered", "waitError"}
    /\ pc' = [pc EXCEPT ![c] = "idle"]
    /\ got' = [got EXCEPT ![c] = 0]
    /\ answeredBefore' = [answeredBefore EXCEPT ![c] = 0]
    /\ owed' = owed \ {c}
    /\ UNCHANGED <<queued, list, blocked, promise, set, answered>>

\* The process of a request stops, with a result in its hands perhaps.
Crash(c) ==
    /\ driver = "redis"   \* the local store would be gone as well
    /\ pc[c] \notin {"idle", "answered"}
    /\ disturbed' = TRUE
    /\ pc' = [pc EXCEPT ![c] = "idle"]
    /\ got' = [got EXCEPT ![c] = 0]
    /\ blocked' = RemoveFirst(blocked, c)
    /\ owed' = {}
    /\ UNCHANGED <<driver, queued, list, promise, set, answered, answeredBefore>>

\* An execution ends: setResultAndRemoveQuery.
SetResult ==
    /\ queued
    /\ set < MaxResults
    /\ queued' = FALSE
    /\ set' = set + 1
    /\ owed' = IF disturbed THEN {} ELSE owed \cup Range(blocked)
    /\ \/ driver = "redis" /\ Push(set + 1, pc, got) /\ UNCHANGED <<promise, answered>>
       \/ driver = "local" /\ ResolvePromise(set + 1)
    /\ UNCHANGED answeredBefore

\* getQueryAndRemove: the query is reclaimed or cancelled without a result.
RemoveQuery ==
    /\ queued
    /\ queued' = FALSE
    /\ UNCHANGED <<list, blocked, promise, set, pc, got, answered,
                   answeredBefore, owed>>

RequestStep(c) ==
    \/ FirstLook(c) \/ AddToQueue(c) \/ CheckDefinition(c) \/ Block(c)
    \/ HandBack(c) \/ DropSpare(c) \/ AwaitPromise(c)

Undisturbed ==
    \/ SetResult \/ RemoveQuery
    \/ \E c \in Clients : RequestStep(c) \/ NextRequest(c)

Next ==
    \/ Undisturbed /\ UNCHANGED <<driver, disturbed>>
    \/ \E c \in Clients : TimeOut(c) \/ Crash(c)

Spec == Init /\ [][Next]_vars

\* A request that has begun goes on.  Nothing is assumed of executions.
FairSpec == Spec /\ \A c \in Clients : WF_vars(RequestStep(c) /\ UNCHANGED <<driver, disturbed>>)
-----------------------------------------------------------------------------
InHands == {c \in Clients : pc[c] = "handing"}

\* No result is in two places: it is on its way to one request, or once in
\* the list.  (A request that has handed its result back only returns it.)
OneCopy ==
    /\ IsInjective(list)
    /\ \A c \in InHands : ~ Contains(list, got[c])
    /\ \A c, d \in InHands : got[c] = got[d] => c = d

\* With the local driver a result that answered a request is not given to a
\* request that began after that, and neither is an older one, whatever
\* promises time-outs have left behind.
NotAnsweredAgain ==
    driver = "local" => \A c \in Clients : pc[c] = "answered" => got[c] > answeredBefore[c]

\* As long as no request times out or crashes, every request that was waiting
\* when a result was set is answered without another execution.
WaitersAreServed ==
    \A c \in Clients : c \in owed ~> (pc[c] = "answered" \/ disturbed)
=============================================================================
