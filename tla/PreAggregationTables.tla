------------------------ MODULE PreAggregationTables ------------------------
(***************************************************************************)
(* The tables of one pre-aggregation kept in the source database            *)
(* (PreAggregations.ts).  A table is named after the content it was made of *)
(* (the values of the refresh keys) and the time its request was made.      *)
(* Requests find a table by its content, or by its structure, in a cached   *)
(* list of the tables; where there is none they have one built through a    *)
(* queue.  A build that is done lists the tables anew, drops those nobody    *)
(* needs, and lists them again.                                             *)
(*                                                                         *)
(* The structure of the pre-aggregation does not change, and external        *)
(* storage, forced builds and partitions are left out.  Of the queue        *)
(* (QueryQueue) the model keeps that a content is queued once, under the     *)
(* name its first request gave it, and how a definition leaves: with the     *)
(* result of its build, or by a reconciliation (nobody asked for it, or no    *)
(* heartbeat came), or when executionTimeout has passed.  In the last two    *)
(* cases its build may go on, beside the next one.  A load that fails or     *)
(* whose connection is lost leaves no table.  Which tables count as used    *)
(* (tablesUsed) when orphaned tables are dropped is left open, and so is     *)
(* what a request does with its answer; a request that was answered with    *)
(* the newest table goes on as the refresh it leaves in the background.      *)
(***************************************************************************)
EXTENDS Naturals, FiniteSets

CONSTANTS
    Requests,   \* requests, one after the other in each slot
    Renewing,   \* those with renewQuery, the refresh scheduler's
    Contents,   \* values of the refresh keys
    Concurrency,    \* of the queue; 1 unless queueOptions say otherwise
    MaxBuilds,  \* bound on the definitions added to the queue
    MaxUpsets   \* bound on changes of the refresh keys, failing and crashing
                \* builds, and definitions removed or timed out

ASSUME ContentsAssumption == Contents # {}
ASSUME RenewingAssumption == Renewing \subseteq Requests
ASSUME ConcurrencyAssumption == Concurrency \in Nat \ {0}
ASSUME BoundsAssumption == MaxBuilds \in Nat /\ MaxUpsets \in Nat

VARIABLES
    content,    \* the content the refresh keys stand for now
    tables,     \* the tables the database shows
    loading,    \* those whose data is not complete
    list,       \* the cached list of the tables
    queue,      \* the definitions in the queue: the tables to be built
    build,      \* the builds under way, by the time in their tables' names
    fetch,      \* the query "Fetch tables", shared by all who ask for it
    lock,       \* the lock of dropOrphanedTables
    request,    \* how far a request has come
    made, upsets    \* what is bounded

vars == <<content, tables, loading, list, queue, build, fetch, lock, request, made, upsets>>

Tables == [content : Contents, at : 1 .. MaxBuilds]
NoTable == [content |-> "none", at |-> 0]
NotListed == {NoTable}      \* nothing in the cache
Lists == SUBSET Tables

\* "list" and "end": fetchTables, which a build calls before and after it drops
\* tables, is about to ask the database; "listed" and "ended": it is about to
\* cache the tables.  "dead": only the definition is left.
Phases == {"idle", "loading", "list", "listed", "lock", "drop", "end", "ended", "done", "dead"}
\* ts: the tables to be cached or dropped; whole: when those to be dropped were
\* chosen, all tables had their data.
Builds == [phase : Phases, table : Tables \cup {NoTable}, ts : Lists, whole : BOOLEAN]
Stages == {"idle", "list", "fetch", "state", "keys", "decide", "queued", "created", "reset"}
RequestStates ==
    [stage : Stages, again : BOOLEAN, content : Contents \cup {"none"},
     busy : BOOLEAN, seen : Lists]

TypeOK ==
    /\ content \in Contents
    /\ tables \in Lists
    /\ loading \in SUBSET tables
    /\ list \in Lists \cup {NotListed}
    /\ queue \in Lists /\ \A t, u \in queue : t.content = u.content => t = u
    /\ build \in [1 .. MaxBuilds -> Builds]
    /\ fetch \in [phase : {"idle", "asked", "read"}, seen : Lists]
    /\ lock \in BOOLEAN
    /\ request \in [Requests -> RequestStates]
    /\ made \in 0 .. MaxBuilds /\ upsets \in 0 .. MaxUpsets

NoRequest == [stage |-> "idle", again |-> FALSE, content |-> "none",
              busy |-> FALSE, seen |-> {}]
NoBuild == [phase |-> "idle", table |-> NoTable, ts |-> {}, whole |-> FALSE]
NoFetch == [phase |-> "idle", seen |-> {}]

Init ==
    /\ content = CHOOSE c \in Contents : TRUE
    /\ tables = {} /\ loading = {} /\ queue = {}
    /\ list = NotListed
    /\ build = [b \in 1 .. MaxBuilds |-> NoBuild] /\ fetch = NoFetch
    /\ lock = FALSE
    /\ request = [r \in Requests |-> NoRequest]
    /\ made = 0 /\ upsets = 0

\* The first of the version entries, which are sorted by last_updated_at, if any.
Newest(ts) == {t \in ts : \A u \in ts : u.at <= t.at}
OfContent(ts, c) == {t \in ts : t.content = c}

(***************************************************************************)
(* Requests (loadPreAggregation, loadPreAggregationWithKeys)                *)
(***************************************************************************)
At(r, stage) == request[r].stage = stage
GoTo(r, stage) == request' = [request EXCEPT ![r].stage = stage]

End(r) == request' = [request EXCEPT ![r] = NoRequest]

\* renewQuery: the refresh keys are awaited first; else the tables come first.
Begin(r) ==
    /\ At(r, "idle")
    /\ request' = [request EXCEPT ![r] = [NoRequest EXCEPT !.stage = "list",
                        !.content = IF r \in Renewing THEN content ELSE "none"]]
    /\ UNCHANGED <<content, tables, loading, list, queue, build, fetch, lock, made, upsets>>

JoinFetch == fetch' = IF fetch.phase = "idle" THEN [fetch EXCEPT !.phase = "asked"] ELSE fetch

\* tablesFromCache.
ReadList(r) ==
    /\ At(r, "list")
    /\ IF list # NotListed
       THEN /\ request' = [request EXCEPT ![r] = [@ EXCEPT !.stage = "state", !.seen = list]]
            /\ UNCHANGED fetch
       ELSE GoTo(r, "fetch") /\ JoinFetch
    /\ UNCHANGED <<content, tables, loading, list, queue, build, lock, made, upsets>>

\* Changed: the tables in the queue are not left out.
ReadQueueForStage(r) ==
    /\ At(r, "state")
    /\ request' = [request EXCEPT ![r] = [@ EXCEPT
         !.busy = queue # {} /\ r \notin Renewing,
         !.stage = IF request[r].content = "none" THEN "keys" ELSE "decide"]]
    /\ UNCHANGED <<content, tables, loading, list, queue, build, fetch, lock, made, upsets>>

\* fetchQueryStageState: tables in the queue are left out of the version entries.
ReadQueue(r) ==
    /\ At(r, "state")
    /\ request' = [request EXCEPT ![r] = [@ EXCEPT
         !.seen = request[r].seen \ queue,
         !.busy = queue # {} /\ r \notin Renewing,
         !.stage = IF request[r].content = "none" THEN "keys" ELSE "decide"]]
    /\ UNCHANGED <<content, tables, loading, list, queue, build, fetch, lock, made, upsets>>

\* Without renewQuery they come now, the request having been answered if it can be.
ReadKeys(r) ==
    /\ At(r, "keys")
    /\ request' = [request EXCEPT ![r] = [@ EXCEPT !.stage = "decide", !.content = content]]
    /\ UNCHANGED <<content, tables, loading, list, queue, build, fetch, lock, made, upsets>>

\* Changed: every request has its own table built.
EnqueueOwn(c) ==
    /\ made < MaxBuilds
    /\ made' = made + 1
    /\ queue' = queue \cup {[content |-> c, at |-> made']}

\* executeInQueue, for the table newVersionEntry names.
Enqueue(c) ==
    IF OfContent(queue, c) # {}
    THEN UNCHANGED <<queue, made>>
    ELSE /\ made < MaxBuilds
         /\ made' = made + 1
         /\ queue' = queue \cup {[content |-> c, at |-> made']}

\* Without renewQuery a request leaves a pre-aggregation that was seen in the queue to it.
LeftToQueue(r) == r \notin Renewing /\ request[r].busy /\ request[r].seen # {}

\* Changed: any table of the structure will do.
AnsweredByAny(r) == request[r].seen # {} \/ request[r].again

\* The table of its content is there, or it makes do with the newest one;
\* or the table is "not found after it was successfully created".
Answered(r) ==
    \/ OfContent(request[r].seen, request[r].content) # {}
    \/ request[r].again
    \/ LeftToQueue(r)

Decide(r) ==
    /\ At(r, "decide")
    /\ \/ Answered(r) /\ End(r) /\ UNCHANGED <<queue, made>>
       \/ /\ ~Answered(r)
          /\ Enqueue(request[r].content)
          /\ IF r \in Renewing \/ request[r].seen = {}
             THEN request' = [request EXCEPT ![r] = [@ EXCEPT
                                !.stage = "queued", !.busy = FALSE, !.seen = {}]]
             ELSE End(r)            \* scheduleRefresh
    /\ UNCHANGED <<content, tables, loading, list, build, fetch, lock, upsets>>

\* The bound keeps the request from going on.
OutOfBuilds(r) ==
    /\ At(r, "decide") /\ ~Answered(r)
    /\ made = MaxBuilds /\ OfContent(queue, request[r].content) = {}

\* reset, once the table has been created.
Renew(r) ==
    /\ At(r, "created")
    /\ GoTo(r, "reset") /\ JoinFetch
    /\ UNCHANGED <<content, tables, loading, list, queue, build, lock, made, upsets>>

\* "Continue wait".  (For a request that waits for the list it is no step: the
\* client repeats it, and it waits for the list again.)
TimeOut(r) ==
    /\ \/ request[r].stage \in {"queued", "reset"}
       \/ OutOfBuilds(r)
    /\ End(r)
    /\ UNCHANGED <<content, tables, loading, list, queue, build, fetch, lock, made, upsets>>

(***************************************************************************)
(* "Fetch tables" (getLoadCacheQueue, fetchTables)                          *)
(***************************************************************************)
FetchTables ==
    /\ fetch.phase = "asked"
    /\ fetch' = [phase |-> "read", seen |-> tables]
    /\ UNCHANGED <<content, tables, loading, list, queue, build, lock, request, made, upsets>>

\* The list is cached, and everybody who waited for it goes on with it.
CacheTables ==
    /\ fetch.phase = "read"
    /\ list' = fetch.seen
    /\ fetch' = NoFetch
    /\ request' = [r \in Requests |->
         CASE At(r, "fetch") -> [request[r] EXCEPT !.stage = "state", !.seen = fetch.seen]
           [] At(r, "reset") -> [request[r] EXCEPT !.stage = "list", !.again = TRUE]
           [] OTHER -> request[r]]
    /\ UNCHANGED <<content, tables, loading, queue, build, lock, made, upsets>>

(***************************************************************************)
(* Builds (refreshImplStoreInSourceStrategy, dropOrphanedTables)            *)
(***************************************************************************)
Building(b, phase) == build[b].phase = phase
UnderWay(b) == build[b].phase \notin {"idle", "dead"}
BuildGoesTo(b, phase) == build' = [build EXCEPT ![b].phase = phase]

\* The build's result is set and its definition leaves the queue, and who waited
\* for it gets to know; unless the definition has left the queue before.
Settle(t, stage) ==
    IF t \in queue
    THEN /\ queue' = queue \ {t}
         /\ request' = [r \in Requests |->
              IF At(r, "queued") /\ request[r].content = t.content
              THEN IF stage = "idle" THEN NoRequest ELSE [request[r] EXCEPT !.stage = stage]
              ELSE request[r]]
    ELSE UNCHANGED <<queue, request>>

\* Those that hold a place in ACTIVE.
ActiveBuilds == {b \in DOMAIN build : build[b].table \in queue}

\* loadPreAggregationIntoTable: the database shows the table before it is loaded.
Load(b) ==
    /\ Building(b, "idle")
    /\ Cardinality(ActiveBuilds) < Concurrency
    /\ \E t \in queue :
         /\ t.at = b
         /\ tables' = tables \cup {t}
         /\ loading' = loading \cup {t}
         /\ build' = [build EXCEPT ![b] =
                        [NoBuild EXCEPT !.phase = "loading", !.table = t]]
    /\ UNCHANGED <<content, list, queue, fetch, lock, request, made, upsets>>

\* ... and createIndexes.
Loaded(b) ==
    /\ Building(b, "loading")
    /\ loading' = loading \ {build[b].table}
    /\ BuildGoesTo(b, "list")
    /\ UNCHANGED <<content, tables, list, queue, fetch, lock, request, made, upsets>>

\* fetchTables asks the database ...
BuildLists(b) ==
    /\ \E from \in {"list", "end"} :
         /\ Building(b, from)
         /\ build' = [build EXCEPT ![b].phase = IF from = "list" THEN "listed" ELSE "ended",
                                   ![b].ts = tables]
    /\ UNCHANGED <<content, tables, loading, list, queue, fetch, lock, request, made, upsets>>

\* ... and caches its answer, which another build may have made stale.
BuildCaches(b) ==
    /\ \E from \in {"listed", "ended"} :
         /\ Building(b, from)
         /\ build' = [build EXCEPT ![b].phase = IF from = "listed" THEN "lock" ELSE "done",
                                   ![b].ts = {}]
    /\ list' = build[b].ts
    /\ UNCHANGED <<content, tables, loading, queue, fetch, lock, request, made, upsets>>

\* Changed: the newest table is taken to be the one just created.
SaveUsedAndCreated(b, used) == used \cup {build[b].table}

\* Beside the tables in use, the newest one and the one just created are saved.
TablesToSave(b, used) == used \cup Newest(tables) \cup {build[b].table}

\* withLock: without the lock nothing is dropped.
DropOrphaned(b) ==
    /\ Building(b, "lock")
    /\ lock' = TRUE
    /\ \/ lock /\ BuildGoesTo(b, "end")
       \/ /\ ~lock
          /\ \E used \in SUBSET tables :
               build' = [build EXCEPT ![b] = [@ EXCEPT
                 !.phase = "drop", !.ts = tables \ TablesToSave(b, used),
                 !.whole = loading = {}]]
    /\ UNCHANGED <<content, tables, loading, list, queue, fetch, request, made, upsets>>

\* A table that is still being loaded is locked until it is there.
DropTable(b) ==
    /\ Building(b, "drop")
    /\ \E t \in (build[b].ts \cap tables) \ loading :
         /\ tables' = tables \ {t}
         /\ build' = [build EXCEPT ![b].ts = @ \ {t}]
    /\ UNCHANGED <<content, loading, list, queue, fetch, lock, request, made, upsets>>

FreeLock(b) ==
    /\ Building(b, "drop") /\ build[b].ts = {}
    /\ lock' = FALSE
    /\ build' = [build EXCEPT ![b] = [@ EXCEPT !.phase = "end", !.whole = FALSE]]
    /\ UNCHANGED <<content, tables, loading, list, queue, fetch, request, made, upsets>>

FinishBuild(b) ==
    /\ Building(b, "done")
    /\ Settle(build[b].table, "created")
    /\ build' = [build EXCEPT ![b] = NoBuild]
    /\ UNCHANGED <<content, tables, loading, list, fetch, lock, made, upsets>>

Upset == upsets < MaxUpsets /\ upsets' = upsets + 1
HoldsLock(b) == Building(b, "drop")

\* What becomes of the table of a build that stops: a load that is interrupted
\* leaves nothing, one that only lacks its indexes leaves the table.
Abandon(b) ==
    IF Building(b, "loading")
    THEN /\ tables' \in {tables, tables \ {build[b].table}}
         /\ loading' = loading \ {build[b].table}
    ELSE UNCHANGED <<tables, loading>>

\* A call to the database throws: the lock is freed, the waiting get the error.
Fail(b) ==
    /\ Abandon(b)
    /\ lock' = (lock /\ ~HoldsLock(b))
    /\ Settle(build[b].table, "idle")
    /\ build' = [build EXCEPT ![b] = NoBuild]
    /\ UNCHANGED <<content, list, fetch, made>>

\* (A build whose definition was removed or has timed out is cancelled, where the
\* driver can: that failure comes without an upset of its own.)
BuildFails(b) ==
    /\ UnderWay(b) /\ ~Building(b, "done")
    /\ Upset \/ (build[b].table \notin queue /\ UNCHANGED upsets)
    /\ Fail(b)

\* A table that is to be dropped is there no more (its load has failed).
DropFails(b) ==
    /\ Building(b, "drop") /\ ~ build[b].ts \subseteq tables
    /\ Fail(b)
    /\ UNCHANGED upsets

\* The process that builds dies.
Crash(b) ==
    /\ UnderWay(b)
    /\ Upset
    /\ Abandon(b)
    /\ build' = [build EXCEPT ![b] =
         IF build[b].table \in queue THEN [NoBuild EXCEPT !.phase = "dead", !.table = build[b].table]
                              ELSE NoBuild]
    /\ UNCHANGED <<content, list, queue, fetch, lock, request, made>>

\* A reconciliation of the queue removes the stalled definition; nobody is told.
Reclaim(b) ==
    /\ Building(b, "dead")
    /\ queue' = queue \ {build[b].table}
    /\ build' = [build EXCEPT ![b] = NoBuild]
    /\ UNCHANGED <<content, tables, loading, list, fetch, lock, request, made, upsets>>

\* ... and it removes a definition that nobody has asked for during
\* orphanedTimeout, whether its build has not begun or is under way and goes on.
Orphan(t) ==
    /\ \A r \in Requests : ~(At(r, "queued") /\ request[r].content = t.content)
    /\ build[t.at].phase # "dead"
    /\ Upset
    /\ queue' = queue \ {t}
    /\ UNCHANGED <<content, tables, loading, list, build, fetch, lock, request, made>>

\* executionTimeout: the waiting get an error, and the build goes on.
ExecutionTimesOut(b) ==
    /\ UnderWay(b) /\ build[b].table \in queue
    /\ Upset
    /\ Settle(build[b].table, "idle")
    /\ UNCHANGED <<content, tables, loading, list, build, fetch, lock, made>>

(***************************************************************************)
(* Time                                                                    *)
(***************************************************************************)
ChangeContent ==
    /\ Upset
    /\ \E c \in Contents \ {content} : content' = c
    /\ UNCHANGED <<tables, loading, list, queue, build, fetch, lock, request, made>>

ExpireList ==
    /\ list # NotListed
    /\ list' = NotListed
    /\ UNCHANGED <<content, tables, loading, queue, build, fetch, lock, request, made, upsets>>

\* The lock outlives its holder by at most five minutes.
ExpireLock ==
    /\ lock /\ \A b \in DOMAIN build : ~HoldsLock(b)
    /\ lock' = FALSE
    /\ UNCHANGED <<content, tables, loading, list, queue, build, fetch, request, made, upsets>>

RequestStep(r) ==
    ReadList(r) \/ ReadQueue(r) \/ ReadKeys(r) \/ Decide(r) \/ Renew(r)
BuildStep(b) ==
    \/ Load(b) \/ Loaded(b) \/ BuildLists(b) \/ BuildCaches(b) \/ DropOrphaned(b)
    \/ DropTable(b) \/ DropFails(b) \/ FreeLock(b) \/ FinishBuild(b)

Next ==
    \/ \E r \in Requests : Begin(r) \/ RequestStep(r) \/ TimeOut(r)
    \/ FetchTables \/ CacheTables
    \/ \E b \in 1 .. MaxBuilds :
         BuildStep(b) \/ BuildFails(b) \/ Crash(b) \/ Reclaim(b) \/ ExecutionTimesOut(b)
    \/ \E t \in queue : Orphan(t)
    \/ ChangeContent \/ ExpireList \/ ExpireLock

Spec == Init /\ [][Next]_vars

(***************************************************************************)
(* Fairness: tables are listed, builds go on and what has died is reclaimed,*)
(* the cached list expires; and the refresh scheduler asks again and again.  *)
(* Other requests may come or not.  (The steps under one WF are of different*)
(* stages or phases.)                                                       *)
(***************************************************************************)
FairSpec ==
    /\ Spec
    /\ \A r \in Renewing : WF_vars(Begin(r) \/ RequestStep(r) \/ TimeOut(r))
    /\ WF_vars(FetchTables \/ CacheTables)
    /\ \A b \in 1 .. MaxBuilds : WF_vars(BuildStep(b) \/ Reclaim(b))
    /\ WF_vars(ExpireList)

(***************************************************************************)
(* Properties                                                              *)
(***************************************************************************)
\* No request chooses from tables that are still being loaded for the queue,
\* although the database shows them and lists are read and cached meanwhile: the
\* queue is read after the list (calculateVersionEntries).  (A load whose
\* definition has left the queue before it ended is not hidden by that.)
NotBeingLoaded ==
    \A r \in Requests : request[r].stage \in {"keys", "decide"} =>
                          request[r].seen \cap loading \cap queue = {}

\* A table that holds all its data is dropped only when a newer one has its data
\* too, whichever definition was built first, failed, was removed or is loaded by
\* the next build meanwhile (dropOrphanedTables); unless the tables to be dropped
\* were chosen while another build, whose table may be the newest, was loading.
ReplacedFirst ==
    [][\A t \in tables \ loading :
         \/ t \in tables'
         \/ \E u \in tables' \ loading' : u.at > t.at
         \/ \E b \in DOMAIN build : HoldsLock(b) /\ ~build[b].whole]_vars

\* When the refresh keys stop changing, a table of their content is there for
\* good, although lists are stale, builds fail, processes die and requests give
\* up: the refresh scheduler brings it about (loadPreAggregationWithKeys).
\* (Unless the bound keeps a request from having it built.)
EventuallyCurrent ==
    \/ <>[](OfContent(tables \ loading, content) # {})
    \/ <>(\E r \in Requests : OutOfBuilds(r))
=============================================================================
