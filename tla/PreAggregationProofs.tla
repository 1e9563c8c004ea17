------------------------ MODULE PreAggregationProofs ------------------------
(***************************************************************************)
(* TypeOK, NotBeingLoaded and ReplacedFirst of PreAggregationTables, for    *)
(* every set of requests and contents and every bound.                      *)
(***************************************************************************)
EXTENDS PreAggregationTables, WellFoundedInduction, TLAPS

Stamps == 1 .. MaxBuilds

\* A build has the table of its time from its beginning to its end, and no other
\* definition of that time is left in the queue.
BuildsHaveTables ==
    /\ \A b \in Stamps :
         IF Building(b, "idle")
         THEN build[b].table = NoTable
         ELSE build[b].table \in Tables /\ build[b].table.at = b /\ b <= made
    /\ \A t \in queue : Building(t.at, "idle") \/ build[t.at].table = t
    /\ \A t, u \in queue : t.at = u.at => t = u

\* What is being loaded is what the builds load.
LoadingIsBuilt ==
    /\ \A t \in loading : Building(t.at, "loading") /\ build[t.at].table = t
    /\ \A b \in Stamps : Building(b, "loading") => build[b].table \in loading

\* One build at a time drops tables.
DropperHasLock ==
    /\ \A b \in Stamps : HoldsLock(b) => lock
    /\ \A b, c \in Stamps : HoldsLock(b) /\ HoldsLock(c) => b = c

\* A table newer than what a build is to drop has its data and is not to be dropped.
DropsAreReplaced ==
    \A b \in Stamps : HoldsLock(b) /\ build[b].whole =>
        \A t \in build[b].ts :
            \E u \in tables \ loading : u \notin build[b].ts /\ u.at > t.at

TablesInv == BuildsHaveTables /\ LoadingIsBuilt /\ DropperHasLock /\ DropsAreReplaced

\* A definition whose build has not begun is in no list anybody has seen.
Waiting == {t \in queue : Building(t.at, "idle")}
WaitingAreUnseen ==
    /\ Waiting \cap tables = {}
    /\ Waiting \cap list = {}
    /\ Waiting \cap fetch.seen = {}
    /\ \A r \in Requests : Waiting \cap request[r].seen = {}
    /\ \A b \in Stamps : Waiting \cap build[b].ts = {}

\* A request decides with the refresh keys' values at hand.
KeysAreKnown ==
    \A r \in Requests : At(r, "decide") => request[r].content \in Contents

\* The times of all tables have been given out.
Past(ts) == \A t \in ts : t.at <= made
TimesArePast ==
    /\ Past(tables) /\ Past(queue) /\ Past(list) /\ Past(fetch.seen)
    /\ \A r \in Requests : Past(request[r].seen)
    /\ \A b \in Stamps : Past(build[b].ts)

SeenInv == WaitingAreUnseen /\ KeysAreKnown /\ TimesArePast /\ NotBeingLoaded

TablesOK == TypeOK /\ TablesInv /\ SeenInv

LEMMA TablesAreNotNone == NoTable \notin Tables
BY BoundsAssumption DEF NoTable, Tables

LEMMA InitTablesOK == Init => TablesOK
<1> SUFFICES ASSUME Init PROVE TablesOK
  OBVIOUS
<1> USE DEF Init, NoBuild, NoFetch, NoRequest, At, Building
<1>1. content \in Contents
  BY ContentsAssumption
<1>2. made \in 0 .. MaxBuilds /\ upsets \in 0 .. MaxUpsets
  BY BoundsAssumption
<1>3. /\ build \in [Stamps -> Builds] /\ \A b \in Stamps : build[b] = NoBuild
      /\ request \in [Requests -> RequestStates]
  BY DEF Phases, Stages, Lists, RequestStates, Stamps, Builds
<1>4. TypeOK
  BY <1>1, <1>2, <1>3 DEF TypeOK, Lists, Stamps
<1>5. TablesInv
  BY <1>3 DEF TablesInv, BuildsHaveTables, LoadingIsBuilt, DropperHasLock, DropsAreReplaced,
              HoldsLock
<1>6. SeenInv
  BY <1>3, BoundsAssumption
     DEF SeenInv, WaitingAreUnseen, Waiting, Building, KeysAreKnown, TimesArePast, Past,
         NotListed, NoTable, NotBeingLoaded
<1> QED
  BY <1>4, <1>5, <1>6 DEF TablesOK

\* TablesInv speaks of the tables, the queue and its builds only.
LEMMA TablesInvFrame ==
    ASSUME TablesInv, UNCHANGED <<tables, loading, queue, build, made>>,
           UNCHANGED lock \/ \A b \in Stamps : ~HoldsLock(b)
    PROVE  TablesInv'
BY DEF TablesInv, BuildsHaveTables, LoadingIsBuilt, DropperHasLock, DropsAreReplaced,
       HoldsLock, Building

(***************************************************************************)
(* Requests                                                                *)
(***************************************************************************)
\* A request moves on to q, and perhaps asks for the list of tables.
LEMMA MovesOn ==
    ASSUME TablesOK, NEW r \in Requests, NEW q \in RequestStates,
           request' = [request EXCEPT ![r] = q],
           Waiting \cap q.seen = {}, Past(q.seen),
           q.stage \in {"keys", "decide"} => q.seen \cap loading \cap queue = {},
           q.stage = "decide" => q.content \in Contents,
           UNCHANGED fetch \/ JoinFetch,
           UNCHANGED <<content, tables, loading, list, queue, build, lock, made, upsets>>
    PROVE  TablesOK'
<1> USE DEF TablesOK
<1>1. TablesInv'
  BY TablesInvFrame
<1>2. fetch' \in [phase : {"idle", "asked", "read"}, seen : Lists] /\ fetch'.seen = fetch.seen
  BY DEF JoinFetch, TypeOK
<1>3. request' \in [Requests -> RequestStates]
  BY DEF TypeOK
<1>4. TypeOK'
  BY <1>2, <1>3 DEF TypeOK
<1>5. \A s \in Requests : request'[s] = IF s = r THEN q ELSE request[s]
  BY DEF TypeOK
<1>6. SeenInv'
  BY <1>2, <1>5 DEF SeenInv, WaitingAreUnseen, Waiting, Building, KeysAreKnown, TimesArePast, Past,
                    NotBeingLoaded, At
<1> QED
  BY <1>1, <1>4, <1>6

\* The steps of a request that leave the queue alone.
LEMMA RequestKeepsInv ==
    ASSUME TablesOK, NEW r \in Requests,
           Begin(r) \/ ReadList(r) \/ ReadQueue(r) \/ ReadKeys(r) \/ Renew(r) \/ TimeOut(r)
    PROVE  TablesOK'
<1> USE DEF RequestStates, Stages
<1>1. /\ request[r] \in RequestStates /\ content \in Contents /\ queue \in Lists
      /\ list \in Lists \cup {NotListed}
  BY DEF TablesOK, TypeOK
<1>2. /\ Waiting \cap request[r].seen = {} /\ Waiting \cap list = {}
      /\ Past(request[r].seen) /\ Past(list)
      /\ At(r, "keys") => request[r].seen \cap loading \cap queue = {}
  BY DEF TablesOK, SeenInv, WaitingAreUnseen, TimesArePast, Past, NotBeingLoaded, At
<1>4. CASE Begin(r)
  <2> DEFINE q == [NoRequest EXCEPT !.stage = "list",
                        !.content = IF r \in Renewing THEN content ELSE "none"]
  <2>1. q \in RequestStates /\ q.seen = {} /\ q.stage = "list"
    BY <1>1 DEF NoRequest, Lists
  <2>2. Past(q.seen)
    BY <2>1 DEF Past
  <2>3. /\ request' = [request EXCEPT ![r] = q]
        /\ UNCHANGED <<content, tables, loading, list, queue, build, fetch, lock, made, upsets>>
    BY <1>4 DEF Begin
  <2> HIDE DEF q
  <2> QED
    BY <2>1, <2>2, <2>3, MovesOn
<1>5. CASE ReadList(r)
  <2>1. CASE list # NotListed
    <3> DEFINE q == [request[r] EXCEPT !.stage = "state", !.seen = list]
    <3>1. q \in RequestStates /\ q.seen = list /\ q.stage = "state"
      BY <1>1, <2>1
    <3> QED
      BY <1>2, <1>5, <2>1, <3>1, MovesOn DEF ReadList
  <2>2. CASE list = NotListed
    <3> DEFINE q == [request[r] EXCEPT !.stage = "fetch"]
    <3>1. q \in RequestStates /\ q.seen = request[r].seen /\ q.stage = "fetch"
      BY <1>1
    <3> QED
      BY <1>2, <1>5, <2>2, <3>1, MovesOn DEF ReadList, GoTo
  <2> QED
    BY <2>1, <2>2
<1>6. CASE ReadQueue(r)
  <2> DEFINE q == [request[r] EXCEPT
                     !.seen = request[r].seen \ queue,
                     !.busy = queue # {} /\ r \notin Renewing,
                     !.stage = IF request[r].content = "none" THEN "keys" ELSE "decide"]
  <2>1. /\ q \in RequestStates /\ q.seen = request[r].seen \ queue
        /\ q.stage = "decide" => q.content \in Contents
    BY <1>1 DEF Lists
  <2>2. Waiting \cap q.seen = {} /\ q.seen \cap queue = {} /\ Past(q.seen)
    BY <1>2, <2>1 DEF Past
  <2>3. /\ request' = [request EXCEPT ![r] = q]
        /\ UNCHANGED <<content, tables, loading, list, queue, build, fetch, lock, made, upsets>>
    BY <1>6 DEF ReadQueue
  <2> HIDE DEF q
  <2> QED
    BY <2>1, <2>2, <2>3, MovesOn
<1>7. CASE ReadKeys(r)
  <2> DEFINE q == [request[r] EXCEPT !.stage = "decide", !.content = content]
  <2>1. q \in RequestStates /\ q.seen = request[r].seen /\ q.content = content
    BY <1>1
  <2> QED
    BY <1>1, <1>2, <1>7, <2>1, MovesOn DEF ReadKeys
<1>8. CASE Renew(r)
  <2> DEFINE q == [request[r] EXCEPT !.stage = "reset"]
  <2>1. q \in RequestStates /\ q.seen = request[r].seen /\ q.stage = "reset"
    BY <1>1
  <2> QED
    BY <1>2, <1>8, <2>1, MovesOn DEF Renew, GoTo
<1>9. CASE TimeOut(r)
  <2>1. NoRequest \in RequestStates /\ NoRequest.seen = {} /\ NoRequest.stage = "idle"
    BY DEF NoRequest, Lists
  <2>2. Past(NoRequest.seen)
    BY <2>1 DEF Past
  <2> QED
    BY <1>9, <2>1, <2>2, MovesOn DEF TimeOut, End
<1> QED
  BY <1>4, <1>5, <1>6, <1>7, <1>8, <1>9

\* A definition that is added is in no list yet: its time is new.
LEMMA AddedKeepsInv ==
    ASSUME TablesOK, NEW c \in Contents, OfContent(queue, c) = {}, Enqueue(c),
           NEW r \in Requests, NEW q \in RequestStates,
           q.seen = {}, q.stage \notin {"keys", "decide"},
           request' = [request EXCEPT ![r] = q],
           UNCHANGED <<content, tables, loading, list, build, fetch, lock, upsets>>
    PROVE  TablesOK'
<1> DEFINE t == [content |-> c, at |-> made + 1]
<1> USE DEF TablesOK
<1>1. /\ made < MaxBuilds /\ made' = made + 1 /\ queue' = queue \cup {t}
      /\ made \in 0 .. MaxBuilds
  BY DEF Enqueue, TypeOK
<1>2. t \in Tables /\ made' \in 0 .. MaxBuilds
  BY <1>1, BoundsAssumption DEF Tables
<1>3. \A u \in queue : u.content # t.content
  BY DEF OfContent
<1>4. \A s \in Requests : request'[s] = IF s = r THEN q ELSE request[s]
  BY DEF TypeOK
<1>5. request' \in [Requests -> RequestStates]
  BY DEF TypeOK
<1>6. TypeOK'
  <2>1. queue' \in Lists
    BY <1>1, <1>2 DEF TypeOK, Lists
  <2>2. \A u, v \in queue' : u.content = v.content => u = v
    BY <1>1, <1>3 DEF TypeOK
  <2> QED
    BY <1>2, <1>5, <2>1, <2>2 DEF TypeOK
<1>7. /\ t \notin tables /\ t \notin list /\ t \notin fetch.seen
      /\ \A s \in Requests : t \notin request[s].seen
      /\ \A b \in Stamps : t \notin build[b].ts
      /\ \A u \in queue : u.at # t.at
  BY <1>1 DEF SeenInv, TimesArePast, Past
<1>8. TablesInv'
  <2>1. t.at \in Stamps /\ Building(t.at, "idle")
    BY <1>1, <1>2, BoundsAssumption DEF TablesInv, BuildsHaveTables, Stamps
  <2>2. \A b \in Stamps : b <= made => b <= made'
    BY <1>1 DEF Stamps
  <2>3. BuildsHaveTables'
    BY <1>1, <1>7, <2>1, <2>2 DEF TablesInv, BuildsHaveTables, Building
  <2>4. LoadingIsBuilt' /\ DropperHasLock' /\ DropsAreReplaced'
    BY DEF TablesInv, LoadingIsBuilt, DropperHasLock, DropsAreReplaced, HoldsLock, Building
  <2> QED
    BY <2>3, <2>4 DEF TablesInv
<1>9. WaitingAreUnseen'
  BY <1>1, <1>4, <1>7 DEF SeenInv, WaitingAreUnseen, Waiting, Building
<1>10. TimesArePast'
  <2>1. /\ tables \subseteq Tables /\ queue \subseteq Tables /\ fetch.seen \subseteq Tables
        /\ list \subseteq Tables \cup {NoTable}
        /\ \A s \in Requests : request[s].seen \subseteq Tables
        /\ \A b \in Stamps : build[b].ts \subseteq Tables
    BY DEF TypeOK, Lists, NotListed, RequestStates, Stamps, Builds
  <2>2. \A u \in Tables \cup {NoTable} : u.at \in Nat
    BY BoundsAssumption DEF Tables, NoTable
  <2>3. \A u \in Tables \cup {NoTable} : u.at <= made => u.at <= made'
    BY <1>1, <2>2
  <2>4. t.at <= made'
    BY <1>1
  <2> QED
    BY <1>1, <1>4, <2>1, <2>3, <2>4 DEF SeenInv, TimesArePast, Past
<1>11. KeysAreKnown' /\ NotBeingLoaded'
  BY <1>1, <1>4, <1>7 DEF SeenInv, KeysAreKnown, NotBeingLoaded, At
<1> QED
  BY <1>6, <1>8, <1>9, <1>10, <1>11 DEF SeenInv
LEMMA DecideKeepsInv ==
    ASSUME TablesOK, NEW r \in Requests, Decide(r)
    PROVE  TablesOK'
<1> DEFINE c == request[r].content
           waits == [request[r] EXCEPT !.stage = "queued", !.busy = FALSE, !.seen = {}]
<1>1. /\ request[r] \in RequestStates
      /\ c \in Contents
  BY DEF Decide, TablesOK, TypeOK, SeenInv, KeysAreKnown
<1>2. /\ waits \in RequestStates /\ waits.seen = {} /\ waits.stage = "queued"
      /\ NoRequest \in RequestStates /\ NoRequest.seen = {} /\ NoRequest.stage = "idle"
  BY <1>1 DEF RequestStates, Stages, Lists, NoRequest
<1>3. Past({})
  BY DEF Past
<1>4. PICK q \in {waits, NoRequest} :
        /\ request' = [request EXCEPT ![r] = q]
        /\ UNCHANGED <<queue, made>> \/ Enqueue(c)
        /\ UNCHANGED <<content, tables, loading, list, build, fetch, lock, upsets>>
  BY DEF Decide, End
<1>5. q \in RequestStates /\ q.seen = {} /\ q.stage \notin {"keys", "decide"}
  BY <1>2, <1>4
<1> HIDE DEF c, waits
<1>6. CASE UNCHANGED <<queue, made>>
  BY <1>3, <1>4, <1>5, <1>6, MovesOn
<1>7. CASE Enqueue(c) /\ OfContent(queue, c) = {}
  BY <1>1, <1>4, <1>5, <1>7, AddedKeepsInv
<1>8. CASE Enqueue(c) /\ OfContent(queue, c) # {}
  BY <1>6, <1>8 DEF Enqueue
<1> QED
  BY <1>4, <1>6, <1>7, <1>8

(***************************************************************************)
(* Lists                                                                   *)
(***************************************************************************)
LEMMA ListsKeepInv ==
    ASSUME TablesOK,
           FetchTables \/ CacheTables \/ ChangeContent \/ ExpireList \/ ExpireLock
    PROVE  TablesOK'
<1> USE DEF TablesOK
<1>1. TablesInv'
  BY TablesInvFrame DEF FetchTables, CacheTables, ChangeContent, ExpireList, ExpireLock,
                        Stamps, TypeOK
<1>2. NoTable \notin queue
  BY TablesAreNotNone DEF TypeOK, Lists
<1>3. CASE FetchTables
  <2>1. TypeOK'
    BY <1>3 DEF FetchTables, TypeOK
  <2>2. SeenInv'
    BY <1>3 DEF FetchTables, SeenInv, WaitingAreUnseen, Waiting, Building, KeysAreKnown, TimesArePast,
                Past, NotBeingLoaded, At
  <2> QED
    BY <1>1, <2>1, <2>2
<1>4. CASE CacheTables
  <2>1. \A r \in Requests :
          /\ request'[r] \in RequestStates
          /\ request'[r].seen \in {request[r].seen, fetch.seen}
          /\ \/ request'[r] = request[r]
             \/ request'[r].stage \in {"state", "list"}
    <3> SUFFICES ASSUME NEW r \in Requests
                 PROVE  /\ request'[r] \in RequestStates
                        /\ request'[r].seen \in {request[r].seen, fetch.seen}
                        /\ \/ request'[r] = request[r]
                           \/ request'[r].stage \in {"state", "list"}
      OBVIOUS
    <3>1. request[r] \in RequestStates /\ fetch.seen \in Lists
      BY DEF TypeOK
    <3>2. CASE At(r, "fetch")
      <4>1. request'[r] = [request[r] EXCEPT !.stage = "state", !.seen = fetch.seen]
        BY <1>4, <3>2 DEF CacheTables, At
      <4> QED
        BY <3>1, <4>1 DEF RequestStates, Stages
    <3>3. CASE At(r, "reset")
      <4>1. request'[r] = [request[r] EXCEPT !.stage = "list", !.again = TRUE]
        BY <1>4, <3>3 DEF CacheTables, At
      <4> QED
        BY <3>1, <4>1 DEF RequestStates, Stages
    <3>4. CASE ~At(r, "fetch") /\ ~At(r, "reset")
      BY <1>4, <3>1, <3>4 DEF CacheTables
    <3> QED
      BY <3>2, <3>3, <3>4
  <2>2. request' \in [Requests -> RequestStates]
    BY <1>4, <2>1 DEF CacheTables
  <2>3. fetch' \in [phase : {"idle", "asked", "read"}, seen : Lists] /\ fetch'.seen = {}
    BY <1>4 DEF CacheTables, NoFetch, Lists
  <2>4. TypeOK'
    BY <1>4, <2>2, <2>3 DEF CacheTables, TypeOK
  <2>5. UNCHANGED <<tables, loading, queue, build, made>> /\ list' = fetch.seen
    BY <1>4 DEF CacheTables
  <2>6. SeenInv'
    BY <2>1, <2>3, <2>5 DEF SeenInv, WaitingAreUnseen, Waiting, Building, KeysAreKnown, TimesArePast,
                Past, NotBeingLoaded, At
  <2> QED
    BY <1>1, <2>4, <2>6
<1>5. CASE ChangeContent
  <2>1. TypeOK'
    BY <1>5, BoundsAssumption DEF ChangeContent, Upset, TypeOK
  <2>2. SeenInv'
    BY <1>5 DEF ChangeContent, SeenInv, WaitingAreUnseen, Waiting, Building, KeysAreKnown,
                TimesArePast, Past, NotBeingLoaded, At
  <2> QED
    BY <1>1, <2>1, <2>2
<1>6. CASE ExpireList
  <2>1. TypeOK'
    BY <1>6 DEF ExpireList, TypeOK
  <2>2. Past(NotListed)
    BY BoundsAssumption DEF NotListed, NoTable, Past, TypeOK
  <2>3. Waiting \cap NotListed = {}
    BY <1>2 DEF Waiting, NotListed
  <2>4. SeenInv'
    BY <1>6, <2>2, <2>3 DEF ExpireList, SeenInv, WaitingAreUnseen, Waiting, Building, KeysAreKnown,
                TimesArePast, Past, NotBeingLoaded, At
  <2> QED
    BY <1>1, <2>1, <2>4
<1>7. CASE ExpireLock
  <2>1. TypeOK' /\ SeenInv'
    BY <1>7 DEF ExpireLock, TypeOK, SeenInv, WaitingAreUnseen, Waiting, Building,
                KeysAreKnown, TimesArePast, Past, NotBeingLoaded, At
  <2> QED
    BY <1>1, <2>1
<1> QED
  BY <1>3, <1>4, <1>5, <1>6, <1>7

(***************************************************************************)
(* Builds                                                                  *)
(***************************************************************************)
\* Requests go on as they were, or are told of a build's end.
RequestsTold ==
    /\ request' \in [Requests -> RequestStates]
    /\ \A r \in Requests :
         /\ request'[r].seen \subseteq request[r].seen
         /\ request'[r] = request[r] \/ request'[r].stage \notin {"keys", "decide"}

\* What requests have seen stays good while the queue and the tables shrink.
LEMMA SeenStays ==
    ASSUME SeenInv, RequestsTold, UNCHANGED <<fetch, made>>,
           Waiting' \subseteq Waiting, queue' \subseteq queue,
           tables' \subseteq tables, loading' \subseteq loading,
           list' = list \/ \E b \in Stamps : list' = build[b].ts,
           \A b \in Stamps : build'[b].ts \subseteq build[b].ts \cup tables
    PROVE  SeenInv'
<1> USE DEF SeenInv, RequestsTold
<1>1. WaitingAreUnseen'
  BY DEF WaitingAreUnseen
<1>2. TimesArePast'
  BY DEF TimesArePast, Past
<1>3. KeysAreKnown' /\ NotBeingLoaded'
  BY DEF KeysAreKnown, NotBeingLoaded, At
<1> QED
  BY <1>1, <1>2, <1>3

\* Those who wait for a build get to know of its end, and its definition is gone.
LEMMA SettleTells ==
    ASSUME TablesOK, NEW t, NEW stage \in {"created", "idle"}, Settle(t, stage)
    PROVE  RequestsTold /\ queue' = queue \ {t}
<1>1. \A r \in Requests :
        /\ request[r] \in RequestStates
        /\ request'[r] \in {request[r], NoRequest, [request[r] EXCEPT !.stage = stage]}
  BY DEF Settle, TablesOK, TypeOK
<1>2. NoRequest \in RequestStates /\ NoRequest.seen = {} /\ NoRequest.stage = "idle"
  BY DEF NoRequest, RequestStates, Stages, Lists
<1>3. ASSUME NEW r \in Requests
      PROVE  /\ request'[r] \in RequestStates
             /\ request'[r].seen \subseteq request[r].seen
             /\ request'[r] = request[r] \/ request'[r].stage \notin {"keys", "decide"}
  BY <1>1, <1>2, <1>3 DEF RequestStates, Stages
<1>4. request' \in [Requests -> RequestStates]
  BY <1>3 DEF Settle, TablesOK, TypeOK
<1> QED
  BY <1>3, <1>4 DEF Settle, RequestsTold

\* A build that has begun becomes e: it goes on with its table, or is over and its
\* definition is gone.  Its drops are another matter.
LEMMA BuildBecomes ==
    ASSUME TablesOK, NEW b \in Stamps, ~Building(b, "idle"),
           NEW e \in Builds, build' = [build EXCEPT ![b] = e],
           \/ e.phase = "idle" /\ e.table = NoTable /\ build[b].table \notin queue'
           \/ e.phase \notin {"idle", "loading"} /\ e.table = build[b].table,
           e.ts \subseteq build[b].ts \cup tables,
           tables' \subseteq tables,
           loading' = IF Building(b, "loading") THEN loading \ {build[b].table} ELSE loading,
           loading' \subseteq tables',
           list' \in {list, build[b].ts}, queue' \subseteq queue, RequestsTold,
           lock' \in BOOLEAN, upsets' \in 0 .. MaxUpsets,
           e.phase = "drop" => lock' /\ (HoldsLock(b) \/ ~lock),
           lock => lock' \/ HoldsLock(b),
           DropsAreReplaced',
           UNCHANGED <<content, fetch, made>>
    PROVE  TablesOK'
<1> USE DEF TablesOK
<1>1. /\ build' \in [Stamps -> Builds]
      /\ \A c \in Stamps : build'[c] = IF c = b THEN e ELSE build[c]
  BY DEF TypeOK, Stamps
<1>2. TypeOK'
  <2>1. list' \in Lists \cup {NotListed} /\ tables' \in Lists /\ queue' \in Lists
    BY DEF TypeOK, Lists, Builds, Stamps
  <2>2. request' \in [Requests -> RequestStates]
    BY DEF RequestsTold
  <2> QED
    BY <1>1, <2>1, <2>2 DEF TypeOK, Stamps
<1>3. \A t \in queue : t.at \in Stamps /\ t \in Tables
  BY DEF TypeOK, Lists, Tables, Stamps
<1>4. BuildsHaveTables'
  <2>1. \A c \in Stamps : IF Building(c, "idle")'
           THEN build'[c].table = NoTable
           ELSE build'[c].table \in Tables /\ build'[c].table.at = c /\ c <= made'
    BY <1>1 DEF TablesInv, BuildsHaveTables, Building
  <2>2. \A t \in queue' : Building(t.at, "idle")' \/ build'[t.at].table = t
    BY <1>1, <1>3 DEF TablesInv, BuildsHaveTables, Building
  <2> QED
    BY <2>1, <2>2 DEF TablesInv, BuildsHaveTables
<1>5. LoadingIsBuilt'
  <2>1. \A t \in loading : t.at \in Stamps
    BY DEF TypeOK, Lists, Tables, Stamps
  <2>2. \A t \in loading' : t.at # b
    BY <2>1 DEF TablesInv, LoadingIsBuilt, Building
  <2>3. \A t \in loading' : Building(t.at, "loading")' /\ build'[t.at].table = t
    BY <1>1, <2>1, <2>2 DEF TablesInv, LoadingIsBuilt, Building
  <2>4. \A c \in Stamps : Building(c, "loading") => build[c].table.at = c
    BY DEF TablesInv, BuildsHaveTables, Building
  <2>5. \A c \in Stamps : Building(c, "loading")' => build'[c].table \in loading'
    BY <1>1, <2>4 DEF TablesInv, LoadingIsBuilt, Building
  <2> QED
    BY <2>3, <2>5 DEF LoadingIsBuilt
<1>6. DropperHasLock'
  BY <1>1 DEF TablesInv, DropperHasLock, HoldsLock, Building
<1>7. Waiting' \subseteq Waiting
  <2>1. SUFFICES ASSUME NEW t \in Waiting' PROVE t \in Waiting
    OBVIOUS
  <2>2. t \in queue' /\ t.at \in Stamps /\ build'[t.at].phase = "idle"
    BY <1>3 DEF Waiting, Building
  <2>3. CASE t.at = b
    BY <1>1, <2>2, <2>3 DEF TablesInv, BuildsHaveTables
  <2>4. CASE t.at # b
    BY <1>1, <2>2, <2>4 DEF Waiting, Building
  <2> QED
    BY <2>3, <2>4
<1>8. SeenInv'
  <2>1. \A c \in Stamps : build'[c].ts \subseteq build[c].ts \cup tables
    BY <1>1
  <2>2. loading' \subseteq loading
    OBVIOUS
  <2> QED
    BY <1>7, <2>1, <2>2, SeenStays
<1> QED
  BY <1>2, <1>4, <1>5, <1>6, <1>8 DEF TablesInv

\* Where no loaded table goes and none is chosen to be dropped, drops stay replaced.
LEMMA DropsStay ==
    ASSUME TablesOK, NEW b \in Stamps, NEW e \in Builds, build' = [build EXCEPT ![b] = e],
           e.phase = "drop" => e = build[b],
           tables \ loading \subseteq tables' \ loading'
    PROVE  DropsAreReplaced'
<1>1. \A c \in Stamps : build'[c] = IF c = b THEN e ELSE build[c]
  BY DEF TablesOK, TypeOK, Stamps
<1>2. ASSUME NEW c \in Stamps, HoldsLock(c)', build'[c].whole
      PROVE  HoldsLock(c) /\ build'[c] = build[c]
  BY <1>1, <1>2 DEF HoldsLock, Building
<1> QED
  BY <1>2 DEF DropsAreReplaced, TablesOK, TablesInv


LEMMA LoadKeepsInv ==
    ASSUME TablesOK, NEW b \in Stamps, Load(b)
    PROVE  TablesOK'
<1> USE DEF TablesOK
<1>1. PICK t \in queue :
        /\ t.at = b
        /\ tables' = tables \cup {t}
        /\ loading' = loading \cup {t}
        /\ build' = [build EXCEPT ![b] = [NoBuild EXCEPT !.phase = "loading", !.table = t]]
  BY DEF Load
<1> DEFINE e == [NoBuild EXCEPT !.phase = "loading", !.table = t]
<1>2. /\ UNCHANGED <<content, list, queue, fetch, lock, request, made, upsets>>
      /\ Building(b, "idle")
  BY DEF Load
<1>3. t \in Tables /\ t \in Waiting /\ \A u \in queue : u.at \in Stamps
  BY <1>1, <1>2 DEF TypeOK, Lists, Waiting, Tables, Stamps
<1>4. t \notin tables /\ t \notin loading
  BY <1>3 DEF SeenInv, WaitingAreUnseen, TypeOK
<1>5. /\ e \in Builds /\ build' = [build EXCEPT ![b] = e]
      /\ e.phase = "loading" /\ e.table = t /\ e.ts = {}
  BY <1>1, <1>3 DEF Builds, Phases, Lists, NoBuild
<1> HIDE DEF e
<1>6. /\ build' \in [Stamps -> Builds]
      /\ \A c \in Stamps : build'[c] = IF c = b THEN e ELSE build[c]
  BY <1>5 DEF TypeOK, Stamps
<1>7. TypeOK'
  <2>1. tables' \in Lists /\ loading' \in SUBSET tables'
    BY <1>1, <1>3 DEF TypeOK, Lists
  <2> QED
    BY <1>2, <1>6, <2>1 DEF TypeOK, Stamps
<1>8. TablesInv'
  <2>1. b <= made
    BY <1>1 DEF SeenInv, TimesArePast, Past
  <2>2. BuildsHaveTables'
    BY <1>1, <1>2, <1>3, <1>5, <1>6, <2>1 DEF TablesInv, BuildsHaveTables, Building
  <2>3. LoadingIsBuilt'
    <3>1. \A u \in loading : u.at \in Stamps /\ u.at # b
      BY <1>2 DEF TypeOK, Lists, Tables, Stamps, TablesInv, LoadingIsBuilt, Building
    <3> QED
      BY <1>1, <1>5, <1>6, <3>1 DEF TablesInv, LoadingIsBuilt, Building
  <2>4. DropperHasLock'
    BY <1>2, <1>5, <1>6 DEF TablesInv, DropperHasLock, HoldsLock, Building
  <2>5. DropsAreReplaced'
    <3>1. tables \ loading \subseteq tables' \ loading'
      BY <1>1, <1>4
    <3> QED
      BY <1>5, <3>1, DropsStay
  <2> QED
    BY <2>2, <2>3, <2>4, <2>5 DEF TablesInv
<1>9. SeenInv'
  <2>1. Waiting' \subseteq Waiting \ {t}
    BY <1>1, <1>2, <1>3, <1>5, <1>6 DEF Waiting, Building
  <2>2. \A c \in Stamps : build'[c].ts \subseteq build[c].ts
    BY <1>5, <1>6
  <2>3. WaitingAreUnseen'
    BY <1>1, <1>2, <2>1, <2>2 DEF SeenInv, WaitingAreUnseen
  <2>4. TimesArePast'
    BY <1>1, <1>2, <2>2 DEF SeenInv, TimesArePast, Past
  <2>5. KeysAreKnown' /\ NotBeingLoaded'
    BY <1>1, <1>2, <1>3 DEF SeenInv, WaitingAreUnseen, KeysAreKnown, NotBeingLoaded, At
  <2> QED
    BY <2>3, <2>4, <2>5 DEF SeenInv
<1> QED
  BY <1>7, <1>8, <1>9

\* A definition leaves the queue, and its build, if it has begun, goes on.
LEMMA DesertedKeepInv ==
    ASSUME TablesOK, queue' \subseteq queue, RequestsTold, upsets' \in 0 .. MaxUpsets,
           UNCHANGED <<content, tables, loading, list, build, fetch, lock, made>>
    PROVE  TablesOK'
<1> USE DEF TablesOK
<1>1. TypeOK'
  BY DEF TypeOK, Lists, RequestsTold
<1>2. TablesInv'
  BY DEF TablesInv, BuildsHaveTables, LoadingIsBuilt, DropperHasLock, DropsAreReplaced,
         HoldsLock, Building
<1>3. Waiting' \subseteq Waiting
  BY DEF Waiting, Building
<1>4. SeenInv'
  BY <1>3, SeenStays
<1> QED
  BY <1>1, <1>2, <1>4

\* Of some tables one is the newest.
LEMMA NewestExists ==
    ASSUME NEW ts \in Lists, ts # {}
    PROVE  \E u \in ts : \A t \in ts : t.at <= u.at
<1> DEFINE ages == {MaxBuilds - t.at : t \in ts}
<1>1. \A t \in ts : t.at \in Nat /\ MaxBuilds - t.at \in Nat
  BY BoundsAssumption DEF Lists, Tables
<1>2. ages \subseteq Nat /\ ages # {}
  BY <1>1
<1>3. PICK x \in ages : \A y \in ages : ~ (<<y, x>> \in OpToRel(<, Nat))
  BY <1>2, NatLessThanWellFounded, WFMin
<1>4. \A y \in ages : ~ (y < x)
  BY <1>2, <1>3 DEF OpToRel
<1>5. PICK u \in ts : x = MaxBuilds - u.at
  BY <1>3
<1>6. ASSUME NEW t \in ts PROVE t.at <= u.at
  <2>1. ~ (MaxBuilds - t.at < MaxBuilds - u.at)
    BY <1>4, <1>5
  <2> HIDE DEF ages
  <2> QED
    BY <1>1, <2>1, BoundsAssumption
<1> QED
  BY <1>6

\* What is to be dropped is older than the newest table, which is saved.
LEMMA SavedIsNewer ==
    ASSUME TablesOK, NEW b \in Stamps, NEW used \in SUBSET tables,
           NEW t \in tables \ TablesToSave(b, used)
    PROVE  \E u \in tables : u \in TablesToSave(b, used) /\ u.at > t.at
<1>1. PICK u \in tables : \A v \in tables : v.at <= u.at
  BY NewestExists DEF TablesOK, TypeOK
<1>2. u \in TablesToSave(b, used) /\ t \notin Newest(tables)
  BY <1>1 DEF TablesToSave, Newest
<1>3. PICK w \in tables : ~ (w.at <= t.at)
  BY <1>2 DEF Newest
<1>4. \A v \in tables : v.at \in Nat
  BY BoundsAssumption DEF TablesOK, TypeOK, Lists, Tables
<1> QED
  BY <1>1, <1>2, <1>3, <1>4


\* The steps of a build that has begun, but for its drops.
LEMMA BuildGoesOn ==
    ASSUME TablesOK, NEW b \in Stamps,
           Loaded(b) \/ BuildLists(b) \/ BuildCaches(b) \/ FreeLock(b)
    PROVE  TablesOK'
<1>1. build[b] \in Builds /\ lock \in BOOLEAN /\ upsets \in 0 .. MaxUpsets
  BY DEF TablesOK, TypeOK, Stamps
<1>2. RequestsTold /\ loading \subseteq tables /\ tables \in Lists
  BY DEF Loaded, BuildLists, BuildCaches, FreeLock, RequestsTold, TablesOK, TypeOK
<1>3. CASE Loaded(b)
  <2> DEFINE e == [build[b] EXCEPT !.phase = "list"]
  <2>1. e \in Builds /\ e.phase = "list" /\ e.table = build[b].table /\ e.ts = build[b].ts
    BY <1>1 DEF Builds, Phases
  <2>2. /\ build' = [build EXCEPT ![b] = e]
        /\ Building(b, "loading") /\ loading' = loading \ {build[b].table}
        /\ UNCHANGED <<content, tables, list, queue, fetch, lock, request, made, upsets>>
    BY <1>3 DEF Loaded, BuildGoesTo
  <2> HIDE DEF e
  <2>3. DropsAreReplaced'
    BY <2>1, <2>2, DropsStay
  <2> QED
    BY <1>1, <1>2, <2>1, <2>2, <2>3, BuildBecomes DEF Building, HoldsLock
<1>4. CASE BuildLists(b)
  <2>1. PICK from \in {"list", "end"} :
          /\ Building(b, from)
          /\ build' = [build EXCEPT ![b].phase = IF from = "list" THEN "listed" ELSE "ended",
                                    ![b].ts = tables]
    BY <1>4 DEF BuildLists
  <2> DEFINE p == IF from = "list" THEN "listed" ELSE "ended"
             e == [build[b] EXCEPT !.phase = p, !.ts = tables]
  <2>0. p \in {"listed", "ended"} /\ build' = [build EXCEPT ![b] = e]
    BY <2>1
  <2> HIDE DEF p
  <2>2. /\ e \in Builds /\ e.phase \in {"listed", "ended"}
        /\ e.table = build[b].table /\ e.ts = tables
    BY <1>1, <1>2, <2>0 DEF Builds, Phases
  <2>3. /\ build' = [build EXCEPT ![b] = e]
        /\ UNCHANGED <<content, tables, loading, list, queue, fetch, lock, request, made, upsets>>
    BY <1>4, <2>0 DEF BuildLists
  <2> HIDE DEF e
  <2>4. DropsAreReplaced'
    BY <2>2, <2>3, DropsStay
  <2> QED
    BY <1>1, <1>2, <2>1, <2>2, <2>3, <2>4, BuildBecomes DEF Building, HoldsLock
<1>5. CASE BuildCaches(b)
  <2>1. PICK from \in {"listed", "ended"} :
          /\ Building(b, from)
          /\ build' = [build EXCEPT ![b].phase = IF from = "listed" THEN "lock" ELSE "done",
                                    ![b].ts = {}]
    BY <1>5 DEF BuildCaches
  <2> DEFINE p == IF from = "listed" THEN "lock" ELSE "done"
             e == [build[b] EXCEPT !.phase = p, !.ts = {}]
  <2>0. p \in {"lock", "done"} /\ build' = [build EXCEPT ![b] = e]
    BY <2>1
  <2> HIDE DEF p
  <2>2. /\ e \in Builds /\ e.phase \in {"lock", "done"}
        /\ e.table = build[b].table /\ e.ts = {}
    BY <1>1, <2>0 DEF Builds, Phases, Lists
  <2>3. /\ build' = [build EXCEPT ![b] = e] /\ list' = build[b].ts
        /\ UNCHANGED <<content, tables, loading, queue, fetch, lock, request, made, upsets>>
    BY <1>5, <2>0 DEF BuildCaches
  <2> HIDE DEF e
  <2>4. DropsAreReplaced'
    BY <2>2, <2>3, DropsStay
  <2> QED
    BY <1>1, <1>2, <2>1, <2>2, <2>3, <2>4, BuildBecomes DEF Building, HoldsLock
<1>6. CASE FreeLock(b)
  <2> DEFINE e == [build[b] EXCEPT !.phase = "end", !.whole = FALSE]
  <2>1. e \in Builds /\ e.phase = "end" /\ e.table = build[b].table /\ e.ts = build[b].ts
    BY <1>1 DEF Builds, Phases
  <2>2. /\ build' = [build EXCEPT ![b] = e] /\ HoldsLock(b) /\ lock' = FALSE
        /\ UNCHANGED <<content, tables, loading, list, queue, fetch, request, made, upsets>>
    BY <1>6 DEF FreeLock, HoldsLock
  <2> HIDE DEF e
  <2>3. DropsAreReplaced'
    BY <2>1, <2>2, DropsStay
  <2> QED
    BY <1>1, <1>2, <2>1, <2>2, <2>3, BuildBecomes DEF Building, HoldsLock
<1> QED
  BY <1>3, <1>4, <1>5, <1>6

\* The tables to be dropped are chosen, and a newer one with its data is saved.
LEMMA DropOrphanedKeepsInv ==
    ASSUME TablesOK, NEW b \in Stamps, DropOrphaned(b)
    PROVE  TablesOK'
<1>1. /\ build[b] \in Builds /\ lock \in BOOLEAN /\ upsets \in 0 .. MaxUpsets
      /\ RequestsTold /\ loading \subseteq tables /\ tables \in Lists
  BY DEF DropOrphaned, RequestsTold, TablesOK, TypeOK, Stamps
<1>2. /\ Building(b, "lock") /\ lock' = TRUE
      /\ UNCHANGED <<content, tables, loading, list, queue, fetch, request, made, upsets>>
  BY DEF DropOrphaned
<1>3. CASE lock /\ BuildGoesTo(b, "end")
  <2> DEFINE e == [build[b] EXCEPT !.phase = "end"]
  <2>1. e \in Builds /\ e.phase = "end" /\ e.table = build[b].table /\ e.ts = build[b].ts
    BY <1>1 DEF Builds, Phases
  <2>2. build' = [build EXCEPT ![b] = e]
    BY <1>3 DEF BuildGoesTo
  <2> HIDE DEF e
  <2>3. DropsAreReplaced'
    BY <1>2, <2>1, <2>2, DropsStay
  <2> QED
    BY <1>1, <1>2, <2>1, <2>2, <2>3, BuildBecomes DEF Building, HoldsLock
<1>4. ASSUME ~lock, NEW used \in SUBSET tables,
             build' = [build EXCEPT ![b] = [@ EXCEPT
               !.phase = "drop", !.ts = tables \ TablesToSave(b, used),
               !.whole = loading = {}]]
      PROVE  TablesOK'
  <2> DEFINE e == [build[b] EXCEPT
                     !.phase = "drop", !.ts = tables \ TablesToSave(b, used),
                     !.whole = (loading = {})]
  <2>1. /\ e \in Builds /\ e.phase = "drop" /\ e.table = build[b].table
        /\ e.ts = tables \ TablesToSave(b, used) /\ e.whole = (loading = {})
    BY <1>1 DEF Builds, Phases, Lists
  <2>2. build' = [build EXCEPT ![b] = e]
    BY <1>4 DEF TablesOK, TypeOK
  <2> HIDE DEF e
  <2>3. DropsAreReplaced'
    <3>1. \A c \in Stamps : build'[c] = IF c = b THEN e ELSE build[c]
      BY <2>2 DEF TablesOK, TypeOK, Stamps
    <3>2. \A c \in Stamps : HoldsLock(c)' => c = b
      BY <1>4, <3>1 DEF TablesOK, TablesInv, DropperHasLock, HoldsLock, Building
    <3>3. e.whole => \A t \in e.ts : \E u \in tables' \ loading' : u \notin e.ts /\ u.at > t.at
      BY <1>2, <2>1, SavedIsNewer
    <3> QED
      BY <3>1, <3>2, <3>3 DEF DropsAreReplaced
  <2> QED
    BY <1>1, <1>2, <1>4, <2>1, <2>2, <2>3, BuildBecomes DEF Building, HoldsLock
<1> QED
  BY <1>3, <1>4 DEF DropOrphaned


LEMMA DropTableKeepsInv ==
    ASSUME TablesOK, NEW b \in Stamps, DropTable(b)
    PROVE  TablesOK'
<1>1. PICK t \in (build[b].ts \cap tables) \ loading :
        /\ tables' = tables \ {t}
        /\ build' = [build EXCEPT ![b].ts = @ \ {t}]
  BY DEF DropTable
<1> DEFINE e == [build[b] EXCEPT !.ts = build[b].ts \ {t}]
<1>2. /\ build[b] \in Builds /\ lock \in BOOLEAN /\ upsets \in 0 .. MaxUpsets
      /\ RequestsTold /\ loading \subseteq tables /\ tables \in Lists
      /\ Building(b, "drop") /\ HoldsLock(b) /\ lock
      /\ UNCHANGED <<content, loading, list, queue, fetch, lock, request, made, upsets>>
  BY DEF DropTable, RequestsTold, TablesOK, TypeOK, Stamps, TablesInv, DropperHasLock, HoldsLock
<1>3. /\ e \in Builds /\ e.phase = "drop" /\ e.table = build[b].table
      /\ e.ts = build[b].ts \ {t} /\ e.whole = build[b].whole
  BY <1>2 DEF Builds, Lists, Building
<1>4. build' = [build EXCEPT ![b] = e]
  BY <1>1 DEF TablesOK, TypeOK
<1> HIDE DEF e
<1>5. DropsAreReplaced'
  <2>1. \A c \in Stamps : build'[c] = IF c = b THEN e ELSE build[c]
    BY <1>4 DEF TablesOK, TypeOK, Stamps
  <2>2. \A c \in Stamps : HoldsLock(c)' => c = b
    BY <1>2, <2>1 DEF TablesOK, TablesInv, DropperHasLock, HoldsLock, Building
  <2>3. build[b].whole => \A v \in build[b].ts :
           \E u \in tables \ loading : u \notin build[b].ts /\ u.at > v.at
    BY <1>2 DEF TablesOK, TablesInv, DropsAreReplaced
  <2>4. e.whole => \A v \in e.ts : \E u \in tables' \ loading' : u \notin e.ts /\ u.at > v.at
    BY <1>1, <1>2, <1>3, <2>3
  <2> QED
    BY <2>1, <2>2, <2>4 DEF DropsAreReplaced
<1>6. tables' \subseteq tables /\ loading \subseteq tables'
  BY <1>1, <1>2
<1> QED
  BY <1>2, <1>3, <1>4, <1>5, <1>6, BuildBecomes DEF Building, HoldsLock

LEMMA NoBuildIsOver ==
    /\ NoBuild \in Builds /\ NoBuild.phase = "idle" /\ NoBuild.table = NoTable
    /\ NoBuild.ts = {}
BY DEF NoBuild, Builds, Phases, Lists

\* What a build that stops leaves of its table.
LEMMA AbandonLeaves ==
    ASSUME TablesOK, NEW b \in Stamps, Abandon(b)
    PROVE  /\ tables' \subseteq tables
           /\ loading' = IF Building(b, "loading") THEN loading \ {build[b].table} ELSE loading
           /\ loading' \subseteq tables'
           /\ tables \ loading \subseteq tables' \ loading'
<1>1. /\ loading \subseteq tables
      /\ Building(b, "loading") => build[b].table \in loading
  BY DEF TablesOK, TypeOK, TablesInv, LoadingIsBuilt
<1> QED
  BY <1>1 DEF Abandon

LEMMA FinishBuildKeepsInv ==
    ASSUME TablesOK, NEW b \in Stamps, FinishBuild(b)
    PROVE  TablesOK'
<1>1. /\ Settle(build[b].table, "created") /\ Building(b, "done")
      /\ build' = [build EXCEPT ![b] = NoBuild]
      /\ UNCHANGED <<content, tables, loading, list, fetch, lock, made, upsets>>
      /\ lock \in BOOLEAN /\ upsets \in 0 .. MaxUpsets /\ loading \subseteq tables
  BY DEF FinishBuild, TablesOK, TypeOK
<1>2. RequestsTold /\ queue' = queue \ {build[b].table}
  BY <1>1, SettleTells
<1>3. DropsAreReplaced'
  BY <1>1, NoBuildIsOver, DropsStay
<1> QED
  BY <1>1, <1>2, <1>3, NoBuildIsOver, BuildBecomes DEF Building, HoldsLock

LEMMA FailKeepsInv ==
    ASSUME TablesOK, NEW b \in Stamps, ~Building(b, "idle"), Fail(b),
           upsets' \in 0 .. MaxUpsets
    PROVE  TablesOK'
<1>1. /\ Abandon(b) /\ Settle(build[b].table, "idle")
      /\ build' = [build EXCEPT ![b] = NoBuild]
      /\ UNCHANGED <<content, list, fetch, made>>
      /\ lock' \in BOOLEAN
      /\ lock => lock' \/ HoldsLock(b)
  BY DEF Fail, TablesOK, TypeOK
<1>2. RequestsTold /\ queue' = queue \ {build[b].table}
  BY <1>1, SettleTells
<1>3. DropsAreReplaced'
  BY <1>1, NoBuildIsOver, DropsStay, AbandonLeaves
<1>4. /\ NoBuild \in Builds /\ NoBuild.phase = "idle" /\ NoBuild.table = NoTable
      /\ NoBuild.ts = {} /\ NoBuild.phase # "drop"
      /\ build[b].table \notin queue' /\ queue' \subseteq queue
  BY <1>2, NoBuildIsOver
<1>5. /\ tables' \subseteq tables /\ loading' \subseteq tables'
      /\ loading' = IF Building(b, "loading") THEN loading \ {build[b].table} ELSE loading
  BY <1>1, AbandonLeaves
<1> QED
  BY <1>1, <1>2, <1>3, <1>4, <1>5, BuildBecomes

LEMMA CrashKeepsInv ==
    ASSUME TablesOK, NEW b \in Stamps, Crash(b)
    PROVE  TablesOK'
<1> DEFINE dead == [NoBuild EXCEPT !.phase = "dead", !.table = build[b].table]
           e == IF build[b].table \in queue THEN dead ELSE NoBuild
<1>1. /\ Abandon(b) /\ ~Building(b, "idle")
      /\ build' = [build EXCEPT ![b] = e]
      /\ UNCHANGED <<content, list, queue, fetch, lock, request, made>>
      /\ lock \in BOOLEAN /\ upsets' \in 0 .. MaxUpsets /\ RequestsTold
  BY BoundsAssumption
     DEF Crash, UnderWay, Building, Upset, TablesOK, TypeOK, RequestsTold
<1>2. build[b].table \in Tables \cup {NoTable}
  BY DEF TablesOK, TypeOK, Builds, Stamps
<1>3. dead \in Builds /\ dead.phase = "dead" /\ dead.table = build[b].table /\ dead.ts = {}
  BY <1>2 DEF NoBuild, Builds, Phases, Lists
<1>4. /\ e \in Builds /\ e.ts = {} /\ e.phase # "drop"
      /\ \/ e.phase = "idle" /\ e.table = NoTable /\ build[b].table \notin queue'
         \/ e.phase \notin {"idle", "loading"} /\ e.table = build[b].table
  BY <1>1, <1>3, NoBuildIsOver
<1> HIDE DEF e
<1>5. DropsAreReplaced'
  BY <1>1, <1>4, DropsStay, AbandonLeaves
<1> QED
  BY <1>1, <1>4, <1>5, AbandonLeaves, BuildBecomes

LEMMA ReclaimKeepsInv ==
    ASSUME TablesOK, NEW b \in Stamps, Reclaim(b)
    PROVE  TablesOK'
<1>1. /\ Building(b, "dead") /\ queue' = queue \ {build[b].table}
      /\ build' = [build EXCEPT ![b] = NoBuild]
      /\ UNCHANGED <<content, tables, loading, list, fetch, lock, request, made, upsets>>
      /\ lock \in BOOLEAN /\ upsets \in 0 .. MaxUpsets /\ loading \subseteq tables
      /\ RequestsTold
  BY DEF Reclaim, TablesOK, TypeOK, RequestsTold
<1>2. DropsAreReplaced'
  BY <1>1, NoBuildIsOver, DropsStay
<1> QED
  BY <1>1, <1>2, NoBuildIsOver, BuildBecomes DEF Building, HoldsLock

LEMMA DefinitionLeavesKeepsInv ==
    ASSUME TablesOK,
           (\E t \in queue : Orphan(t)) \/ \E b \in Stamps : ExecutionTimesOut(b)
    PROVE  TablesOK'
<1>1. Upset => upsets' \in 0 .. MaxUpsets
  BY BoundsAssumption DEF Upset, TablesOK, TypeOK
<1>2. ASSUME NEW t \in queue, Orphan(t) PROVE TablesOK'
  <2>1. RequestsTold
    BY <1>2 DEF Orphan, RequestsTold, TablesOK, TypeOK
  <2> QED
    BY <1>1, <1>2, <2>1, DesertedKeepInv DEF Orphan
<1>3. ASSUME NEW b \in Stamps, ExecutionTimesOut(b) PROVE TablesOK'
  BY <1>1, <1>3, SettleTells, DesertedKeepInv DEF ExecutionTimesOut
<1> QED
  BY <1>2, <1>3

LEMMA BuildsKeepInv ==
    ASSUME TablesOK, NEW b \in Stamps,
           BuildStep(b) \/ BuildFails(b) \/ Crash(b) \/ Reclaim(b)
    PROVE  TablesOK'
<1>1. upsets \in 0 .. MaxUpsets /\ (Upset => upsets' \in 0 .. MaxUpsets)
  BY BoundsAssumption DEF Upset, TablesOK, TypeOK
<1>2. CASE BuildFails(b)
  BY <1>1, <1>2, FailKeepsInv DEF BuildFails, UnderWay, Building
<1>3. CASE DropFails(b)
  BY <1>1, <1>3, FailKeepsInv DEF DropFails, Building
<1> QED
  BY <1>2, <1>3, LoadKeepsInv, BuildGoesOn, DropOrphanedKeepsInv, DropTableKeepsInv,
     FinishBuildKeepsInv, CrashKeepsInv, ReclaimKeepsInv DEF BuildStep

(***************************************************************************)
(* The theorems                                                            *)
(***************************************************************************)
LEMMA TablesInvNext == TablesOK /\ [Next]_vars => TablesOK'
<1> SUFFICES ASSUME TablesOK, [Next]_vars PROVE TablesOK'
  OBVIOUS
<1>1. CASE \E r \in Requests : Begin(r) \/ RequestStep(r) \/ TimeOut(r)
  BY <1>1, RequestKeepsInv, DecideKeepsInv DEF RequestStep
<1>2. CASE FetchTables \/ CacheTables \/ ChangeContent \/ ExpireList \/ ExpireLock
  BY <1>2, ListsKeepInv
<1>3. CASE \E b \in Stamps : BuildStep(b) \/ BuildFails(b) \/ Crash(b) \/ Reclaim(b)
  BY <1>3, BuildsKeepInv
<1>4. CASE (\E t \in queue : Orphan(t)) \/ \E b \in Stamps : ExecutionTimesOut(b)
  BY <1>4, DefinitionLeavesKeepsInv
<1>5. CASE UNCHANGED vars
  BY <1>5 DEF vars, TablesOK, TypeOK, TablesInv, BuildsHaveTables, LoadingIsBuilt,
       DropperHasLock, DropsAreReplaced, HoldsLock, Building, SeenInv,
       WaitingAreUnseen, Waiting, KeysAreKnown, TimesArePast, Past, NotBeingLoaded, At
<1> QED
  BY <1>1, <1>2, <1>3, <1>4, <1>5 DEF Next, Stamps

\* The inductive invariant holds in every state: it says how the queue, the builds,
\* the tables and the lists that requests have read fit each other, whether or not
\* definitions leave the queue before their builds end.
THEOREM TablesAreOK == Spec => []TablesOK
BY InitTablesOK, TablesInvNext, PTL DEF Spec

\* Every variable keeps its type: among others, a content is queued at most
\* once (executeInQueue), and what is being loaded is a table that is shown.
THEOREM TablesTypeOK == Spec => []TypeOK
<1>1. TablesOK => TypeOK
  BY DEF TablesOK
<1> QED
  BY <1>1, TablesAreOK, PTL

\* calculateVersionEntries leaves out every table that is being loaded for a
\* definition that is still in the queue.
THEOREM NoneBeingLoaded == Spec => []NotBeingLoaded
<1>1. TablesOK => NotBeingLoaded
  BY DEF TablesOK, SeenInv
<1> QED
  BY <1>1, TablesAreOK, PTL

\* A step takes a loaded table away only if it leaves a newer one.
LEMMA StepReplacesFirst ==
    ASSUME TablesOK, [Next]_vars, NEW t \in tables \ loading
    PROVE  \/ t \in tables'
           \/ \E u \in tables' \ loading' : u.at > t.at
           \/ \E b \in DOMAIN build : HoldsLock(b) /\ ~build[b].whole
<1> USE DEF TablesOK
<1>1. ASSUME NEW b \in Stamps, DropTable(b), build[b].whole
      PROVE  t \in tables' \/ \E u \in tables' \ loading' : u.at > t.at
  <2>1. PICK d \in (build[b].ts \cap tables) \ loading : tables' = tables \ {d}
    BY <1>1 DEF DropTable
  <2>2. HoldsLock(b) /\ UNCHANGED loading
    BY <1>1 DEF DropTable, HoldsLock
  <2>3. PICK u \in tables \ loading : u \notin build[b].ts /\ u.at > d.at
    BY <1>1, <2>1, <2>2 DEF TablesInv, DropsAreReplaced
  <2> QED
    BY <2>1, <2>2, <2>3
<1>2. ASSUME NEW b \in Stamps, DropTable(b) PROVE HoldsLock(b) /\ b \in DOMAIN build
  BY <1>2 DEF DropTable, HoldsLock, TypeOK, Stamps
<1>3. ASSUME NEW b \in Stamps, Abandon(b) PROVE t \in tables'
  BY <1>3, AbandonLeaves
<1>4. ASSUME NEW b \in Stamps, Load(b) PROVE t \in tables'
  BY <1>4 DEF Load
<1>5. \/ \E b \in Stamps : DropTable(b) \/ Abandon(b) \/ Load(b)
      \/ UNCHANGED tables
  BY DEF Next, vars, BuildStep, RequestStep, Begin, ReadList, ReadQueue, ReadKeys, Decide, Renew,
         TimeOut, FetchTables, CacheTables, Loaded, BuildLists, BuildCaches, DropOrphaned,
         FreeLock, FinishBuild, BuildFails, DropFails, Fail, Crash, Reclaim, Orphan,
         ExecutionTimesOut, ChangeContent, ExpireList, ExpireLock, Stamps
<1> QED
  BY <1>1, <1>2, <1>3, <1>4, <1>5

\* dropOrphanedTables drops a loaded table only where a newer one is loaded, if no
\* other build was loading when it chose the tables.
THEOREM LoadedAreReplacedFirst == Spec => ReplacedFirst
<1>1. TablesOK /\ [Next]_vars =>
        [\A t \in tables \ loading :
           \/ t \in tables'
           \/ \E u \in tables' \ loading' : u.at > t.at
           \/ \E b \in DOMAIN build : HoldsLock(b) /\ ~build[b].whole]_vars
  BY StepReplacesFirst
<1> QED
  BY <1>1, TablesAreOK, PTL DEF Spec, ReplacedFirst
=============================================================================
