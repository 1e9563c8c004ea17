------------------------------ MODULE StoreData ------------------------------
(***************************************************************************)
(* How Cube Store moves the rows of an index while they are read           *)
(* (ChunkStore, CompactionServiceImpl, SchedulerImpl, DataGCLoop and the    *)
(* operations of RocksMetaStore they call).                                *)
(*                                                                         *)
(* An import cuts its rows into chunks, one for each active partition, and *)
(* activates them together.  A compaction replaces a partition and some of *)
(* its chunks by new partitions.  Chunks that a partition still has when    *)
(* it is replaced, or gets later, are repartitioned: cut again for the      *)
(* partitions that are active by then.  All this happens in jobs which the  *)
(* scheduler adds when the meta store tells it of a change, in no order,    *)
(* and which keep nothing locked between the calls of the meta store.  What *)
(* has been replaced is deleted once no query can be reading it.            *)
(***************************************************************************)
EXTENDS Integers, FiniteSets

CONSTANTS
    MaxKey,         \* the keys of an index are 1 .. MaxKey
    Imports,        \* each has one row for some of the keys
    KeysOf,
    Loaded,         \* the imports whose rows are in the first partition already
    SplitThreshold, \* rows of a partition
    MaxPartitions,  \* bound on the partitions ever created
    MaxChunks,      \* bound on the chunks ever created
    MaxFailures,    \* bound on jobs that fail
    QueryTimeout,   \* in ticks
    NotUsedTimeout

Keys == 1 .. MaxKey
Rows == {r \in Imports \X Keys : r[2] \in KeysOf[r[1]]}
Partitions == 1 .. MaxPartitions
Chunks == 1 .. MaxChunks
Files == ({"partition"} \X Partitions) \cup ({"chunk"} \X Chunks)
JobTypes == {"compaction", "repartition"}

ASSUME ImportsAssumption == KeysOf \in [Imports -> SUBSET Keys] /\ Loaded \subseteq Imports
ASSUME BoundsAssumption ==
    /\ {MaxKey, MaxPartitions, SplitThreshold, NotUsedTimeout} \subseteq Nat \ {0}
    /\ {MaxChunks, MaxFailures, QueryTimeout} \subseteq Nat

VARIABLES
    partitions, \* rows of the table, and the rows in the file of each
    chunks,
    import,     \* how far an import has come, and the chunks it has created
    jobs,       \* the job rows, each with what its worker has read and created
    events,     \* what the scheduler has been told and not handled
    garbage,    \* what DataGCLoop deletes, and after how many ticks
    deleted,    \* files deleted from the remote file system
    select,     \* a query: the files it reads, and its age
    failures

vars == <<partitions, chunks, import, jobs, events, garbage, deleted, select, failures>>

NoPartition == [at |-> "none", parent |-> 0, min |-> 1, max |-> MaxKey + 1, rows |-> {}]
NoChunk == [at |-> "none", partition |-> 1, rows |-> {}]
NoSelect == [age |-> -1, files |-> {}]

Init ==
    /\ partitions = [p \in Partitions |-> 
          IF p = 1 THEN [NoPartition EXCEPT !.at = "active", !.rows = {r \in Rows : r[1] \in Loaded}]
          ELSE NoPartition]
    /\ chunks = [c \in Chunks |-> NoChunk]
    /\ import = [i \in Imports |-> [at |-> IF i \in Loaded THEN "done" ELSE "none", chunks |-> {}]]
    /\ jobs = {} /\ events = {} /\ garbage = {} /\ deleted = {}
    /\ select = NoSelect
    /\ failures = 0

(***************************************************************************)
(* Reading the meta store                                                  *)
(***************************************************************************)
Active == {p \in Partitions : partitions[p].at = "active"}
Unused(f) == {x \in DOMAIN f : f[x].at = "none"}
ActiveChunks(p) == {c \in Chunks : chunks[c].at = "active" /\ chunks[c].partition = p}
InRange(p, r) == r[2] >= partitions[p].min /\ r[2] < partitions[p].max
Within(p, R) == {r \in R : InRange(p, r)}

\* Mutant: a select looks for the chunks of the partition alone.
LineageOfOne(p) == {p}

\* partitions_up_to_root: what is in every set that has p and, of each member, the
\* parent.
Lineage(p) ==
    {q \in Partitions : \A S \in SUBSET Partitions :
        p \in S /\ (\A x \in S : partitions[x].parent \in S \cup {0}) => q \in S}

\* get_active_partitions_and_chunks_by_index_id_for_select: what a select reads for an
\* active partition, whole files.  A chunk of a partition that has been split is read
\* for each of the partitions it was split into.
ChunksToRead(p) == UNION {ActiveChunks(q) : q \in Lineage(p)}
FilesToRead(p) ==
    {<<"chunk", c>> : c \in ChunksToRead(p)} \cup
    IF partitions[p].rows = {} THEN {} ELSE {<<"partition", p>>}

RowsIn(f) == IF f[1] = "partition" THEN partitions[f[2]].rows ELSE chunks[f[2]].rows

\* The reads by which a select of everything comes across a row.
Reads(r) == {s \in Active \X Files : r \in RowsIn(s[2]) /\ s[2] \in FilesToRead(s[1])}

(***************************************************************************)
(* Chunks                                                                  *)
(***************************************************************************)
\* partition_data_frame: one chunk for each active partition with any of the
\* rows, created before it is uploaded and not active yet.
Cut(R) == {p \in Active : Within(p, R) # {}}

CreateChunks(R, new) ==
    /\ new \subseteq Unused(chunks)
    /\ Cardinality(new) = Cardinality(Cut(R))
    /\ \A c \in new, d \in Unused(chunks) \ new : c < d
    /\ \E for \in [new -> Cut(R)] :
          /\ \A c, d \in new : c < d => for[c] < for[d]
          /\ chunks' = [c \in Chunks |->
                IF c \in new THEN [at |-> "created", partition |-> for[c], rows |-> Within(for[c], R)]
                ELSE chunks[c]]

\* Chunks are activated and others deactivated in one write, with an event each.
Changed(C) == {<<"chunk", c>> : c \in C}
SwapChunks(old, new) ==
    chunks' = [c \in Chunks |-> IF c \in new THEN [chunks[c] EXCEPT !.at = "active"]
                                ELSE IF c \in old THEN [chunks[c] EXCEPT !.at = "inactive"]
                                ELSE chunks[c]]

(***************************************************************************)
(* Imports                                                                 *)
(***************************************************************************)
RowsOf(i) == {r \in Rows : r[1] = i}

PartitionData(i) ==
    /\ import[i].at = "none"
    /\ \E new \in SUBSET Chunks :
          /\ CreateChunks(RowsOf(i), new)
          /\ import' = [import EXCEPT ![i] = [at |-> "created", chunks |-> new]]
    /\ UNCHANGED <<partitions, jobs, events, garbage, deleted, select, failures>>

ActivateChunks(i) ==
    /\ import[i].at = "created"
    /\ SwapChunks({}, import[i].chunks)
    /\ events' = events \cup Changed(import[i].chunks)
    /\ import' = [import EXCEPT ![i].at = "done"]
    /\ UNCHANGED <<partitions, jobs, garbage, deleted, select, failures>>

(***************************************************************************)
(* The scheduler: process_event                                            *)
(***************************************************************************)
NewJob(p, type) == [type |-> type, partition |-> p, at |-> "scheduled", old |-> {}, todo |-> {}, new |-> {}]

\* add_job: there is one job for a partition and a type, in whatever state.
Scheduled(p, type) ==
    IF \E j \in jobs : j.partition = p /\ j.type = type THEN jobs
    ELSE jobs \cup {NewJob(p, type)}

\* Mutant: what has been replaced is deleted at once.
LaterNow(kind, x) == garbage \cup {[kind |-> kind, of |-> x, left |-> 0]}

\* GCTimedTask: to be deleted when the files have not been used for long enough.
Later(kind, x) == garbage \cup {[kind |-> kind, of |-> x, left |-> NotUsedTimeout]}

\* A chunk of an active partition may bring it over the threshold.
ProcessActiveChunk(c) ==
    /\ chunks[c].at = "active"
    /\ LET p == chunks[c].partition
       IN  jobs' \in IF p \in Active THEN {jobs, Scheduled(p, "compaction")}
                     ELSE {Scheduled(p, "repartition")}
    /\ UNCHANGED garbage

ProcessInactiveChunk(c) ==
    /\ chunks[c].at = "inactive"
    /\ garbage' = Later("chunk", c)
    /\ UNCHANGED jobs

ProcessPartition(p) ==
    IF p \in Active THEN UNCHANGED <<jobs, garbage>>
    ELSE /\ jobs' = Scheduled(p, "repartition")
         /\ garbage' = IF partitions[p].rows = {} THEN garbage ELSE Later("partition", p)

\* Mutant: the end of a job is of no interest.
ProcessJobIgnored(p) == UNCHANGED <<jobs, garbage>>

\* A repartition has ended: chunks that came too late for it need another one.
ProcessJob(p) ==
    /\ jobs' = IF ActiveChunks(p) = {} THEN jobs ELSE Scheduled(p, "repartition")
    /\ UNCHANGED garbage

\* A handler of its own for each event.  It reads the row as it is by then, so
\* that two events of a row which are both waiting are as good as one.
ProcessEvent(e) ==
    /\ e \in events
    /\ events' = events \ {e}
    /\ \/ e[1] = "chunk" /\ (ProcessActiveChunk(e[2]) \/ ProcessInactiveChunk(e[2]))
       \/ e[1] = "chunk" /\ chunks[e[2]].at = "deleted" /\ UNCHANGED <<jobs, garbage>>
       \/ e[1] = "partition" /\ ProcessPartition(e[2])
       \/ e[1] = "job" /\ ProcessJob(e[2])
    /\ UNCHANGED <<partitions, chunks, import, deleted, select, failures>>

(***************************************************************************)
(* Jobs                                                                    *)
(***************************************************************************)
Becomes(j, k) == jobs' = (jobs \ {j}) \cup {k}

\* run_local: a job that has done its work is deleted, which the scheduler is
\* told of only later; one that fails stays.
Completed(j) ==
    /\ j.at = "swapped"
    /\ jobs' = jobs \ {j}
    /\ events' = events \cup {<<"job", j.partition>>}
    /\ UNCHANGED <<partitions, chunks, import, garbage, deleted, select, failures>>

\* A job that has timed out fails, though its work goes on and may be done.
JobFails(j) ==
    /\ failures < MaxFailures
    /\ failures' = failures + 1
    /\ j.at \in {"read", "created", "swapped"}
    /\ Becomes(j, [j EXCEPT !.at = "error"])
    /\ UNCHANGED <<partitions, chunks, import, events, garbage, deleted, select>>

\* The rows of the partition and of the chunks, between the keys from and to.
Merged(j, from, to) ==
    {r \in partitions[j.partition].rows \cup UNION {chunks[c].rows : c \in j.old} :
        r[2] >= from /\ r[2] < to}

\* The first of the chunks, as many as are small enough, get_partition_for_compaction
\* and create_partition: what is created is not active, and nobody looks at it.
CompactCreate(j) ==
    /\ j.type = "compaction" /\ j.at = "scheduled"
    /\ j.partition \in Active
    /\ \E C \in SUBSET ActiveChunks(j.partition) \ {{}}, N \in SUBSET Unused(partitions) :
          LET k == [j EXCEPT !.at = "created", !.old = C, !.new = N]
              rows == Cardinality(Merged(k, 1, MaxKey + 1))
          IN  /\ Cardinality(N) = (rows + SplitThreshold - 1) \div SplitThreshold
              /\ \A p \in N, q \in Unused(partitions) \ N : p < q
              /\ partitions' = [p \in Partitions |->
                    IF p \in N THEN [NoPartition EXCEPT !.at = "inactive", !.parent = j.partition]
                    ELSE partitions[p]]
              /\ Becomes(j, k)
    /\ UNCHANGED <<chunks, import, events, garbage, deleted, select, failures>>

\* A partition ends where the next one begins, the last one at the key end.
EndOf(p, N, low, end) ==
    CHOOSE h \in {low[q] : q \in N} \cup {end} :
        h > low[p] /\ \A q \in N : low[q] > low[p] => low[q] >= h

\* swap_active_partitions.  The rows go to the new partitions in the order of
\* their keys; a partition begins with the first key it gets, and one that gets
\* no rows is left out.  The job is deleted later, but then its partition is not
\* active, nobody schedules a compaction for it, and the deletion is of no interest.
CompactSwap(j) ==
    /\ j.type = "compaction" /\ j.at = "created"
    /\ j.partition \in Active
    /\ \E N \in SUBSET j.new, low \in [j.new -> Keys] :
          LET High(p) == EndOf(p, N, low, partitions[j.partition].max)
          IN  /\ \A p \in N, q \in j.new : q < p => q \in N /\ low[q] < low[p]
              /\ \A p \in j.new : p \notin N => low[p] = 1
              /\ partitions[j.partition].min \in {low[p] : p \in N}
              /\ \A p \in N : /\ low[p] \in partitions[j.partition].min .. partitions[j.partition].max - 1
                              /\ Merged(j, low[p], High(p)) # {}
              /\ partitions' = [p \in Partitions |->
                    IF p = j.partition THEN [partitions[p] EXCEPT !.at = "inactive"]
                    ELSE IF p \in N
                    THEN [partitions[p] EXCEPT !.at = "active", !.min = low[p], !.max = High(p),
                                               !.rows = Merged(j, low[p], High(p))]
                    ELSE partitions[p]]
    /\ SwapChunks(j.old, {})
    /\ events' = events \cup Changed(j.old) \cup {<<"partition", j.partition>>}
    /\ jobs' = jobs \ {j}
    /\ UNCHANGED <<import, garbage, deleted, select, failures>>

RepartitionRead(j) ==
    /\ j.type = "repartition" /\ j.at = "scheduled"
    /\ Becomes(j, [j EXCEPT !.at = "read", !.old = ActiveChunks(j.partition),
                            !.todo = ActiveChunks(j.partition)])
    /\ UNCHANGED <<partitions, chunks, import, events, garbage, deleted, select, failures>>

\* One chunk after the other, for the partitions that are active by then.
RepartitionCreate(j) ==
    /\ j.type = "repartition" /\ j.at = "read"
    /\ \E c \in j.todo, new \in SUBSET Chunks :
          /\ \A d \in j.todo : c <= d
          /\ CreateChunks(chunks[c].rows, new)
          /\ Becomes(j, [j EXCEPT !.todo = @ \ {c}, !.new = @ \cup new])
    /\ UNCHANGED <<partitions, import, events, garbage, deleted, select, failures>>

\* swap_chunks.
RepartitionSwap(j) ==
    /\ j.type = "repartition" /\ j.at = "read" /\ j.todo = {}
    /\ SwapChunks(j.old, j.new)
    /\ events' = events \cup Changed(j.old \cup j.new)
    /\ Becomes(j, [j EXCEPT !.at = "swapped"])
    /\ UNCHANGED <<partitions, import, garbage, deleted, select, failures>>

(***************************************************************************)
(* Queries, time and DataGCLoop                                            *)
(***************************************************************************)
StartSelect ==
    /\ select = NoSelect
    /\ select' = [age |-> 0, files |-> UNION {FilesToRead(p) : p \in Active}]
    /\ UNCHANGED <<partitions, chunks, import, jobs, events, garbage, deleted, failures>>

EndSelect ==
    /\ select # NoSelect
    /\ select' = NoSelect
    /\ UNCHANGED <<partitions, chunks, import, jobs, events, garbage, deleted, failures>>

Older == [g \in garbage |-> [g EXCEPT !.left = IF @ = 0 THEN 0 ELSE @ - 1]]

\* Mutant: a query has all the time it wants.
TickForever ==
    /\ select.age < QueryTimeout + 1
    /\ select' = [select EXCEPT !.age = IF @ = -1 THEN -1 ELSE @ + 1]
    /\ garbage' = {Older[g] : g \in garbage}
    /\ UNCHANGED <<partitions, chunks, import, jobs, events, deleted, failures>>

\* A query that has reached the time-out ends before the next tick.
Tick ==
    /\ select.age < QueryTimeout
    /\ select' = [select EXCEPT !.age = IF @ = -1 THEN -1 ELSE @ + 1]
    /\ garbage' = {Older[g] : g \in garbage}
    /\ UNCHANGED <<partitions, chunks, import, jobs, events, deleted, failures>>

\* delete_chunk refuses one that is active; its event deletes the file.
Collect(g) ==
    /\ g \in garbage /\ g.left = 0
    /\ garbage' = garbage \ {g}
    /\ IF g.kind = "partition" THEN UNCHANGED chunks
       ELSE /\ chunks[g.of].at # "active"
            /\ chunks' = [chunks EXCEPT ![g.of].at = "deleted"]
    /\ deleted' = deleted \cup {<<g.kind, g.of>>}
    /\ UNCHANGED <<partitions, import, jobs, events, select, failures>>

Job(j) ==
    \/ CompactCreate(j) \/ CompactSwap(j)
    \/ RepartitionRead(j) \/ RepartitionCreate(j) \/ RepartitionSwap(j)
    \/ Completed(j)

Work ==
    \/ \E i \in Imports : ActivateChunks(i)
    \/ \E e \in events : ProcessEvent(e)
    \/ \E j \in jobs : Job(j)

Next ==
    \/ Work
    \/ \E i \in Imports : PartitionData(i)
    \/ \E j \in jobs : JobFails(j)
    \/ StartSelect \/ EndSelect \/ Tick
    \/ \E g \in garbage : Collect(g)

Spec == Init /\ [][Next]_vars

\* Imports end, events are handled and jobs are run.
FairSpec == Spec /\ WF_vars(Work)
-----------------------------------------------------------------------------
JobRow == [type : JobTypes, partition : Partitions,
         at : {"scheduled", "read", "created", "swapped", "error"},
         old : SUBSET Chunks, todo : SUBSET Chunks, new : SUBSET (Chunks \cup Partitions)]

TypeOK ==
    /\ partitions \in [Partitions -> [at : {"none", "inactive", "active"},
                          parent : 0 .. MaxPartitions, min : Keys, max : 1 .. MaxKey + 1,
                          rows : SUBSET Rows]]
    /\ chunks \in [Chunks -> [at : {"none", "created", "active", "inactive", "deleted"},
                      partition : Partitions, rows : SUBSET Rows]]
    /\ import \in [Imports -> [at : {"none", "created", "done"}, chunks : SUBSET Chunks]]
    /\ jobs \subseteq JobRow
    /\ events \subseteq ({"chunk"} \X Chunks) \cup ({"partition", "job"} \X Partitions)
    /\ garbage \subseteq [kind : {"partition", "chunk"}, of : Partitions \cup Chunks,
                          left : 0 .. NotUsedTimeout]
    /\ deleted \subseteq Files
    /\ select \in [age : -1 .. QueryTimeout, files : SUBSET Files]
    /\ failures \in 0 .. MaxFailures

\* However imports, compactions and repartitions overlap and whichever of them fail:
\* a row of an import that has been activated is in one file and no other is read, a
\* select that asks for its key alone finds it there, and one that asks for everything
\* reads it once, unless it is in a chunk whose partition has been replaced.  Rows
\* whose import has not been activated are not read.
EachRowIsRead ==
    \A r \in Rows :
        IF import[r[1]].at # "done" THEN Reads(r) = {}
        ELSE \E p \in Active : \E f \in FilesToRead(p) :
                /\ InRange(p, r) /\ r \in RowsIn(f)
                /\ \A s \in Reads(r) : s[2] = f
                /\ f[1] = "partition" \/ chunks[f[2]].partition \in Active => Reads(r) = {<<p, f>>}

\* A file is not deleted while a select that has been planned reads it.
FilesAreKept == select.files \cap deleted = {}

\* In the end no chunk is left behind on a partition that has been replaced,
\* unless its repartition has failed: a failed job is in the way of others.
ChunksMoveOn ==
    <>[](\A c \in Chunks : chunks[c].at = "active" =>
            \/ chunks[c].partition \in Active
            \/ \E j \in jobs : j.partition = chunks[c].partition /\ j.at = "error")
=============================================================================
