--------------------------- MODULE StoreDataProofs ---------------------------
(***************************************************************************)
(* TypeOK, EachRowIsRead and FilesAreKept of StoreData, for every set of    *)
(* imports and every bound.                                                *)
(***************************************************************************)
EXTENDS StoreData, FiniteSetTheorems, WellFoundedInduction, TLAPS

In(p, k) == k >= partitions[p].min /\ k < partitions[p].max

\* What a repartition creates is chunks.
CreatesChunks == \A j \in jobs : j.type = "repartition" => j.new \subseteq Chunks

\* A partition that will not be active again: no compaction is about to swap it in.
Replaced(p) ==
    /\ partitions[p].at = "inactive"
    /\ \A j \in jobs : j.type = "compaction" /\ j.at = "created" => p \notin j.new

Settled(p) == p \in Active \/ Replaced(p)

\* The active partitions share the keys among them.
Tiling ==
    /\ \A k \in Keys : \E p \in Active : In(p, k)
    /\ \A k \in Keys : \A p, q \in Active : In(p, k) /\ In(q, k) => p = q

\* Who looks for a key in an active partition comes across q, if q ever had the key.
Rooted(q) == \A p \in Active : \A k \in Keys : In(p, k) /\ In(q, k) => q \in Lineage(p)

PartitionsOK ==
    /\ \A p \in Partitions : partitions[p].parent \in Partitions =>
            partitions[partitions[p].parent].at # "none"
    /\ \A p \in Active : \A r \in partitions[p].rows : In(p, r[2])

\* A chunk lies within a partition that is or was active.
ChunksOK ==
    \A c \in Chunks :
        chunks[c].at # "none" =>
            /\ Settled(chunks[c].partition) /\ Rooted(chunks[c].partition)
            /\ \A r \in chunks[c].rows : In(chunks[c].partition, r[2])

\* The chunks of C hold each of the rows R once, and no other rows.
Divides(C, R) ==
    /\ \A c \in C : chunks[c].at = "created" /\ chunks[c].rows \subseteq R
    /\ \A r \in R : \E c \in C : r \in chunks[c].rows
    /\ \A c, d \in C : c # d => chunks[c].rows \cap chunks[d].rows = {}

ImportsOK ==
    /\ \A i \in Imports : import[i].at = "created" => Divides(import[i].chunks, RowsOf(i))
    /\ \A i, k \in Imports : import[i].at = "created" /\ import[k].at = "created" /\ i # k =>
            import[i].chunks \cap import[k].chunks = {}

RowsOfChunks(C) == UNION {chunks[c].rows : c \in C}

CompactionOK(j) ==
    j.type = "compaction" /\ j.at = "created" =>
        /\ j.new \subseteq {p \in Partitions : partitions[p].at = "inactive"}
        /\ \A p \in j.new : partitions[p].parent = j.partition
        /\ Settled(j.partition)
        /\ j.partition \in Active => j.old \subseteq ActiveChunks(j.partition)

RepartitionOK(j) ==
    j.type = "repartition" =>
        /\ Replaced(j.partition)
        /\ j.at = "read" => /\ j.todo \subseteq j.old
                            /\ j.old \subseteq ActiveChunks(j.partition)
                            /\ Divides(j.new, RowsOfChunks(j.old \ j.todo))
                            /\ \A i \in Imports : import[i].at = "created" =>
                                    import[i].chunks \cap j.new = {}

\* A job has created nothing before it has run; that of a compaction ends with its swap.
StageOK(j) ==
    /\ j.at = "scheduled" => j.new = {}
    /\ j.at = "swapped" => j.type = "repartition"

Cutting(j) == j.type = "repartition" /\ j.at = "read"

JobsOK ==
    /\ \A j, k \in jobs : j.partition = k.partition /\ j.type = k.type => j = k
    /\ \A j \in jobs : CompactionOK(j) /\ RepartitionOK(j) /\ StageOK(j)
    /\ \A j, k \in jobs : Cutting(j) /\ Cutting(k) /\ j # k => j.new \cap k.new = {}

EventsOK == \A e \in events : e[1] \in {"partition", "job"} => Replaced(e[2])

GarbageOK ==
    \A g \in garbage :
        \/ g.kind = "chunk" /\ g.of \in Chunks /\ chunks[g.of].at \in {"inactive", "deleted"}
        \/ g.kind = "partition" /\ g.of \in Partitions /\ Replaced(g.of)

DeletedOK ==
    /\ \A c \in Chunks : <<"chunk", c>> \in deleted => chunks[c].at = "deleted"
    /\ \A p \in Partitions : <<"partition", p>> \in deleted => Replaced(p)

\* What is a file of the select's goes later than the select.
SelectOK ==
    /\ select.age = -1 => select.files = {}
    /\ \A g \in garbage :
        <<g.kind, g.of>> \in select.files => g.left + select.age >= NotUsedTimeout

\* Where a row is: in the file of an active partition, or in an active chunk.
InPartition(r, p) == p \in Active /\ r \in partitions[p].rows
InChunk(r, c) == c \in Chunks /\ chunks[c].at = "active" /\ r \in chunks[c].rows

RowsOK ==
    \A r \in Rows :
        /\ import[r[1]].at = "done" =>
                (\E p \in Partitions : InPartition(r, p)) \/ (\E c \in Chunks : InChunk(r, c))
        /\ \A p \in Partitions : InPartition(r, p) =>
                import[r[1]].at = "done" /\ \A c \in Chunks : ~ InChunk(r, c)
        /\ \A c \in Chunks : InChunk(r, c) =>
                import[r[1]].at = "done" /\ \A d \in Chunks : InChunk(r, d) => c = d

StoreInv ==
    /\ TypeOK /\ CreatesChunks /\ Tiling /\ PartitionsOK /\ ChunksOK /\ ImportsOK /\ JobsOK
    /\ EventsOK /\ GarbageOK /\ DeletedOK /\ RowsOK

FilesInv == SelectOK /\ FilesAreKept

\* No partition stems from one that is to be swapped in, and none that is active from
\* another that is.
LineageOK ==
    /\ \A j \in jobs : j.type = "compaction" /\ j.at = "created" =>
            \A p \in Partitions : partitions[p].parent \notin j.new
    /\ \A p, q \in Active : q \in Lineage(p) => q = p

-----------------------------------------------------------------------------
(***************************************************************************)
(* Types                                                                   *)
(***************************************************************************)
PartitionRow == [at : {"none", "inactive", "active"}, parent : 0 .. MaxPartitions,
                 min : Keys, max : 1 .. MaxKey + 1, rows : SUBSET Rows]
ChunkRow == [at : {"none", "created", "active", "inactive", "deleted"},
             partition : Partitions, rows : SUBSET Rows]
ImportRow == [at : {"none", "created", "done"}, chunks : SUBSET Chunks]
GarbageRow == [kind : {"partition", "chunk"}, of : Partitions \cup Chunks,
               left : 0 .. NotUsedTimeout]
SelectRow == [age : -1 .. QueryTimeout, files : SUBSET Files]
Events == ({"chunk"} \X Chunks) \cup ({"partition", "job"} \X Partitions)

LEMMA Types ==
    TypeOK <=>
        /\ partitions \in [Partitions -> PartitionRow]
        /\ chunks \in [Chunks -> ChunkRow]
        /\ import \in [Imports -> ImportRow]
        /\ jobs \subseteq JobRow
        /\ events \subseteq Events
        /\ garbage \subseteq GarbageRow
        /\ deleted \subseteq Files
        /\ select \in SelectRow
        /\ failures \in 0 .. MaxFailures
BY DEF TypeOK, PartitionRow, ChunkRow, ImportRow, GarbageRow, SelectRow, Events

\* The same of the next state.
LEMMA TypesNext ==
    TypeOK' <=>
        /\ partitions' \in [Partitions -> PartitionRow]
        /\ chunks' \in [Chunks -> ChunkRow]
        /\ import' \in [Imports -> ImportRow]
        /\ jobs' \subseteq JobRow
        /\ events' \subseteq Events
        /\ garbage' \subseteq GarbageRow
        /\ deleted' \subseteq Files
        /\ select' \in SelectRow
        /\ failures' \in 0 .. MaxFailures
BY DEF TypeOK, PartitionRow, ChunkRow, ImportRow, GarbageRow, SelectRow, Events

LEMMA Bounds ==
    /\ MaxKey \in Nat /\ MaxKey > 0 /\ MaxPartitions \in Nat /\ MaxPartitions > 0
    /\ NotUsedTimeout \in Nat /\ NotUsedTimeout > 0 /\ SplitThreshold \in Nat /\ SplitThreshold > 0
    /\ MaxChunks \in Nat /\ MaxFailures \in Nat /\ QueryTimeout \in Nat
BY BoundsAssumption

LEMMA RowTypes ==
    /\ \A p \in Partitions : p \in Nat \ {0}
    /\ \A r \in Rows : r[1] \in Imports /\ r[2] \in Keys /\ r[2] \in KeysOf[r[1]]
    /\ \A k \in Keys : k \in Nat \ {0}
BY ImportsAssumption, BoundsAssumption DEF Partitions, Rows, Keys

\* Typed chunks are what CreateChunks and SwapChunks make of typed chunks.
LEMMA CreatedTypes ==
    ASSUME TypeOK, NEW R \in SUBSET Rows, NEW new, CreateChunks(R, new)
    PROVE  new \subseteq Chunks /\ chunks' \in [Chunks -> ChunkRow]
<1>1. chunks \in [Chunks -> ChunkRow]
  BY Types
<1>2. new \subseteq Chunks
  BY <1>1 DEF CreateChunks, Unused
<1>3. PICK for \in [new -> Cut(R)] :
          chunks' = [c \in Chunks |->
                IF c \in new THEN [at |-> "created", partition |-> for[c], rows |-> Within(for[c], R)]
                ELSE chunks[c]]
  BY DEF CreateChunks
<1>4. ASSUME NEW c \in new
      PROVE  [at |-> "created", partition |-> for[c], rows |-> Within(for[c], R)] \in ChunkRow
  BY <1>3 DEF Cut, Active, Within, ChunkRow
<1> QED
  BY <1>1, <1>2, <1>3, <1>4

LEMMA SwappedTypes ==
    ASSUME TypeOK, NEW old, NEW new, SwapChunks(old, new)
    PROVE  chunks' \in [Chunks -> ChunkRow]
BY Types DEF SwapChunks, ChunkRow

LEMMA ScheduledTypes ==
    ASSUME TypeOK, NEW p \in Partitions, NEW type \in JobTypes
    PROVE  Scheduled(p, type) \subseteq JobRow
<1>1. NewJob(p, type) \in JobRow
  BY DEF NewJob, JobRow
<1> QED
  BY <1>1, Types DEF Scheduled

LEMMA LaterTypes ==
    /\ \A c \in Chunks : [kind |-> "chunk", of |-> c, left |-> NotUsedTimeout] \in GarbageRow
    /\ \A p \in Partitions : [kind |-> "partition", of |-> p, left |-> NotUsedTimeout] \in GarbageRow
BY BoundsAssumption DEF GarbageRow

\* The least of some numbers.
LEMMA NatMin ==
    ASSUME NEW T \in SUBSET Nat, T # {}
    PROVE  \E m \in T : \A n \in T : m <= n
<1>1. IsWellFoundedOn(OpToRel(<, Nat), Nat)
  BY NatLessThanWellFounded
<1>2. PICK m \in T : \A n \in T : ~ (<<n, m>> \in OpToRel(<, Nat))
  BY <1>1, WFMin
<1>3. ASSUME NEW n \in T PROVE m <= n
  <2>1. n < m => <<n, m>> \in OpToRel(<, Nat)
    BY Zenon DEF OpToRel
  <2>2. ~ (n < m)
    BY <1>2, <2>1, Zenon
  <2> QED
    BY <2>2
<1> QED
  BY <1>3

\* A new partition ends after its first key, where no other begins in between.
LEMMA EndOfIs ==
    ASSUME NEW N, NEW low, NEW end \in Nat, \A q \in N : low[q] \in Nat /\ low[q] < end, NEW p \in N
    PROVE  LET h == EndOf(p, N, low, end)
           IN  /\ h \in {low[q] : q \in N} \cup {end}
               /\ h \in Nat /\ h > low[p] /\ h <= end
               /\ \A q \in N : low[q] > low[p] => low[q] >= h
<1> DEFINE T == {h \in {low[q] : q \in N} \cup {end} : h > low[p]}
<1>1. T \in SUBSET Nat /\ end \in T
  OBVIOUS
<1>2. PICK m \in T : \A n \in T : m <= n
  BY <1>1, NatMin
<1>3. \A q \in N : low[q] > low[p] => low[q] \in T
  OBVIOUS
<1>4. \E h \in {low[q] : q \in N} \cup {end} :
        h > low[p] /\ \A q \in N : low[q] > low[p] => low[q] >= h
  BY <1>1, <1>2, <1>3
<1> QED
  BY <1>4 DEF EndOf

LEMMA InitTypeOK == Init => TypeOK
<1> SUFFICES ASSUME Init PROVE TypeOK
  OBVIOUS
<1>1. 1 \in Partitions /\ NoPartition \in PartitionRow /\ NoChunk \in ChunkRow
  <2>1. 1 \in Partitions /\ 1 \in Keys /\ 0 \in 0 .. MaxPartitions /\ MaxKey + 1 \in 1 .. MaxKey + 1
    BY Bounds DEF Partitions, Keys
  <2> QED
    BY <2>1 DEF NoPartition, NoChunk, PartitionRow, ChunkRow
<1>2. partitions \in [Partitions -> PartitionRow]
  <2> DEFINE R == {r \in Rows : r[1] \in Loaded}
  <2>1. R \in SUBSET Rows
    OBVIOUS
  <2> HIDE DEF R
  <2>2. [NoPartition EXCEPT !.at = "active", !.rows = R] \in PartitionRow
    BY <1>1, <2>1 DEF PartitionRow
  <2> QED
    BY <1>1, <2>2 DEF R, Init
<1>3. chunks \in [Chunks -> ChunkRow] /\ import \in [Imports -> ImportRow]
  BY <1>1 DEF ImportRow, Init
<1>4. select \in SelectRow
  <2>1. -1 \in -1 .. QueryTimeout
    BY Bounds
  <2> QED
    BY <2>1 DEF SelectRow, NoSelect, Init
<1> QED
  <2>1. jobs = {} /\ events = {} /\ garbage = {} /\ deleted = {} /\ failures = 0
    BY DEF Init
  <2>2. failures \in 0 .. MaxFailures
    BY <2>1, Bounds
  <2> QED
    BY <1>2, <1>3, <1>4, <2>1, <2>2, Types

LEMMA JobTypeOK ==
    ASSUME TypeOK, CreatesChunks, NEW j \in jobs, Job(j)
    PROVE  TypeOK'
<1> USE Types, TypesNext DEF Becomes
<1>0. j \in JobRow
  OBVIOUS
<1>1. CASE CompactCreate(j)
  <2>1. PICK C \in SUBSET ActiveChunks(j.partition) \ {{}}, N \in SUBSET Unused(partitions) :
          /\ partitions' = [p \in Partitions |->
                IF p \in N THEN [NoPartition EXCEPT !.at = "inactive", !.parent = j.partition]
                ELSE partitions[p]]
          /\ Becomes(j, [j EXCEPT !.at = "created", !.old = C, !.new = N])
    BY <1>1 DEF CompactCreate
  <2>2. C \subseteq Chunks /\ N \subseteq Partitions
    BY <2>1 DEF ActiveChunks, Unused
  <2>3. [j EXCEPT !.at = "created", !.old = C, !.new = N] \in JobRow
    BY <1>0, <2>2 DEF JobRow
  <2>4. [NoPartition EXCEPT !.at = "inactive", !.parent = j.partition] \in PartitionRow
    <3>1. 1 \in Keys /\ j.partition \in 0 .. MaxPartitions /\ MaxKey + 1 \in 1 .. MaxKey + 1
      BY <1>0, Bounds DEF Partitions, Keys, JobRow
    <3> QED
      BY <3>1 DEF NoPartition, PartitionRow
  <2>5. partitions' \in [Partitions -> PartitionRow]
    BY <2>1, <2>4
  <2> QED
    BY <1>1, <2>1, <2>3, <2>5 DEF CompactCreate
<1>2. CASE CompactSwap(j)
  <2>1. PICK N \in SUBSET j.new, low \in [j.new -> Keys] :
          /\ \A p \in N : low[p] \in partitions[j.partition].min .. partitions[j.partition].max - 1
          /\ partitions' = [p \in Partitions |->
                IF p = j.partition THEN [partitions[p] EXCEPT !.at = "inactive"]
                ELSE IF p \in N
                THEN [partitions[p] EXCEPT !.at = "active", !.min = low[p],
                         !.max = EndOf(p, N, low, partitions[j.partition].max),
                         !.rows = Merged(j, low[p], EndOf(p, N, low, partitions[j.partition].max))]
                ELSE partitions[p]]
    BY <1>2 DEF CompactSwap
  <2> DEFINE High(p) == EndOf(p, N, low, partitions[j.partition].max)
  <2>3. partitions[j.partition] \in PartitionRow
    BY <1>0 DEF JobRow
  <2>2. \A p \in N : low[p] \in Nat /\ low[p] < partitions[j.partition].max
    <3>1. \A p \in N : low[p] \in Keys /\ low[p] \in partitions[j.partition].min .. partitions[j.partition].max - 1
      BY <2>1
    <3>2. partitions[j.partition].min \in Nat /\ partitions[j.partition].max \in Nat
      BY <2>3, Bounds DEF Keys, PartitionRow
    <3> QED
      BY <3>1, <3>2
  <2>4. ASSUME NEW p \in N
        PROVE  High(p) \in 1 .. MaxKey + 1 /\ low[p] \in Keys /\ Merged(j, low[p], High(p)) \subseteq Rows
    <3>1. High(p) \in Nat /\ High(p) > low[p] /\ High(p) <= partitions[j.partition].max
      <4>1. partitions[j.partition].max \in Nat
        BY <2>3, Bounds DEF PartitionRow
      <4> QED
        BY <2>2, <4>1, EndOfIs
    <3>2. partitions[j.partition].max \in 1 .. MaxKey + 1 /\ low[p] \in Nat
      BY <2>2, <2>3 DEF PartitionRow
    <3>3. High(p) \in 1 .. MaxKey + 1
      BY <3>1, <3>2, Bounds
    <3>4. partitions[j.partition].rows \subseteq Rows /\ \A c \in j.old : chunks[c].rows \subseteq Rows
      BY <1>0, <2>3 DEF PartitionRow, ChunkRow, JobRow
    <3> QED
      BY <2>1, <3>3, <3>4 DEF Merged
  <2>5. partitions' \in [Partitions -> PartitionRow]
    BY <2>1, <2>4, ZenonT(30) DEF PartitionRow
  <2>6. events' \subseteq Events
    <3>1. j.old \subseteq Chunks /\ j.partition \in Partitions
      BY <1>0 DEF JobRow
    <3>2. events' = events \cup Changed(j.old) \cup {<<"partition", j.partition>>}
      BY <1>2 DEF CompactSwap
    <3> QED
      BY <3>1, <3>2 DEF Changed, Events
  <2>7. chunks' \in [Chunks -> ChunkRow]
    BY <1>2, SwappedTypes DEF CompactSwap
  <2> QED
    BY <1>2, <2>5, <2>6, <2>7 DEF CompactSwap
<1>3. CASE RepartitionRead(j)
  <2>1. [j EXCEPT !.at = "read", !.old = ActiveChunks(j.partition),
                  !.todo = ActiveChunks(j.partition)] \in JobRow
    BY <1>0 DEF JobRow, ActiveChunks
  <2> QED
    BY <1>3, <2>1 DEF RepartitionRead
<1>4. CASE RepartitionCreate(j)
  <2>1. PICK c \in j.todo, new \in SUBSET Chunks :
          /\ CreateChunks(chunks[c].rows, new)
          /\ Becomes(j, [j EXCEPT !.todo = @ \ {c}, !.new = @ \cup new])
    BY <1>4 DEF RepartitionCreate
  <2>2. chunks[c].rows \in SUBSET Rows
    BY <1>0, <2>1 DEF JobRow, ChunkRow
  <2>3. [j EXCEPT !.todo = @ \ {c}, !.new = @ \cup new] \in JobRow
    BY <1>0, <2>1 DEF JobRow
  <2> QED
    BY <1>4, <2>1, <2>2, <2>3, CreatedTypes DEF RepartitionCreate
<1>5. CASE RepartitionSwap(j)
  <2>1. [j EXCEPT !.at = "swapped"] \in JobRow
    BY <1>0 DEF JobRow
  <2>2. j.old \cup j.new \subseteq Chunks
    BY <1>0, <1>5 DEF JobRow, CreatesChunks, RepartitionSwap
  <2>3. events' \subseteq Events
    BY <1>5, <2>2 DEF RepartitionSwap, Changed, Events
  <2>4. chunks' \in [Chunks -> ChunkRow]
    BY <1>5, SwappedTypes DEF RepartitionSwap
  <2> QED
    BY <1>5, <2>1, <2>3, <2>4 DEF RepartitionSwap
<1>6. CASE Completed(j)
  BY <1>0, <1>6 DEF Completed, Events, JobRow
<1> QED
  BY <1>1, <1>2, <1>3, <1>4, <1>5, <1>6 DEF Job

LEMMA EventTypeOK ==
    ASSUME TypeOK, NEW e \in events, ProcessEvent(e)
    PROVE  TypeOK'
<1> USE Types, TypesNext
<1>0. UNCHANGED <<partitions, chunks, import, deleted, select, failures>> /\ events' \subseteq events
  BY DEF ProcessEvent
<1>1. e \in Events
  OBVIOUS
<1>2. ASSUME jobs' \subseteq JobRow, garbage' \subseteq GarbageRow PROVE TypeOK'
  BY <1>0, <1>2
<1>3. CASE e[1] = "chunk"
  <2>1. e[2] \in Chunks
    BY <1>1, <1>3 DEF Events
  <2>2. chunks[e[2]].partition \in Partitions
    BY <2>1 DEF ChunkRow
  <2>3. CASE ProcessActiveChunk(e[2])
    BY <1>2, <2>2, <2>3, ScheduledTypes DEF ProcessActiveChunk, JobTypes
  <2>4. CASE ProcessInactiveChunk(e[2])
    BY <1>2, <2>1, <2>4, LaterTypes DEF ProcessInactiveChunk, Later
  <2>5. CASE UNCHANGED <<jobs, garbage>>
    BY <1>2, <2>5
  <2> QED
    BY <1>3, <2>3, <2>4, <2>5 DEF ProcessEvent
<1>4. CASE e[1] \in {"partition", "job"}
  <2>1. e[2] \in Partitions
    BY <1>1, <1>4 DEF Events
  <2>2. CASE ProcessPartition(e[2])
    BY <1>2, <2>1, <2>2, LaterTypes, ScheduledTypes DEF ProcessPartition, Later, JobTypes
  <2>3. CASE ProcessJob(e[2])
    BY <1>2, <2>1, <2>3, ScheduledTypes DEF ProcessJob, JobTypes
  <2> QED
    BY <1>4, <2>2, <2>3 DEF ProcessEvent
<1> QED
  BY <1>1, <1>3, <1>4 DEF Events

LEMMA OlderTypes ==
    ASSUME TypeOK, NEW g \in garbage
    PROVE  Older[g] \in GarbageRow
BY Types, Bounds DEF Older, GarbageRow

LEMMA NextTypeOK == StoreInv /\ [Next]_vars => TypeOK'
<1> SUFFICES ASSUME TypeOK, CreatesChunks, GarbageOK, [Next]_vars PROVE TypeOK'
  BY DEF StoreInv
<1> USE Types, TypesNext
<1>1. ASSUME NEW i \in Imports, ActivateChunks(i) PROVE TypeOK'
  <2>1. import[i].chunks \subseteq Chunks
    BY DEF ImportRow
  <2>2. chunks' \in [Chunks -> ChunkRow]
    BY <1>1, SwappedTypes DEF ActivateChunks
  <2>3. import' \in [Imports -> ImportRow]
    BY <1>1 DEF ActivateChunks, ImportRow
  <2>4. events' \subseteq Events
    BY <1>1, <2>1 DEF ActivateChunks, Changed, Events
  <2> QED
    BY <1>1, <2>2, <2>3, <2>4 DEF ActivateChunks
<1>2. ASSUME NEW e \in events, ProcessEvent(e) PROVE TypeOK'
  BY <1>2, EventTypeOK
<1>3. ASSUME NEW j \in jobs, Job(j) PROVE TypeOK'
  BY <1>3, JobTypeOK
<1>4. ASSUME NEW i \in Imports, PartitionData(i) PROVE TypeOK'
  <2>1. PICK new \in SUBSET Chunks :
          /\ CreateChunks(RowsOf(i), new)
          /\ import' = [import EXCEPT ![i] = [at |-> "created", chunks |-> new]]
    BY <1>4 DEF PartitionData
  <2>2. chunks' \in [Chunks -> ChunkRow]
    BY <2>1, CreatedTypes DEF RowsOf
  <2>3. import' \in [Imports -> ImportRow]
    BY <2>1 DEF ImportRow
  <2> QED
    BY <1>4, <2>2, <2>3 DEF PartitionData
<1>5. ASSUME NEW j \in jobs, JobFails(j) PROVE TypeOK'
  <2>1. [j EXCEPT !.at = "error"] \in JobRow
    BY DEF JobRow
  <2>2. failures' \in 0 .. MaxFailures
    BY <1>5, Bounds DEF JobFails
  <2> QED
    BY <1>5, <2>1, <2>2 DEF JobFails, Becomes
<1>6. CASE StartSelect
  <2>1. \A p \in Active : FilesToRead(p) \subseteq Files
    BY DEF FilesToRead, ChunksToRead, ActiveChunks, Active, Files
  <2>2. select'.files \subseteq Files
    BY <1>6, <2>1 DEF StartSelect
  <2>3. 0 \in -1 .. QueryTimeout
    BY Bounds
  <2>4. select' \in SelectRow
    BY <1>6, <2>2, <2>3 DEF StartSelect, SelectRow
  <2> QED
    BY <1>6, <2>4 DEF StartSelect
<1>7. CASE EndSelect
  <2>1. -1 \in -1 .. QueryTimeout
    BY Bounds
  <2>2. NoSelect \in SelectRow
    BY <2>1 DEF NoSelect, SelectRow
  <2> QED
    BY <1>7, <2>2 DEF EndSelect
<1>8. CASE Tick
  <2>1. select' \in SelectRow
    BY <1>8, Bounds DEF Tick, SelectRow
  <2>2. garbage' \subseteq GarbageRow
    BY <1>8, OlderTypes DEF Tick
  <2> QED
    BY <1>8, <2>1, <2>2 DEF Tick
<1>9. ASSUME NEW g \in garbage, Collect(g) PROVE TypeOK'
  <2>1. chunks' \in [Chunks -> ChunkRow]
    BY <1>9 DEF Collect, ChunkRow
  <2>2. deleted' \subseteq Files
    BY <1>9 DEF Collect, Files, GarbageOK
  <2> QED
    BY <1>9, <2>1, <2>2 DEF Collect
<1>10. CASE UNCHANGED vars
  BY <1>10 DEF vars
<1> QED
  BY <1>1, <1>2, <1>3, <1>4, <1>5, <1>6, <1>7, <1>8, <1>9, <1>10 DEF Next, Work

-----------------------------------------------------------------------------
(***************************************************************************)
(* Lineage                                                                 *)
(***************************************************************************)
Used == {p \in Partitions : partitions[p].at # "none"}

LEMMA LineageSelf == \A p \in Partitions : p \in Lineage(p)
BY DEF Lineage

LEMMA LineageUp ==
    ASSUME NEW p \in Partitions, NEW c \in Partitions, partitions[c].parent = p,
           NEW q \in Lineage(p)
    PROVE  q \in Lineage(c)
<1>1. 0 \notin Partitions
  BY DEF Partitions
<1>2. ASSUME NEW S \in SUBSET Partitions, c \in S,
             \A x \in S : partitions[x].parent \in S \cup {0}
      PROVE  q \in S
  <2>1. p \in S
    BY <1>1, <1>2
  <2> QED
    BY <1>2, <2>1 DEF Lineage
<1> QED
  BY <1>2 DEF Lineage

\* A lineage stays when partitions are created.
LEMMA LineageStays ==
    ASSUME TypeOK, PartitionsOK, NEW p \in Used, NEW q \in Lineage(p),
           \A x \in Used : partitions'[x].parent = partitions[x].parent
    PROVE  q \in Lineage(p)'
<1>0. \A x \in Partitions : partitions[x].parent \in Partitions \cup {0}
  BY Types, Bounds DEF PartitionRow, Partitions
<1>1. ASSUME NEW S \in SUBSET Partitions, p \in S,
             \A x \in S : partitions'[x].parent \in S \cup {0}
      PROVE  q \in S
  <2> DEFINE U == S \cap Used
  <2>1. \A x \in U : partitions[x].parent \in U \cup {0}
    BY <1>0, <1>1 DEF PartitionsOK, Used
  <2>2. p \in U /\ U \in SUBSET Partitions
    BY <1>1
  <2> QED
    BY <2>1, <2>2 DEF Lineage
<1> QED
  BY <1>1 DEF Lineage

-----------------------------------------------------------------------------
(***************************************************************************)
(* Steps that leave the partitions, the chunks and the imports as they are  *)
(***************************************************************************)
\* What a compaction is about to swap in, it has been for some time.
NoNewCompaction ==
    \A j \in jobs' : j.type = "compaction" /\ j.at = "created" => j \in jobs

LEMMA ReplacedStays ==
    ASSUME UNCHANGED partitions, NoNewCompaction, NEW p
    PROVE  Replaced(p) => Replaced(p)'
BY DEF NoNewCompaction, Replaced

LEMMA RowsStay ==
    ASSUME StoreInv, UNCHANGED <<partitions, chunks, import>>, NoNewCompaction
    PROVE  Tiling' /\ PartitionsOK' /\ ChunksOK' /\ ImportsOK' /\ RowsOK'
<1>1. Tiling' /\ PartitionsOK'
  BY DEF StoreInv, Tiling, PartitionsOK, Active, In
<1>2. \A p : Settled(p) => Settled(p)'
  BY ReplacedStays DEF Settled, Active
<1>3. \A p : Rooted(p) => Rooted(p)'
  BY DEF Rooted, Active, In, Lineage
<1>4. ChunksOK'
  BY <1>2, <1>3 DEF StoreInv, ChunksOK, In
<1>5. ImportsOK'
  BY DEF StoreInv, ImportsOK, Divides
<1>6. RowsOK'
  BY DEF StoreInv, RowsOK, InPartition, InChunk, Active
<1> QED
  BY <1>1, <1>4, <1>5, <1>6

\* The jobs that were there are as good as before.
LEMMA JobStays ==
    ASSUME StoreInv, UNCHANGED <<partitions, chunks, import>>, NoNewCompaction, NEW j \in jobs
    PROVE  CompactionOK(j)' /\ RepartitionOK(j)'
<1>1. Settled(j.partition) => Settled(j.partition)'
  BY ReplacedStays DEF Settled, Active
<1>2. CompactionOK(j) /\ RepartitionOK(j)
  BY DEF StoreInv, JobsOK
<1>3. CompactionOK(j)'
  BY <1>1, <1>2 DEF CompactionOK, Active, ActiveChunks
<1>4. RepartitionOK(j)'
  BY <1>2, ReplacedStays DEF RepartitionOK, ActiveChunks, Divides, RowsOfChunks
<1> QED
  BY <1>3, <1>4

LEMMA ScheduledOK ==
    ASSUME StoreInv, UNCHANGED <<partitions, chunks, import>>,
           NEW p \in Partitions, NEW type \in JobTypes, jobs' = Scheduled(p, type),
           type = "repartition" => Replaced(p)
    PROVE  NoNewCompaction /\ JobsOK' /\ CreatesChunks'
<1>1. NoNewCompaction
  BY DEF NoNewCompaction, Scheduled, NewJob
<1>2. \A j \in jobs' : CompactionOK(j)' /\ RepartitionOK(j)' /\ StageOK(j)'
  <2>1. \A j \in jobs : CompactionOK(j)' /\ RepartitionOK(j)' /\ StageOK(j)'
    BY <1>1, JobStays DEF StoreInv, JobsOK, StageOK
  <2>2. Replaced(p) => Replaced(p)'
    BY <1>1, ReplacedStays
  <2>3. CompactionOK(NewJob(p, type))' /\ RepartitionOK(NewJob(p, type))' /\ StageOK(NewJob(p, type))'
    BY <2>2 DEF CompactionOK, RepartitionOK, StageOK, NewJob
  <2> QED
    BY <2>1, <2>3 DEF Scheduled
<1>3. \A j, k \in jobs' : j.partition = k.partition /\ j.type = k.type => j = k
  BY DEF StoreInv, JobsOK, Scheduled, NewJob
<1>4. \A j, k \in jobs' : Cutting(j) /\ Cutting(k) /\ j # k => j.new \cap k.new = {}
  BY DEF StoreInv, JobsOK, Scheduled, NewJob, Cutting
<1>5. CreatesChunks'
  BY DEF StoreInv, CreatesChunks, Scheduled, NewJob
<1>6. JobsOK'
  BY <1>2, <1>3, <1>4 DEF JobsOK, Cutting
<1> QED
  BY <1>1, <1>5, <1>6

\* What is the same in all these steps.
LEMMA QuietStep ==
    ASSUME StoreInv, TypeOK', UNCHANGED <<partitions, chunks, import, deleted>>, NoNewCompaction,
           JobsOK', CreatesChunks',
           \A e \in events' : e \in events \/ (e[1] \in {"partition", "job"} => Replaced(e[2])),
           \A g \in garbage' :
              \/ \E h \in garbage : h.kind = g.kind /\ h.of = g.of
              \/ g.kind = "chunk" /\ g.of \in Chunks /\ chunks[g.of].at \in {"inactive", "deleted"}
              \/ g.kind = "partition" /\ g.of \in Partitions /\ Replaced(g.of)
    PROVE  StoreInv'
<1>1. Tiling' /\ PartitionsOK' /\ ChunksOK' /\ ImportsOK' /\ RowsOK'
  BY RowsStay
<1>2. EventsOK'
  BY ReplacedStays DEF StoreInv, EventsOK
<1>3. GarbageOK'
  BY ReplacedStays DEF StoreInv, GarbageOK
<1>4. DeletedOK'
  BY ReplacedStays DEF StoreInv, DeletedOK
<1> QED
  BY <1>1, <1>2, <1>3, <1>4 DEF StoreInv

LEMMA NewGarbage ==
    /\ \A c, g : g \in Later("chunk", c) => g \in garbage \/ (g.kind = "chunk" /\ g.of = c)
    /\ \A p, g : g \in Later("partition", p) => g \in garbage \/ (g.kind = "partition" /\ g.of = p)
BY DEF Later

LEMMA EventStep ==
    ASSUME StoreInv, TypeOK', NEW e \in events, ProcessEvent(e)
    PROVE  StoreInv'
<1>0. UNCHANGED <<partitions, chunks, import, deleted>> /\ events' \subseteq events
  BY DEF ProcessEvent
<1>1. e \in Events
  BY Types DEF StoreInv
<1>2. UNCHANGED jobs => NoNewCompaction /\ JobsOK' /\ CreatesChunks'
  <2>1. SUFFICES ASSUME UNCHANGED jobs PROVE NoNewCompaction /\ JobsOK' /\ CreatesChunks'
    OBVIOUS
  <2>2. NoNewCompaction /\ CreatesChunks'
    BY <2>1 DEF NoNewCompaction, CreatesChunks, StoreInv
  <2>3. \A j \in jobs : CompactionOK(j)' /\ RepartitionOK(j)' /\ StageOK(j)'
    BY <1>0, <2>2, JobStays DEF StoreInv, JobsOK, StageOK
  <2> QED
    BY <2>1, <2>2, <2>3 DEF StoreInv, JobsOK, Cutting
<1>3. CASE e[1] = "chunk" /\ (ProcessActiveChunk(e[2]) \/ ProcessInactiveChunk(e[2]))
  <2>1. e[2] \in Chunks
    BY <1>1, <1>3 DEF Events
  <2>2. CASE ProcessActiveChunk(e[2])
    <3> DEFINE p == chunks[e[2]].partition
    <3>1. p \in Partitions /\ Settled(p)
      BY <2>1, <2>2, Types DEF StoreInv, ChunksOK, ChunkRow, ProcessActiveChunk
    <3>2. CASE p \in Active /\ jobs' = Scheduled(p, "compaction")
      <4>1. NoNewCompaction /\ JobsOK' /\ CreatesChunks'
        BY <1>0, <3>1, <3>2, ScheduledOK DEF JobTypes
      <4> QED
        BY <1>0, <2>2, <4>1, QuietStep DEF ProcessActiveChunk
    <3>3. CASE p \notin Active /\ jobs' = Scheduled(p, "repartition")
      <4>1. NoNewCompaction /\ JobsOK' /\ CreatesChunks'
        BY <1>0, <3>1, <3>3, ScheduledOK DEF JobTypes, Settled
      <4> QED
        BY <1>0, <2>2, <4>1, QuietStep DEF ProcessActiveChunk
    <3>4. CASE UNCHANGED jobs
      BY <1>0, <1>2, <2>2, <3>4, QuietStep DEF ProcessActiveChunk
    <3> QED
      BY <2>2, <3>2, <3>3, <3>4 DEF ProcessActiveChunk
  <2>3. CASE ProcessInactiveChunk(e[2])
    BY <1>0, <1>2, <2>1, <2>3, NewGarbage, QuietStep DEF ProcessInactiveChunk
  <2> QED
    BY <1>3, <2>2, <2>3
<1>4. CASE UNCHANGED <<jobs, garbage>>
  BY <1>0, <1>2, <1>4, QuietStep
<1>5. CASE e[1] = "partition" /\ ProcessPartition(e[2])
  <2>1. e[2] \in Partitions /\ Replaced(e[2]) /\ e[2] \notin Active
    BY <1>1, <1>5 DEF Events, StoreInv, EventsOK, Replaced, Active
  <2>2. NoNewCompaction /\ JobsOK' /\ CreatesChunks'
    BY <1>0, <1>5, <2>1, ScheduledOK DEF ProcessPartition, JobTypes
  <2>3. \A g \in garbage' : g \in garbage \/ (g.kind = "partition" /\ g.of = e[2])
    BY <1>5, <2>1, NewGarbage DEF ProcessPartition
  <2> QED
    BY <1>0, <2>1, <2>2, <2>3, QuietStep
<1>6. CASE e[1] = "job" /\ ProcessJob(e[2])
  <2>1. e[2] \in Partitions /\ Replaced(e[2])
    BY <1>1, <1>6 DEF Events, StoreInv, EventsOK
  <2>2. NoNewCompaction /\ JobsOK' /\ CreatesChunks'
    BY <1>0, <1>2, <1>6, <2>1, ScheduledOK DEF ProcessJob, JobTypes
  <2> QED
    BY <1>0, <1>6, <2>2, QuietStep DEF ProcessJob
<1> QED
  BY <1>3, <1>4, <1>5, <1>6 DEF ProcessEvent

LEMMA CompletedStep ==
    ASSUME StoreInv, TypeOK', NEW j \in jobs, Completed(j)
    PROVE  StoreInv'
<1>0. UNCHANGED <<partitions, chunks, import, deleted, garbage>> /\ jobs' \subseteq jobs
  BY DEF Completed
<1>1. NoNewCompaction /\ CreatesChunks'
  BY <1>0 DEF NoNewCompaction, CreatesChunks, StoreInv
<1>2. \A k \in jobs' : CompactionOK(k)' /\ RepartitionOK(k)' /\ StageOK(k)'
  BY <1>0, <1>1, JobStays DEF StoreInv, JobsOK, StageOK
<1>3. JobsOK'
  BY <1>0, <1>2 DEF StoreInv, JobsOK, Cutting
<1>4. Replaced(j.partition)
  BY DEF StoreInv, JobsOK, StageOK, RepartitionOK, Completed
<1> QED
  BY <1>0, <1>1, <1>3, <1>4, QuietStep DEF Completed

\* A job goes on to its next stage and nothing else changes.
LEMMA StageStep ==
    ASSUME StoreInv, TypeOK', UNCHANGED <<partitions, chunks, import, deleted, garbage, events>>,
           NEW j \in jobs, NEW k, Becomes(j, k),
           k.type = j.type, k.partition = j.partition,
           ~ (k.type = "compaction" /\ k.at = "created"),
           RepartitionOK(k), StageOK(k),
           k.type = "repartition" => k.new \subseteq Chunks,
           Cutting(k) => k.new = {}
    PROVE  StoreInv'
<1>1. NoNewCompaction /\ CreatesChunks'
  BY DEF NoNewCompaction, CreatesChunks, StoreInv, Becomes
<1>2. \A i \in jobs : CompactionOK(i)' /\ RepartitionOK(i)' /\ StageOK(i)'
  BY <1>1, JobStays DEF StoreInv, JobsOK, StageOK
<1>3. CompactionOK(k)' /\ StageOK(k)'
  BY DEF CompactionOK, StageOK
<1>4. RepartitionOK(k)'
  BY <1>1, ReplacedStays DEF RepartitionOK, ActiveChunks, Divides, RowsOfChunks
<1>5. \A i \in jobs' : CompactionOK(i)' /\ RepartitionOK(i)' /\ StageOK(i)'
  BY <1>2, <1>3, <1>4 DEF Becomes
<1>6. \A i, l \in jobs' : i.partition = l.partition /\ i.type = l.type => i = l
  BY DEF StoreInv, JobsOK, Becomes
<1>7. \A i, l \in jobs' : Cutting(i) /\ Cutting(l) /\ i # l => i.new \cap l.new = {}
  BY DEF StoreInv, JobsOK, Becomes
<1>8. JobsOK'
  BY <1>5, <1>6, <1>7 DEF JobsOK, Cutting
<1> QED
  BY <1>1, <1>8, QuietStep

LEMMA FailsStep ==
    ASSUME StoreInv, TypeOK', NEW j \in jobs, JobFails(j)
    PROVE  StoreInv'
<1> DEFINE k == [j EXCEPT !.at = "error"]
<1>1. j \in JobRow
  BY Types DEF StoreInv
<1>2. k.type = j.type /\ k.partition = j.partition /\ k.at = "error" /\ k.new = j.new
  BY <1>1 DEF JobRow
<1>3. RepartitionOK(j) /\ (j.type = "repartition" => j.new \subseteq Chunks)
  BY DEF StoreInv, JobsOK, CreatesChunks
<1> HIDE DEF k
<1>4. RepartitionOK(k) /\ StageOK(k) /\ ~ Cutting(k)
  BY <1>2, <1>3 DEF RepartitionOK, StageOK, Cutting
<1>5. /\ Becomes(j, k)
      /\ UNCHANGED <<partitions, chunks, import, deleted, garbage, events>>
  BY DEF JobFails, k
<1> QED
  BY <1>2, <1>3, <1>4, <1>5, StageStep

LEMMA ReadStep ==
    ASSUME StoreInv, TypeOK', NEW j \in jobs, RepartitionRead(j)
    PROVE  StoreInv'
<1> DEFINE k == [j EXCEPT !.at = "read", !.old = ActiveChunks(j.partition),
                          !.todo = ActiveChunks(j.partition)]
<1>1. j \in JobRow
  BY Types DEF StoreInv
<1>2. j.type = "repartition" /\ j.new = {} /\ Replaced(j.partition)
  BY DEF StoreInv, JobsOK, StageOK, RepartitionOK, RepartitionRead
<1>3. /\ k.type = "repartition" /\ k.partition = j.partition /\ k.at = "read" /\ k.new = {}
      /\ k.old = ActiveChunks(j.partition) /\ k.todo = ActiveChunks(j.partition)
  BY <1>1, <1>2 DEF JobRow
<1>4. /\ Becomes(j, k)
      /\ UNCHANGED <<partitions, chunks, import, deleted, garbage, events>>
  BY DEF RepartitionRead
<1> HIDE DEF k
<1>5. RepartitionOK(k)
  <2>1. Divides({}, {})
    BY DEF Divides
  <2>2. RowsOfChunks(k.old \ k.todo) = {}
    BY <1>3 DEF RowsOfChunks
  <2> QED
    BY <1>2, <1>3, <2>1, <2>2 DEF RepartitionOK
<1>6. StageOK(k)
  BY <1>3 DEF StageOK
<1> QED
  BY <1>2, <1>3, <1>4, <1>5, <1>6, StageStep

\* Steps of a select, of the clock and of nobody.
LEMMA OtherStep ==
    ASSUME StoreInv, TypeOK', UNCHANGED <<partitions, chunks, import, deleted, jobs, events>>,
           \A g \in garbage' : \E h \in garbage : h.kind = g.kind /\ h.of = g.of
    PROVE  StoreInv'
<1>1. NoNewCompaction /\ CreatesChunks'
  BY DEF NoNewCompaction, CreatesChunks, StoreInv
<1>2. \A k \in jobs : CompactionOK(k)' /\ RepartitionOK(k)' /\ StageOK(k)'
  BY <1>1, JobStays DEF StoreInv, JobsOK, StageOK
<1>3. JobsOK'
  BY <1>2 DEF StoreInv, JobsOK, Cutting
<1> QED
  BY <1>1, <1>3, QuietStep

LEMMA OlderIs ==
    ASSUME TypeOK, NEW g \in garbage
    PROVE  /\ Older[g].kind = g.kind /\ Older[g].of = g.of
           /\ Older[g].left = IF g.left = 0 THEN 0 ELSE g.left - 1
BY Types DEF Older, GarbageRow

LEMMA TickStep ==
    ASSUME StoreInv, TypeOK', Tick
    PROVE  StoreInv'
<1>1. \A g \in garbage' : \E h \in garbage : h.kind = g.kind /\ h.of = g.of
  BY OlderIs DEF StoreInv, Tick
<1> QED
  BY <1>1, OtherStep DEF Tick

-----------------------------------------------------------------------------
(***************************************************************************)
(* Steps that create chunks                                                *)
(***************************************************************************)
\* partition_data_frame divides the rows among the chunks it creates.
LEMMA CreatedDivides ==
    ASSUME StoreInv, UNCHANGED partitions, NEW R \in SUBSET Rows, NEW new, CreateChunks(R, new)
    PROVE  /\ new \subseteq Unused(chunks) /\ new \subseteq Chunks
           /\ \A c \in Chunks \ new : chunks'[c] = chunks[c]
           /\ \A c \in new : /\ chunks'[c].at = "created"
                             /\ chunks'[c].partition \in Active
                             /\ chunks'[c].rows \subseteq R
                             /\ \A r \in chunks'[c].rows : In(chunks'[c].partition, r[2])
           /\ Divides(new, R)'
<1>1. new \subseteq Unused(chunks) /\ new \subseteq Chunks
  BY Types DEF StoreInv, CreateChunks, Unused
<1>2. PICK for \in [new -> Cut(R)] :
          /\ \A c, d \in new : c < d => for[c] < for[d]
          /\ chunks' = [c \in Chunks |->
                IF c \in new THEN [at |-> "created", partition |-> for[c], rows |-> Within(for[c], R)]
                ELSE chunks[c]]
  BY DEF CreateChunks
<1>3. \A c \in new : /\ chunks'[c].at = "created" /\ chunks'[c].partition = for[c]
                     /\ chunks'[c].rows = Within(for[c], R)
  BY <1>1, <1>2
<1>4. \A p, r : r \in Within(p, R) <=> r \in R /\ In(p, r[2])
  BY DEF Within, InRange, In
<1>5. \A c \in new : for[c] \in Active
  BY <1>2 DEF Cut
<1>6. \A c, d \in new : for[c] = for[d] => c = d
  <2>1. \A c \in new : c \in Nat /\ for[c] \in Nat
    BY <1>1, <1>5, Bounds DEF Chunks, Active, Partitions
  <2> QED
    BY <1>2, <2>1
<1>7. \A p \in Cut(R) : \E c \in new : for[c] = p
  <2>1. IsFiniteSet(Cut(R))
    <3>1. Cut(R) \in SUBSET (1 .. MaxPartitions) /\ IsFiniteSet(1 .. MaxPartitions)
      BY Bounds, FS_Interval DEF Cut, Active, Partitions
    <3> QED
      BY <3>1, FS_Subset
  <2>2. for \in Injection(new, Cut(R))
    BY <1>2, <1>6 DEF Injection, IsInjective
  <2>3. for \in Surjection(new, Cut(R))
    BY <2>1, <2>2, FS_Injection DEF CreateChunks
  <2> QED
    BY <2>3 DEF Surjection
<1>8. ASSUME NEW r \in R PROVE \E c \in new : r \in chunks'[c].rows
  <2>1. PICK p \in Active : In(p, r[2])
    BY RowTypes DEF StoreInv, Tiling
  <2>2. p \in Cut(R)
    BY <1>4, <2>1 DEF Cut
  <2> QED
    BY <1>3, <1>4, <1>7, <2>1, <2>2
<1>9. ASSUME NEW c \in new, NEW d \in new, NEW r \in chunks'[c].rows, r \in chunks'[d].rows
      PROVE  c = d
  BY <1>3, <1>4, <1>5, <1>6, <1>9, RowTypes DEF StoreInv, Tiling
<1>10. \A c \in new : chunks'[c].rows \subseteq R /\ \A r \in chunks'[c].rows : In(for[c], r[2])
  BY <1>3, <1>4
<1>11. Divides(new, R)'
  BY <1>3, <1>8, <1>9, <1>10 DEF Divides
<1> QED
  BY <1>1, <1>2, <1>3, <1>5, <1>10, <1>11

\* Nothing else has changed of the chunks.
LEMMA CreatedFrame ==
    ASSUME StoreInv, UNCHANGED partitions, NEW R \in SUBSET Rows, NEW new, CreateChunks(R, new)
    PROVE  /\ \A p : ActiveChunks(p)' = ActiveChunks(p)
           /\ \A r, c : InChunk(r, c)' <=> InChunk(r, c)
           /\ \A r, p : InPartition(r, p)' <=> InPartition(r, p)
           /\ \A S : \A C \in SUBSET Chunks : Divides(C, S) => Divides(C, S)' /\ C \cap new = {}
<1>1. /\ \A c \in Chunks : chunks[c].at # "none" => chunks'[c] = chunks[c]
      /\ \A c \in Chunks : chunks[c].at = "none" => chunks'[c].at \in {"none", "created"}
      /\ \A c \in new : chunks[c].at = "none"
  BY CreatedDivides DEF Unused
<1>2. \A p : ActiveChunks(p)' = ActiveChunks(p)
  BY <1>1 DEF ActiveChunks
<1>3. \A r, c : InChunk(r, c)' <=> InChunk(r, c)
  BY <1>1 DEF InChunk
<1>4. \A r, p : InPartition(r, p)' <=> InPartition(r, p)
  BY DEF InPartition, Active
<1>5. ASSUME NEW C \in SUBSET Chunks, NEW S, Divides(C, S) PROVE Divides(C, S)' /\ C \cap new = {}
  BY <1>1, <1>5 DEF Divides
<1> QED
  BY <1>2, <1>3, <1>4, <1>5

LEMMA CreatedChunksOK ==
    ASSUME StoreInv, UNCHANGED partitions, NoNewCompaction,
           NEW R \in SUBSET Rows, NEW new, CreateChunks(R, new)
    PROVE  Tiling' /\ PartitionsOK' /\ ChunksOK' /\ (\A p : Replaced(p) => Replaced(p)')
<1>1. Tiling' /\ PartitionsOK'
  BY DEF StoreInv, Tiling, PartitionsOK, Active, In
<1>2. \A p : Settled(p) => Settled(p)'
  BY ReplacedStays DEF Settled, Active
<1>3. \A p : Rooted(p) => Rooted(p)'
  BY DEF Rooted, Active, In, Lineage
<1>4. \A q \in Active : Settled(q) /\ Rooted(q)
  BY LineageSelf DEF StoreInv, Tiling, Settled, Rooted, Active
<1>5. ASSUME NEW c \in Chunks, chunks'[c].at # "none"
      PROVE  /\ Settled(chunks'[c].partition) /\ Rooted(chunks'[c].partition)
             /\ \A r \in chunks'[c].rows : In(chunks'[c].partition, r[2])
  BY <1>4, <1>5, CreatedDivides DEF StoreInv, ChunksOK
<1>6. ChunksOK'
  BY <1>2, <1>3, <1>5 DEF ChunksOK, In
<1> QED
  BY <1>1, <1>6, ReplacedStays

\* Rows of chunks that exist are the same.
LEMMA CreatedRows ==
    ASSUME StoreInv, UNCHANGED partitions, NEW R \in SUBSET Rows, NEW new, CreateChunks(R, new),
           NEW p, NEW C \in SUBSET ActiveChunks(p)
    PROVE  RowsOfChunks(C)' = RowsOfChunks(C)
<1>1. \A c \in C : chunks'[c] = chunks[c]
  BY CreatedDivides DEF ActiveChunks, Unused
<1> QED
  BY <1>1 DEF RowsOfChunks

LEMMA CreatedJobs ==
    ASSUME StoreInv, UNCHANGED partitions, NoNewCompaction,
           NEW R \in SUBSET Rows, NEW new, CreateChunks(R, new), NEW j \in jobs,
           \A i \in Imports : import'[i].at = "created" =>
               (import[i].at = "created" /\ import'[i].chunks = import[i].chunks)
               \/ import'[i].chunks = new
    PROVE  CompactionOK(j)' /\ RepartitionOK(j)'
<1>1. CompactionOK(j) /\ RepartitionOK(j) /\ j \in JobRow
      /\ (j.type = "repartition" => j.new \subseteq Chunks)
  BY Types DEF StoreInv, JobsOK, CreatesChunks
<1>2. Settled(j.partition) => Settled(j.partition)'
  BY ReplacedStays DEF Settled, Active
<1>3. CompactionOK(j)'
  <2>1. Active' = Active /\ ActiveChunks(j.partition)' = ActiveChunks(j.partition)
    BY CreatedFrame DEF Active
  <2> QED
    BY <1>1, <1>2, <2>1 DEF CompactionOK
<1>4. ASSUME j.type = "repartition", j.at = "read"
      PROVE  /\ j.old \subseteq ActiveChunks(j.partition)'
             /\ Divides(j.new, RowsOfChunks(j.old \ j.todo))'
             /\ j.new \cap new = {}
  <2>1. /\ j.old \ j.todo \in SUBSET ActiveChunks(j.partition)
        /\ Divides(j.new, RowsOfChunks(j.old \ j.todo))
    BY <1>1, <1>4 DEF RepartitionOK
  <2>2. RowsOfChunks(j.old \ j.todo)' = RowsOfChunks(j.old \ j.todo)
    BY <2>1, CreatedRows
  <2>3. Divides(j.new, RowsOfChunks(j.old \ j.todo))'
    <3>1. PICK S : S = RowsOfChunks(j.old \ j.todo)
      OBVIOUS
    <3>2. Divides(j.new, S) /\ j.new \in SUBSET Chunks
      BY <1>1, <1>4, <2>1, <3>1
    <3>3. Divides(j.new, S)'
      BY <3>2, CreatedFrame
    <3> QED
      BY <2>2, <3>1, <3>3 DEF Divides
  <2> QED
    BY <1>1, <1>4, <2>1, <2>3, CreatedFrame DEF RepartitionOK
<1>5. RepartitionOK(j)'
  BY <1>1, <1>4, ReplacedStays DEF RepartitionOK
<1> QED
  BY <1>3, <1>5

LEMMA CreatedGarbageOK ==
    ASSUME StoreInv, UNCHANGED <<partitions, events, garbage, deleted>>, NoNewCompaction,
           NEW R \in SUBSET Rows, NEW new, CreateChunks(R, new)
    PROVE  EventsOK' /\ GarbageOK' /\ DeletedOK'
<1>1. \A c \in Chunks : chunks[c].at # "none" => chunks'[c] = chunks[c]
  BY CreatedDivides DEF Unused
<1>2. EventsOK'
  BY ReplacedStays DEF StoreInv, EventsOK
<1>3. GarbageOK'
  BY <1>1, ReplacedStays DEF StoreInv, GarbageOK
<1>4. DeletedOK'
  BY <1>1, ReplacedStays DEF StoreInv, DeletedOK
<1> QED
  BY <1>2, <1>3, <1>4

LEMMA PartitionDataStep ==
    ASSUME StoreInv, TypeOK', NEW i \in Imports, PartitionData(i)
    PROVE  StoreInv'
<1>0. /\ UNCHANGED <<partitions, jobs, events, garbage, deleted>> /\ import[i].at = "none"
      /\ NoNewCompaction
  BY DEF PartitionData, NoNewCompaction
<1>1. PICK new \in SUBSET Chunks :
          /\ CreateChunks(RowsOf(i), new)
          /\ import' = [import EXCEPT ![i] = [at |-> "created", chunks |-> new]]
  BY DEF PartitionData
<1>2. RowsOf(i) \in SUBSET Rows
  BY DEF RowsOf
<1>3. /\ import'[i].at = "created" /\ import'[i].chunks = new
      /\ \A k \in Imports \ {i} : import'[k] = import[k]
      /\ \A k \in Imports : import[k].chunks \subseteq Chunks
  BY <1>1, Types DEF StoreInv, ImportRow
<1>4. Tiling' /\ PartitionsOK' /\ ChunksOK'
  BY <1>0, <1>1, <1>2, CreatedChunksOK
<1>5. Divides(new, RowsOf(i))'
  <2>1. PICK R \in SUBSET Rows : R = RowsOf(i)
    BY <1>2
  <2>2. Divides(new, R)'
    BY <1>0, <1>1, <2>1, CreatedDivides
  <2> QED
    BY <2>1, <2>2
<1>6. \A k \in Imports \ {i} : import[k].at = "created" =>
          Divides(import[k].chunks, RowsOf(k))' /\ import[k].chunks \cap new = {}
  <2>1. ASSUME NEW k \in Imports \ {i}, import[k].at = "created"
        PROVE  Divides(import[k].chunks, RowsOf(k))' /\ import[k].chunks \cap new = {}
    <3>1. PICK C \in SUBSET Chunks : C = import[k].chunks
      BY <1>3
    <3>2. Divides(C, RowsOf(k))
      BY <2>1, <3>1 DEF StoreInv, ImportsOK
    <3>3. Divides(C, RowsOf(k))' /\ C \cap new = {}
      BY <1>0, <1>1, <1>2, <3>2, CreatedFrame DEF RowsOf
    <3> QED
      BY <1>3, <3>1, <3>3 DEF Divides
  <2> QED
    BY <2>1
<1>7. ImportsOK'
  BY <1>3, <1>5, <1>6 DEF StoreInv, ImportsOK, Divides, RowsOf
<1>8. RowsOK'
  <2>1. \A k \in Imports : import'[k].at = "done" <=> import[k].at = "done"
    BY <1>0, <1>3
  <2> QED
    BY <1>0, <1>1, <1>2, <2>1, CreatedFrame, RowTypes DEF StoreInv, RowsOK
<1>9. JobsOK' /\ CreatesChunks'
  <2>1. \A j \in jobs : CompactionOK(j)' /\ RepartitionOK(j)'
    BY <1>0, <1>1, <1>2, <1>3, CreatedJobs
  <2> QED
    BY <1>0, <2>1 DEF StoreInv, JobsOK, CreatesChunks, StageOK, Cutting
<1>10. EventsOK' /\ GarbageOK' /\ DeletedOK'
  BY <1>0, <1>1, <1>2, CreatedGarbageOK
<1> QED
  BY <1>4, <1>7, <1>8, <1>9, <1>10 DEF StoreInv

\* Chunks that divide some rows and chunks that divide others divide them all.
LEMMA DividesUnion ==
    ASSUME NEW C, NEW D, NEW S, NEW R, Divides(C, S), Divides(D, R), S \cap R = {}
    PROVE  Divides(C \cup D, S \cup R)
<1>1. ASSUME NEW c \in C, NEW d \in D PROVE chunks[c].rows \cap chunks[d].rows = {}
  BY DEF Divides
<1>2. \A c \in C \cup D : chunks[c].at = "created" /\ chunks[c].rows \subseteq S \cup R
  BY DEF Divides
<1>3. \A r \in S \cup R : \E c \in C \cup D : r \in chunks[c].rows
  BY DEF Divides
<1>4. \A c, d \in C \cup D : c # d => chunks[c].rows \cap chunks[d].rows = {}
  BY <1>1 DEF Divides
<1> QED
  BY <1>2, <1>3, <1>4 DEF Divides

\* The same of the next state.
LEMMA DividesUnionNext ==
    ASSUME NEW C, NEW D, NEW S, NEW R, Divides(C, S)', Divides(D, R)', S \cap R = {}
    PROVE  Divides(C \cup D, S \cup R)'
<1>1. ASSUME NEW c \in C, NEW d \in D PROVE chunks'[c].rows \cap chunks'[d].rows = {}
  BY DEF Divides
<1>2. \A c \in C \cup D : chunks'[c].at = "created" /\ chunks'[c].rows \subseteq S \cup R
  BY DEF Divides
<1>3. \A r \in S \cup R : \E c \in C \cup D : r \in chunks'[c].rows
  BY DEF Divides
<1>4. \A c, d \in C \cup D : c # d => chunks'[c].rows \cap chunks'[d].rows = {}
  BY <1>1 DEF Divides
<1> QED
  BY <1>2, <1>3, <1>4 DEF Divides

\* A chunk is cut while its job has the others it has cut.
LEMMA CutOneMore ==
    ASSUME StoreInv, UNCHANGED partitions, NEW j \in jobs, Cutting(j), NEW c \in j.todo, NEW new,
           CreateChunks(chunks[c].rows, new)
    PROVE  /\ j.old \subseteq ActiveChunks(j.partition)'
           /\ Divides(j.new \cup new, RowsOfChunks(j.old \ (j.todo \ {c})))'
           /\ j.new \subseteq Chunks /\ j.todo \subseteq j.old
<1>1. /\ RepartitionOK(j) /\ j \in JobRow /\ j.new \subseteq Chunks
      /\ j.type = "repartition" /\ j.at = "read"
  BY Types DEF StoreInv, JobsOK, CreatesChunks, Cutting
<1>2. PICK R \in SUBSET Rows : R = chunks[c].rows
  BY <1>1, Types DEF StoreInv, ChunkRow, JobRow
<1>3. PICK D : D = j.old \ j.todo
  OBVIOUS
<1>4. PICK S : S = RowsOfChunks(D)
  OBVIOUS
<1>5. /\ c \in ActiveChunks(j.partition) /\ D \in SUBSET ActiveChunks(j.partition) /\ c \notin D
      /\ Divides(j.new, S)
      /\ j.old \ (j.todo \ {c}) = D \cup {c}
  BY <1>1, <1>3, <1>4 DEF RepartitionOK
<1>6. CreateChunks(R, new)
  BY <1>2
<1>7. Divides(j.new, S)' /\ Divides(new, R)'
  BY <1>1, <1>5, <1>6, CreatedFrame, CreatedDivides
<1>8. S \cap R = {}
  <2>1. ASSUME NEW r \in S, r \in R PROVE FALSE
    <3>1. PICK d \in D : r \in chunks[d].rows
      BY <1>4, <2>1 DEF RowsOfChunks
    <3>2. InChunk(r, c) /\ InChunk(r, d) /\ c \in Chunks /\ d \in Chunks /\ c # d
      BY <1>2, <1>5, <2>1, <3>1 DEF InChunk, ActiveChunks
    <3> QED
      BY <1>2, <2>1, <3>2 DEF StoreInv, RowsOK
  <2> QED
    BY <2>1
<1>9. Divides(j.new \cup new, S \cup R)'
  BY <1>7, <1>8, DividesUnionNext
<1>10. RowsOfChunks(D \cup {c})' = S \cup R
  <2>1. \A d \in D \cup {c} : chunks'[d] = chunks[d]
    <3>1. \A d \in ActiveChunks(j.partition) : d \in Chunks /\ d \notin Unused(chunks)
      BY DEF ActiveChunks, Unused
    <3>2. new \subseteq Unused(chunks) /\ \A d \in Chunks \ new : chunks'[d] = chunks[d]
      BY <1>6, CreatedDivides
    <3> QED
      BY <1>5, <3>1, <3>2
  <2> QED
    BY <1>2, <1>4, <2>1 DEF RowsOfChunks
<1>11. Divides(j.new \cup new, RowsOfChunks(j.old \ (j.todo \ {c})))'
  BY <1>5, <1>9, <1>10 DEF Divides
<1> QED
  BY <1>1, <1>6, <1>11, CreatedFrame DEF RepartitionOK

LEMMA RepartitionCreateStep ==
    ASSUME StoreInv, TypeOK', NEW j \in jobs, RepartitionCreate(j)
    PROVE  StoreInv'
<1>0. /\ UNCHANGED <<partitions, import, events, garbage, deleted>>
      /\ j.type = "repartition" /\ j.at = "read" /\ Cutting(j)
  BY DEF RepartitionCreate, Cutting
<1>1. PICK c \in j.todo, new \in SUBSET Chunks :
          /\ CreateChunks(chunks[c].rows, new)
          /\ Becomes(j, [j EXCEPT !.todo = @ \ {c}, !.new = @ \cup new])
  BY DEF RepartitionCreate
<1> DEFINE k == [j EXCEPT !.todo = @ \ {c}, !.new = @ \cup new]
<1>2. j \in JobRow
  BY Types DEF StoreInv
<1>3. PICK R \in SUBSET Rows : R = chunks[c].rows
  BY <1>2, Types DEF StoreInv, ChunkRow, JobRow
<1>4. /\ k.type = "repartition" /\ k.at = "read" /\ k.partition = j.partition
      /\ k.old = j.old /\ k.todo = j.todo \ {c} /\ k.new = j.new \cup new
      /\ jobs' = (jobs \ {j}) \cup {k}
  BY <1>0, <1>1, <1>2 DEF JobRow, Becomes
<1> HIDE DEF k
<1>5. CreateChunks(R, new) /\ NoNewCompaction
  BY <1>1, <1>3, <1>4 DEF NoNewCompaction
<1>6. Tiling' /\ PartitionsOK' /\ ChunksOK' /\ (\A p : Replaced(p) => Replaced(p)')
  BY <1>0, <1>5, CreatedChunksOK
<1>7. /\ j.old \subseteq ActiveChunks(j.partition)'
      /\ Divides(j.new \cup new, RowsOfChunks(j.old \ (j.todo \ {c})))'
      /\ j.new \subseteq Chunks /\ j.todo \subseteq j.old
  BY <1>0, <1>1, CutOneMore
<1>8. \A i \in Imports : import[i].at = "created" =>
          /\ Divides(import[i].chunks, RowsOf(i))'
          /\ import[i].chunks \cap new = {}
  <2>1. ASSUME NEW i \in Imports, import[i].at = "created"
        PROVE  Divides(import[i].chunks, RowsOf(i))' /\ import[i].chunks \cap new = {}
    <3>1. PICK C \in SUBSET Chunks : C = import[i].chunks
      BY Types DEF StoreInv, ImportRow
    <3>2. Divides(C, RowsOf(i))
      BY <2>1, <3>1 DEF StoreInv, ImportsOK
    <3>3. Divides(C, RowsOf(i))' /\ C \cap new = {}
      BY <1>0, <1>5, <3>2, CreatedFrame DEF RowsOf
    <3> QED
      BY <1>0, <3>1, <3>3 DEF Divides
  <2> QED
    BY <2>1
<1>9. ImportsOK'
  BY <1>0, <1>8 DEF StoreInv, ImportsOK, Divides, RowsOf
<1>10. RowsOK'
  BY <1>0, <1>5, CreatedFrame, RowTypes DEF StoreInv, RowsOK
<1>11. \A i \in jobs : CompactionOK(i)' /\ RepartitionOK(i)'
  BY <1>0, <1>5, CreatedJobs
<1>12. CompactionOK(k)' /\ RepartitionOK(k)' /\ StageOK(k)'
  <2>1. Replaced(j.partition)' /\ \A i \in Imports : import[i].at = "created" =>
            import[i].chunks \cap k.new = {}
    BY <1>0, <1>4, <1>6, <1>8 DEF StoreInv, JobsOK, RepartitionOK
  <2>2. RepartitionOK(k)'
    BY <1>0, <1>4, <1>7, <2>1 DEF RepartitionOK
  <2> QED
    BY <1>4, <2>2 DEF CompactionOK, StageOK
<1>13. \A i \in jobs \ {j} : Cutting(i) => i.new \cap k.new = {}
  <2>1. ASSUME NEW i \in jobs \ {j}, Cutting(i) PROVE i.new \cap k.new = {}
    <3>1. i.new \cap j.new = {} /\ i.new \in SUBSET Chunks
          /\ Divides(i.new, RowsOfChunks(i.old \ i.todo))
      BY <1>0, <2>1 DEF StoreInv, JobsOK, CreatesChunks, Cutting, RepartitionOK
    <3>2. PICK S : S = RowsOfChunks(i.old \ i.todo)
      OBVIOUS
    <3>3. i.new \cap new = {}
      BY <1>0, <1>5, <3>1, <3>2, CreatedFrame, ZenonT(30)
    <3> QED
      BY <1>4, <3>1, <3>3
  <2> QED
    BY <2>1
<1>14. JobsOK'
  <2>1. \A i, l \in jobs' : i.partition = l.partition /\ i.type = l.type => i = l
    BY <1>0, <1>4 DEF StoreInv, JobsOK
  <2>2. \A i \in jobs' : CompactionOK(i)' /\ RepartitionOK(i)' /\ StageOK(i)'
    BY <1>4, <1>11, <1>12 DEF StoreInv, JobsOK, StageOK
  <2>3. \A i, l \in jobs' : Cutting(i) /\ Cutting(l) /\ i # l => i.new \cap l.new = {}
    BY <1>4, <1>13 DEF StoreInv, JobsOK
  <2> QED
    BY <2>1, <2>2, <2>3 DEF JobsOK, Cutting
<1>15. CreatesChunks'
  BY <1>4, <1>7 DEF StoreInv, CreatesChunks
<1>16. EventsOK' /\ GarbageOK' /\ DeletedOK'
  BY <1>0, <1>5, CreatedGarbageOK
<1> QED
  BY <1>6, <1>9, <1>10, <1>14, <1>15, <1>16 DEF StoreInv

-----------------------------------------------------------------------------
(***************************************************************************)
(* Creating partitions                                                     *)
(***************************************************************************)
LEMMA CompactCreateStep ==
    ASSUME StoreInv, TypeOK', NEW j \in jobs, CompactCreate(j)
    PROVE  StoreInv'
<1>0. /\ UNCHANGED <<chunks, import, events, garbage, deleted>>
      /\ j.type = "compaction" /\ j.at = "scheduled" /\ j.partition \in Active
  BY DEF CompactCreate
<1>1. PICK C \in SUBSET ActiveChunks(j.partition) \ {{}}, N \in SUBSET Unused(partitions) :
          /\ partitions' = [p \in Partitions |->
                IF p \in N THEN [NoPartition EXCEPT !.at = "inactive", !.parent = j.partition]
                ELSE partitions[p]]
          /\ Becomes(j, [j EXCEPT !.at = "created", !.old = C, !.new = N])
  BY DEF CompactCreate
<1> DEFINE k == [j EXCEPT !.at = "created", !.old = C, !.new = N]
<1>2. j \in JobRow
  BY Types DEF StoreInv
<1>3. /\ k.type = "compaction" /\ k.at = "created" /\ k.partition = j.partition
      /\ k.old = C /\ k.new = N
      /\ jobs' = (jobs \ {j}) \cup {k}
  BY <1>0, <1>1, <1>2 DEF JobRow, Becomes
<1> HIDE DEF k
<1>4. /\ N \subseteq Partitions /\ \A p \in N : partitions[p].at = "none"
      /\ \A p \in Partitions \ N : partitions'[p] = partitions[p]
      /\ \A p \in N : /\ partitions'[p].at = "inactive" /\ partitions'[p].parent = j.partition
                      /\ partitions'[p].rows = {}
  BY <1>1, Types DEF StoreInv, Unused, NoPartition
<1>5. /\ Active' = Active /\ Active \cap N = {}
      /\ \A p \in Partitions \ N : \A key : In(p, key)' <=> In(p, key)
  BY <1>4 DEF Active, In
<1>6. \A p \in Partitions : Replaced(p) => Replaced(p)' /\ p \notin N
  BY <1>3, <1>4 DEF Replaced
<1>7. \A p \in Partitions : Settled(p) => Settled(p)' /\ p \notin N
  BY <1>5, <1>6 DEF Settled
<1>8. Tiling'
  BY <1>5 DEF StoreInv, Tiling, Active
<1>9. PartitionsOK'
  BY <1>0, <1>4, <1>5 DEF StoreInv, PartitionsOK, Active
<1>10. \A q \in Partitions \ N : Rooted(q) => Rooted(q)'
  <2>1. ASSUME NEW q \in Partitions \ N, Rooted(q),
               NEW p \in Active, NEW key \in Keys, In(p, key), In(q, key)
        PROVE  q \in Lineage(p)'
    <3>1. \A x \in Used : partitions'[x].parent = partitions[x].parent
      BY <1>4 DEF Used
    <3>2. p \in Used
      BY DEF Used, Active
    <3>3. q \in Lineage(p)
      BY <2>1 DEF Rooted
    <3> QED
      BY <3>1, <3>2, <3>3, LineageStays DEF StoreInv
  <2>2. Active \subseteq Partitions \ N
    BY <1>5 DEF Active
  <2> QED
    BY <1>5, <2>1, <2>2 DEF Rooted
<1>11. ChunksOK'
  <2>1. ASSUME NEW c \in Chunks, chunks[c].at # "none"
        PROVE  /\ Settled(chunks[c].partition)' /\ Rooted(chunks[c].partition)'
               /\ \A r \in chunks[c].rows : In(chunks[c].partition, r[2])'
    <3>1. PICK q \in Partitions : q = chunks[c].partition
      BY Types DEF StoreInv, ChunkRow
    <3>2. Settled(q) /\ Rooted(q) /\ \A r \in chunks[c].rows : In(q, r[2])
      BY <2>1, <3>1 DEF StoreInv, ChunksOK
    <3>3. Settled(q)' /\ Rooted(q)' /\ \A r \in chunks[c].rows : In(q, r[2])'
      BY <1>5, <1>7, <1>10, <3>2
    <3> QED
      BY <1>0, <3>1, <3>3 DEF Settled, Rooted, Replaced, In
  <2> QED
    BY <1>0, <2>1 DEF ChunksOK, In
<1>12. ImportsOK' /\ RowsOK'
  <2>1. \A r, p : InPartition(r, p)' <=> InPartition(r, p)
    BY <1>4, <1>5 DEF InPartition, Active
  <2>2. \A r, c : InChunk(r, c)' <=> InChunk(r, c)
    BY <1>0 DEF InChunk
  <2> QED
    BY <1>0, <2>1, <2>2 DEF StoreInv, ImportsOK, Divides, RowsOK
<1>13. ASSUME NEW i \in jobs \ {j} PROVE CompactionOK(i)' /\ RepartitionOK(i)'
  <2>1. CompactionOK(i) /\ RepartitionOK(i) /\ i.partition \in Partitions
    BY Types DEF StoreInv, JobsOK, JobRow
  <2>2. CompactionOK(i)'
    <3>1. SUFFICES ASSUME i.type = "compaction", i.at = "created" PROVE CompactionOK(i)'
      BY DEF CompactionOK
    <3>2. i.new \cap N = {} /\ i.new \subseteq Partitions
      BY <1>4, <2>1, <3>1 DEF CompactionOK
    <3> QED
      BY <1>0, <1>4, <1>5, <1>7, <2>1, <3>2 DEF CompactionOK, ActiveChunks
  <2>3. RepartitionOK(i)'
    BY <1>0, <1>6, <2>1 DEF RepartitionOK, ActiveChunks, Divides, RowsOfChunks
  <2> QED
    BY <2>2, <2>3
<1>14. CompactionOK(k)' /\ RepartitionOK(k)' /\ StageOK(k)'
  BY <1>0, <1>1, <1>3, <1>4, <1>5 DEF CompactionOK, RepartitionOK, StageOK, Settled, ActiveChunks
<1>15. JobsOK' /\ CreatesChunks'
  <2>1. \A i, l \in jobs' : i.partition = l.partition /\ i.type = l.type => i = l
    BY <1>0, <1>3 DEF StoreInv, JobsOK
  <2>2. \A i \in jobs' : CompactionOK(i)' /\ RepartitionOK(i)' /\ StageOK(i)'
    BY <1>3, <1>13, <1>14 DEF StoreInv, JobsOK, StageOK
  <2>3. \A i, l \in jobs' : Cutting(i) /\ Cutting(l) /\ i # l => i.new \cap l.new = {}
    BY <1>3 DEF StoreInv, JobsOK, Cutting
  <2>4. CreatesChunks'
    BY <1>3 DEF StoreInv, CreatesChunks
  <2> QED
    BY <2>1, <2>2, <2>3, <2>4 DEF JobsOK, Cutting
<1>16. EventsOK'
  <2>1. \A e \in events : e[1] \in {"partition", "job"} => e[2] \in Partitions
    BY Types DEF StoreInv, Events
  <2> QED
    BY <1>0, <1>6, <2>1 DEF StoreInv, EventsOK
<1>17. GarbageOK' /\ DeletedOK'
  BY <1>0, <1>6 DEF StoreInv, GarbageOK, DeletedOK
<1> QED
  BY <1>8, <1>9, <1>11, <1>12, <1>15, <1>16, <1>17 DEF StoreInv

-----------------------------------------------------------------------------
(***************************************************************************)
(* Swapping partitions                                                     *)
(***************************************************************************)
\* The greatest of some numbers that are not too large.
LEMMA NatMax ==
    ASSUME NEW T \in SUBSET Nat, T # {}, NEW b \in Nat, \A t \in T : t <= b
    PROVE  \E m \in T : \A n \in T : n <= m
<1> DEFINE D == {b - t : t \in T}
<1>1. D \in SUBSET Nat /\ D # {}
  <2>1. \A t \in T : t \in Nat /\ b - t \in Nat
    OBVIOUS
  <2> QED
    BY <2>1
<1>2. PICK d \in D : \A e \in D : d <= e
  BY <1>1, NatMin
<1>3. PICK m \in T : d = b - m
  OBVIOUS
<1>4. ASSUME NEW n \in T PROVE n <= m
  <2>1. b - n \in D
    OBVIOUS
  <2>2. b - m <= b - n
    BY <1>2, <1>3, <2>1
  <2> QED
    BY <2>2
<1> QED
  BY <1>4

\* The new partitions share the keys of the old one among them.
LEMMA EndsTile ==
    ASSUME NEW from \in Nat, NEW end \in Nat, NEW N, NEW low,
           \A q \in N : low[q] \in Nat /\ from <= low[q] /\ low[q] < end,
           \E p \in N : low[p] = from,
           \A p, q \in N : low[p] = low[q] => p = q,
           NEW key \in Nat, from <= key, key < end
    PROVE  /\ \E p \in N : low[p] <= key /\ key < EndOf(p, N, low, end)
           /\ \A p, q \in N :
                /\ low[p] <= key /\ key < EndOf(p, N, low, end)
                /\ low[q] <= key /\ key < EndOf(q, N, low, end)
                => p = q
<1>1. \A p \in N : /\ EndOf(p, N, low, end) \in {low[q] : q \in N} \cup {end}
                   /\ EndOf(p, N, low, end) \in Nat /\ EndOf(p, N, low, end) > low[p]
                   /\ \A q \in N : low[q] > low[p] => low[q] >= EndOf(p, N, low, end)
  BY EndOfIs
<1>2. \E p \in N : low[p] <= key /\ key < EndOf(p, N, low, end)
  <2> DEFINE T == {low[q] : q \in {x \in N : low[x] <= key}}
  <2>1. T \in SUBSET Nat /\ T # {} /\ \A t \in T : t <= key
    OBVIOUS
  <2>2. PICK m \in T : \A n \in T : n <= m
    BY <2>1, NatMax
  <2>3. PICK p \in N : low[p] = m /\ low[p] <= key
    OBVIOUS
  <2>4. ASSUME NEW q \in N, low[q] > low[p] PROVE low[q] > key
    <3>1. low[q] <= key => low[q] \in T
      OBVIOUS
    <3> QED
      BY <2>2, <2>3, <2>4, <3>1
  <2>5. key < EndOf(p, N, low, end)
    BY <1>1, <2>3, <2>4
  <2> QED
    BY <2>3, <2>5
<1>3. ASSUME NEW p \in N, NEW q \in N,
             low[p] <= key, key < EndOf(p, N, low, end),
             low[q] <= key, key < EndOf(q, N, low, end)
      PROVE  p = q
  BY <1>1, <1>3
<1> QED
  BY <1>2, <1>3

\* What swap_active_partitions has done when P is replaced by the partitions N.
Swapped(j, N) ==
    LET P == j.partition
    IN  /\ N \subseteq j.new
        /\ P \in Active /\ partitions'[P].at = "inactive"
        /\ partitions'[P].min = partitions[P].min /\ partitions'[P].max = partitions[P].max
        /\ \A p \in Partitions : partitions'[p].parent = partitions[p].parent
        /\ \A p \in Partitions \ (N \cup {P}) : partitions'[p] = partitions[p]
        /\ \A p \in N :
              /\ partitions'[p].at = "active"
              /\ \A r \in Rows : r \in partitions'[p].rows <=>
                     /\ r \in partitions[P].rows \cup RowsOfChunks(j.old)
                     /\ In(p, r[2])'
              /\ partitions'[p].rows \subseteq Rows
              /\ \A key \in Keys : In(p, key)' => In(P, key)
        /\ \A key \in Keys : In(P, key) => \E p \in N : In(p, key)'
        /\ \A key \in Keys : \A p, q \in N : In(p, key)' /\ In(q, key)' => p = q

LEMMA SwapIs ==
    ASSUME StoreInv, NEW j \in jobs, CompactSwap(j)
    PROVE  \E N \in SUBSET j.new : Swapped(j, N)
<1>0. /\ j \in JobRow /\ j.type = "compaction" /\ j.at = "created" /\ j.partition \in Active
      /\ CompactionOK(j)
  BY Types DEF StoreInv, JobsOK, CompactSwap
<1>1. PICK N \in SUBSET j.new, low \in [j.new -> Keys] :
        /\ \A p \in N, q \in j.new : q < p => q \in N /\ low[q] < low[p]
        /\ partitions[j.partition].min \in {low[p] : p \in N}
        /\ \A p \in N : low[p] \in partitions[j.partition].min .. partitions[j.partition].max - 1
        /\ partitions' = [p \in Partitions |->
              IF p = j.partition THEN [partitions[p] EXCEPT !.at = "inactive"]
              ELSE IF p \in N
              THEN [partitions[p] EXCEPT !.at = "active", !.min = low[p],
                       !.max = EndOf(p, N, low, partitions[j.partition].max),
                       !.rows = Merged(j, low[p], EndOf(p, N, low, partitions[j.partition].max))]
              ELSE partitions[p]]
  BY <1>0 DEF CompactSwap
<1> DEFINE P == j.partition
           from == partitions[P].min
           end == partitions[P].max
           High(p) == EndOf(p, N, low, end)
<1>2. /\ P \in Partitions /\ partitions[P] \in PartitionRow /\ from \in Nat /\ end \in Nat
      /\ \A p \in Partitions : partitions[p] \in PartitionRow
  <2>1. P \in Partitions /\ \A p \in Partitions : partitions[p] \in PartitionRow
    BY <1>0, Types DEF StoreInv, JobRow
  <2> QED
    BY <2>1, Bounds DEF PartitionRow, Keys
<1>3. N \subseteq Partitions /\ P \notin N /\ \A p \in N : partitions[p].at = "inactive"
  BY <1>0, <1>1 DEF CompactionOK, Active
<1>4. \A p \in N : low[p] \in Nat /\ from <= low[p] /\ low[p] < end
  <2>1. \A p \in N : low[p] \in Keys /\ low[p] \in from .. end - 1
    BY <1>1
  <2> QED
    BY <1>2, <2>1, Bounds DEF Keys
<1>5. \A p, q \in N : low[p] = low[q] => p = q
  <2>1. SUFFICES ASSUME NEW p \in N, NEW q \in N, p # q PROVE low[p] # low[q]
    OBVIOUS
  <2>2. p \in Nat /\ q \in Nat /\ p \in j.new /\ q \in j.new
    BY <1>3, RowTypes
  <2>3. (p < q => low[p] < low[q]) /\ (q < p => low[q] < low[p])
    BY <1>1, <2>2
  <2> QED
    BY <1>4, <2>1, <2>2, <2>3
<1>6. \E p \in N : low[p] = from
  BY <1>1
<1>7. \A p \in N : High(p) \in Nat /\ High(p) > low[p] /\ High(p) <= end
  BY <1>2, <1>4, EndOfIs
<1>8. \A p \in N : partitions'[p] = [partitions[p] EXCEPT !.at = "active", !.min = low[p],
                                         !.max = High(p), !.rows = Merged(j, low[p], High(p))]
  BY <1>1, <1>3
<1>9. \A p \in N : /\ partitions'[p].at = "active" /\ partitions'[p].min = low[p]
                   /\ partitions'[p].max = High(p)
                   /\ partitions'[p].rows = Merged(j, low[p], High(p))
                   /\ partitions'[p].parent = partitions[p].parent
  <2>1. SUFFICES ASSUME NEW p \in N
                 PROVE  /\ partitions'[p].at = "active" /\ partitions'[p].min = low[p]
                        /\ partitions'[p].max = High(p)
                        /\ partitions'[p].rows = Merged(j, low[p], High(p))
                        /\ partitions'[p].parent = partitions[p].parent
    OBVIOUS
  <2>2. PICK h, rows : h = High(p) /\ rows = Merged(j, low[p], h)
    OBVIOUS
  <2>3. partitions[p] \in PartitionRow
    BY <1>2, <1>3
  <2>4. partitions'[p] = [partitions[p] EXCEPT !.at = "active", !.min = low[p], !.max = h, !.rows = rows]
    BY <1>8, <2>2
  <2>5. /\ partitions'[p].at = "active" /\ partitions'[p].min = low[p] /\ partitions'[p].max = h
        /\ partitions'[p].rows = rows /\ partitions'[p].parent = partitions[p].parent
    BY <2>3, <2>4 DEF PartitionRow
  <2> QED
    BY <2>2, <2>5
<1>10. /\ partitions'[P].at = "inactive" /\ partitions'[P].parent = partitions[P].parent
       /\ partitions'[P].min = from /\ partitions'[P].max = end
  BY <1>1, <1>2 DEF PartitionRow
<1>11. \A p \in Partitions \ (N \cup {P}) : partitions'[p] = partitions[p]
  BY <1>1
<1>12. \A p \in N, key \in Keys : In(p, key)' <=> low[p] <= key /\ key < High(p)
  <2>1. \A p \in N, key \in Keys : In(p, key)' <=> key >= low[p] /\ key < High(p)
    BY <1>9 DEF In
  <2> QED
    BY <2>1, <1>4, RowTypes
<1>13. \A p \in N, key \in Keys : In(p, key)' => In(P, key)
  BY <1>2, <1>4, <1>7, <1>12, RowTypes DEF In
<1>14. ASSUME NEW key \in Keys, In(P, key)
       PROVE  /\ \E p \in N : In(p, key)'
              /\ \A p, q \in N : In(p, key)' /\ In(q, key)' => p = q
  <2>1. key \in Nat /\ from <= key /\ key < end
    BY <1>2, <1>14, RowTypes DEF In
  <2>2. /\ \E p \in N : low[p] <= key /\ key < EndOf(p, N, low, end)
        /\ \A p, q \in N :
             /\ low[p] <= key /\ key < EndOf(p, N, low, end)
             /\ low[q] <= key /\ key < EndOf(q, N, low, end)
             => p = q
    BY <1>2, <1>4, <1>5, <1>6, <2>1, EndsTile
  <2> QED
    BY <1>12, <2>2
<1>15. partitions[P].rows \subseteq Rows /\ RowsOfChunks(j.old) \subseteq Rows
  BY <1>0, <1>2, Types DEF StoreInv, PartitionRow, ChunkRow, JobRow, RowsOfChunks
<1>16. ASSUME NEW p \in N, NEW r \in Rows
       PROVE  r \in partitions'[p].rows <=>
                  r \in partitions[P].rows \cup RowsOfChunks(j.old) /\ In(p, r[2])'
  <2>1. r \in partitions'[p].rows <=>
            r \in partitions[P].rows \cup RowsOfChunks(j.old) /\ r[2] >= low[p] /\ r[2] < High(p)
    BY <1>9 DEF Merged, RowsOfChunks
  <2> QED
    BY <1>9, <2>1 DEF In
<1>17. \A p \in N : partitions'[p].rows \subseteq Rows
  BY <1>9, <1>15 DEF Merged, RowsOfChunks
<1>18. \A p \in Partitions : partitions'[p].parent = partitions[p].parent
  BY <1>3, <1>9, <1>10, <1>11
<1> HIDE DEF High, P, from, end
<1>19. Swapped(j, N)
  BY <1>0, <1>9, <1>10, <1>11, <1>13, <1>14, <1>16, <1>17, <1>18 DEF Swapped, P, from, end
<1> QED
  BY <1>19

\* What has been settled stays so, and the new partitions take up the roots.
LEMMA SwapRoots ==
    ASSUME StoreInv, NEW j \in jobs, j.type = "compaction", j.at = "created", jobs' = jobs \ {j},
           NEW N \in SUBSET j.new, Swapped(j, N)
    PROVE  /\ Active' = (Active \ {j.partition}) \cup N /\ N \cap Active = {} /\ N \subseteq Partitions
           /\ \A q \in Partitions : Replaced(q) => Replaced(q)'
           /\ Replaced(j.partition)'
           /\ \A q \in Partitions : Settled(q) => q \notin N /\ Settled(q)'
           /\ \A q \in Partitions : \A key : Settled(q) => (In(q, key)' <=> In(q, key))
           /\ \A q \in Partitions : Settled(q) /\ Rooted(q) => Rooted(q)'
           /\ Tiling' /\ PartitionsOK'
<1> DEFINE P == j.partition
<1>1. /\ CompactionOK(j) /\ P \in Partitions /\ P \in Active
      /\ N \subseteq Partitions /\ P \notin N
      /\ \A p \in N : partitions[p].at = "inactive" /\ partitions[p].parent = P
  BY DEF StoreInv, JobsOK, CompactionOK, Active, Swapped
<1>2. Active' = (Active \ {P}) \cup N /\ N \cap Active = {}
  BY <1>1 DEF Swapped, Active
<1>3. \A q \in Partitions : Replaced(q) => Replaced(q)' /\ q \notin N /\ q # P
  BY <1>1 DEF Replaced, Active, Swapped
<1>4. Replaced(P)'
  <2>1. \A k \in jobs : k.type = "compaction" /\ k.at = "created" => P \notin k.new
    BY <1>1 DEF StoreInv, JobsOK, CompactionOK, Active
  <2> QED
    BY <2>1 DEF Replaced, Swapped
<1>5. \A q \in Partitions : Settled(q) => q \notin N /\ Settled(q)'
  BY <1>1, <1>2, <1>3, <1>4 DEF Settled
<1>6. \A q \in Partitions \ N : \A key : In(q, key)' <=> In(q, key)
  BY DEF Swapped, In
<1>7. \A q : Lineage(q)' = Lineage(q)
  BY DEF Swapped, Lineage
<1>8. ASSUME NEW q \in Partitions, Settled(q), Rooted(q) PROVE Rooted(q)'
  <2>1. ASSUME NEW p \in Active', NEW key \in Keys, In(p, key)', In(q, key)'
        PROVE  q \in Lineage(p)'
    <3>1. In(q, key)
      BY <1>5, <1>6, <1>8, <2>1
    <3>2. CASE p \in N
      <4>1. In(P, key)
        BY <2>1, <3>2 DEF Swapped
      <4>2. q \in Lineage(P)
        BY <1>1, <1>8, <3>1, <4>1 DEF Rooted
      <4>3. q \in Lineage(p)
        BY <1>1, <3>2, <4>2, LineageUp
      <4> QED
        BY <1>7, <4>3
    <3>3. CASE p \notin N
      <4>1. p \in Active /\ In(p, key)
        BY <1>2, <1>6, <2>1, <3>3 DEF Active
      <4> QED
        BY <1>7, <1>8, <3>1, <4>1 DEF Rooted
    <3> QED
      BY <3>2, <3>3
  <2> QED
    BY <2>1 DEF Rooted
<1>9. Tiling'
  <2>1. ASSUME NEW key \in Keys PROVE \E p \in Active' : In(p, key)'
    <3>1. PICK p \in Active : In(p, key)
      BY DEF StoreInv, Tiling
    <3>2. CASE p = P
      BY <1>2, <3>1, <3>2 DEF Swapped
    <3>3. CASE p # P
      BY <1>2, <1>6, <3>1, <3>3 DEF Active
    <3> QED
      BY <3>2, <3>3
  <2>2. ASSUME NEW key \in Keys, NEW p \in Active', NEW q \in Active', In(p, key)', In(q, key)'
        PROVE  p = q
    <3>1. \A x \in Active' : x \notin N => x \in Active /\ x # P /\ (In(x, key)' => In(x, key))
      BY <1>1, <1>2, <1>6 DEF Active
    <3>2. \A x \in N : In(x, key)' => In(P, key)
      BY DEF Swapped
    <3>3. \A x, y \in Active : In(x, key) /\ In(y, key) => x = y
      BY DEF StoreInv, Tiling
    <3>4. CASE p \in N /\ q \in N
      BY <2>2, <3>4 DEF Swapped
    <3>5. CASE p \notin N \/ q \notin N
      BY <1>1, <2>2, <3>1, <3>2, <3>3, <3>5
    <3> QED
      BY <3>4, <3>5
  <2> QED
    BY <2>1, <2>2 DEF Tiling
<1>10. PartitionsOK'
  <2>1. \A p \in Partitions : partitions'[p].parent \in Partitions =>
            partitions'[partitions'[p].parent].at # "none"
    BY <1>1 DEF StoreInv, PartitionsOK, Swapped
  <2>2. ASSUME NEW p \in Active', NEW r \in partitions'[p].rows PROVE In(p, r[2])'
    <3>1. CASE p \in N
      <4>1. r \in Rows
        BY <3>1, <2>2 DEF Swapped
      <4> QED
        BY <2>2, <3>1, <4>1 DEF Swapped
    <3>2. CASE p \notin N
      <4>1. p \in Active /\ p \in Partitions \ (N \cup {P})
        BY <1>1, <1>2, <3>2 DEF Active
      <4>2. r \in partitions[p].rows
        BY <2>2, <4>1 DEF Swapped
      <4> QED
        BY <1>6, <4>1, <4>2 DEF StoreInv, PartitionsOK
    <3> QED
      BY <3>1, <3>2
  <2> QED
    BY <2>1, <2>2 DEF PartitionsOK
<1> QED
  BY <1>1, <1>2, <1>3, <1>4, <1>5, <1>6, <1>8, <1>9, <1>10

LEMMA SwapChunksIs ==
    ASSUME TypeOK, NEW old, NEW new, SwapChunks(old, new), NEW c \in Chunks
    PROVE  /\ chunks'[c].partition = chunks[c].partition /\ chunks'[c].rows = chunks[c].rows
           /\ c \in new => chunks'[c].at = "active"
           /\ c \in old \ new => chunks'[c].at = "inactive"
           /\ c \notin old \cup new => chunks'[c].at = chunks[c].at
BY Types DEF SwapChunks, ChunkRow

\* The rows of the old partition and chunks are in the new partitions.
LEMMA SwapRowsOK ==
    ASSUME StoreInv, NEW j \in jobs, j.type = "compaction", j.at = "created", jobs' = jobs \ {j},
           UNCHANGED import, SwapChunks(j.old, {}), NEW N \in SUBSET j.new, Swapped(j, N)
    PROVE  RowsOK'
<1> DEFINE P == j.partition
<1>1. /\ P \in Partitions /\ P \in Active /\ P \notin N /\ N \subseteq Partitions
      /\ Active' = (Active \ {P}) \cup N /\ N \cap Active = {}
  BY SwapRoots, Types DEF StoreInv, Swapped, Active
<1>2. j.old \subseteq ActiveChunks(P) /\ j.old \subseteq Chunks
  BY <1>1 DEF StoreInv, JobsOK, CompactionOK, ActiveChunks
<1>3. \A r, c : InChunk(r, c)' <=> InChunk(r, c) /\ c \notin j.old
  BY <1>2, SwapChunksIs DEF StoreInv, InChunk
<1>4. \A r \in Rows, p \in Partitions \ (N \cup {P}) : InPartition(r, p)' <=> InPartition(r, p)
  BY <1>1 DEF InPartition, Swapped
<1>5. \A r \in Rows, p \in N : InPartition(r, p)' <=>
          /\ InPartition(r, P) \/ \E c \in j.old : InChunk(r, c)
          /\ In(p, r[2])'
  BY <1>1, <1>2 DEF InPartition, InChunk, Swapped, RowsOfChunks, ActiveChunks
<1>6. \A r \in Rows : ~ InPartition(r, P)'
  BY <1>1 DEF InPartition
<1>7. \A r \in Rows : InPartition(r, P) \/ (\E c \in j.old : InChunk(r, c)) =>
          \E p \in N : InPartition(r, p)'
  <2>1. SUFFICES ASSUME NEW r \in Rows, InPartition(r, P) \/ \E c \in j.old : InChunk(r, c)
                 PROVE  \E p \in N : InPartition(r, p)'
    OBVIOUS
  <2>2. In(P, r[2])
    <3>1. CASE InPartition(r, P)
      BY <1>1, <3>1 DEF StoreInv, PartitionsOK, InPartition
    <3>2. ASSUME NEW c \in j.old, InChunk(r, c) PROVE In(P, r[2])
      BY <1>2, <3>2 DEF StoreInv, ChunksOK, InChunk, ActiveChunks
    <3> QED
      BY <2>1, <3>1, <3>2
  <2>3. \E p \in N : In(p, r[2])'
    BY <2>2, RowTypes DEF Swapped
  <2> QED
    BY <1>5, <2>1, <2>3
<1>8. ASSUME NEW r \in Rows
      PROVE  /\ import[r[1]].at = "done" =>
                 (\E p \in Partitions : InPartition(r, p)) \/ (\E c \in Chunks : InChunk(r, c))
             /\ \A p \in Partitions : InPartition(r, p) =>
                 import[r[1]].at = "done" /\ \A c \in Chunks : ~ InChunk(r, c)
             /\ \A c \in Chunks : InChunk(r, c) =>
                 import[r[1]].at = "done" /\ \A d \in Chunks : InChunk(r, d) => c = d
  BY DEF StoreInv, RowsOK
<1>9. ASSUME NEW r \in Rows, import[r[1]].at = "done"
      PROVE  (\E p \in Partitions : InPartition(r, p)') \/ (\E c \in Chunks : InChunk(r, c)')
  <2>1. CASE InPartition(r, P) \/ \E c \in j.old : InChunk(r, c)
    BY <1>1, <1>7, <2>1
  <2>2. ASSUME NEW p \in Partitions, InPartition(r, p), p # P
        PROVE  \E q \in Partitions : InPartition(r, q)'
    BY <1>1, <1>4, <2>2 DEF InPartition
  <2>3. ASSUME NEW c \in Chunks \ j.old, InChunk(r, c)
        PROVE  \E d \in Chunks : InChunk(r, d)'
    BY <1>3, <2>3
  <2> QED
    BY <1>8, <1>9, <2>1, <2>2, <2>3
<1>10. ASSUME NEW r \in Rows, NEW p \in Partitions, InPartition(r, p)'
       PROVE  import[r[1]].at = "done" /\ \A c \in Chunks : ~ InChunk(r, c)'
  <2>1. CASE p \in N /\ InPartition(r, P)
    BY <1>1, <1>3, <1>8, <2>1
  <2>2. ASSUME p \in N, NEW c \in j.old, InChunk(r, c)
        PROVE  import[r[1]].at = "done" /\ \A d \in Chunks : ~ InChunk(r, d)'
    BY <1>2, <1>3, <1>8, <2>2
  <2>3. CASE p \notin N
    <3>1. p \in Partitions \ (N \cup {P})
      BY <1>6, <1>10, <2>3
    <3> QED
      BY <1>3, <1>4, <1>8, <1>10, <3>1
  <2> QED
    BY <1>5, <1>10, <2>1, <2>2, <2>3
<1>11. ASSUME NEW r \in Rows, NEW c \in Chunks, InChunk(r, c)'
       PROVE  import[r[1]].at = "done" /\ \A d \in Chunks : InChunk(r, d)' => c = d
  BY <1>3, <1>8, <1>11
<1> QED
  BY <1>9, <1>10, <1>11 DEF RowsOK

LEMMA CompactSwapStep ==
    ASSUME StoreInv, TypeOK', NEW j \in jobs, CompactSwap(j)
    PROVE  StoreInv'
<1>0. /\ UNCHANGED <<import, garbage, deleted>> /\ SwapChunks(j.old, {})
      /\ j.type = "compaction" /\ j.at = "created" /\ jobs' = jobs \ {j}
      /\ events' = events \cup Changed(j.old) \cup {<<"partition", j.partition>>}
  BY DEF CompactSwap
<1>1. PICK N \in SUBSET j.new : Swapped(j, N)
  BY SwapIs
<1> DEFINE P == j.partition
<1>2. /\ Active' = (Active \ {P}) \cup N /\ N \cap Active = {} /\ N \subseteq Partitions
      /\ \A q \in Partitions : Replaced(q) => Replaced(q)'
      /\ Replaced(P)'
      /\ \A q \in Partitions : Settled(q) => q \notin N /\ Settled(q)'
      /\ \A q \in Partitions : \A key : Settled(q) => (In(q, key)' <=> In(q, key))
      /\ \A q \in Partitions : Settled(q) /\ Rooted(q) => Rooted(q)'
      /\ Tiling' /\ PartitionsOK'
  BY <1>0, <1>1, SwapRoots
<1>3. /\ P \in Active /\ j.old \subseteq ActiveChunks(P)
      /\ \A p \in j.new : partitions[p].parent = P
  BY <1>0, <1>1 DEF StoreInv, JobsOK, CompactionOK, Swapped
<1>4. \A c \in Chunks : /\ chunks'[c].partition = chunks[c].partition
                        /\ chunks'[c].rows = chunks[c].rows
                        /\ c \in j.old => chunks'[c].at = "inactive" /\ chunks[c].at = "active"
                                          /\ chunks[c].partition = P
                        /\ c \notin j.old => chunks'[c].at = chunks[c].at
  BY <1>0, <1>3, SwapChunksIs DEF StoreInv, ActiveChunks
<1>5. ChunksOK'
  <2>1. ASSUME NEW c \in Chunks, chunks[c].at # "none"
        PROVE  /\ Settled(chunks[c].partition)' /\ Rooted(chunks[c].partition)'
               /\ \A r \in chunks[c].rows : In(chunks[c].partition, r[2])'
    <3>1. PICK q \in Partitions : q = chunks[c].partition
      BY Types DEF StoreInv, ChunkRow
    <3>2. Settled(q) /\ Rooted(q) /\ \A r \in chunks[c].rows : In(q, r[2])
      BY <2>1, <3>1 DEF StoreInv, ChunksOK
    <3>3. Settled(q)' /\ Rooted(q)' /\ \A r \in chunks[c].rows : In(q, r[2])'
      BY <1>2, <3>2
    <3>4. chunks'[c].partition = q /\ chunks'[c].rows = chunks[c].rows
      BY <1>4, <3>1
    <3> QED
      BY <3>1, <3>3, <3>4 DEF Settled, Rooted, Replaced, In
  <2> QED
    BY <1>4, <2>1 DEF ChunksOK, Settled, Rooted, Replaced, In
<1>6. ImportsOK'
  BY <1>0, <1>4, Types DEF StoreInv, ImportsOK, Divides, RowsOf, ImportRow
<1>7. RowsOK'
  BY <1>0, <1>1, SwapRowsOK
<1>8. ASSUME NEW k \in jobs \ {j} PROVE CompactionOK(k)' /\ RepartitionOK(k)'
  <2>1. CompactionOK(k) /\ RepartitionOK(k) /\ k \in JobRow
    BY Types DEF StoreInv, JobsOK
  <2>2. ASSUME k.partition # P PROVE ActiveChunks(k.partition)' = ActiveChunks(k.partition)
    BY <1>4, <2>2 DEF ActiveChunks
  <2>3. CompactionOK(k)'
    <3>1. SUFFICES ASSUME k.type = "compaction", k.at = "created" PROVE CompactionOK(k)'
      BY DEF CompactionOK
    <3>2. k.partition # P
      BY <1>0, <3>1 DEF StoreInv, JobsOK
    <3>3. \A p \in k.new : p \in Partitions /\ p \notin N /\ p # P
      BY <1>3, <2>1, <3>1, <3>2 DEF CompactionOK, Active
    <3>4. \A p \in k.new : partitions'[p] = partitions[p]
      BY <1>1, <3>3 DEF Swapped
    <3>5. /\ k.partition \in Partitions /\ Settled(k.partition)
      BY <2>1, <3>1 DEF CompactionOK, JobRow
    <3>6. Settled(k.partition)' /\ (k.partition \in Active' => k.partition \in Active)
      BY <1>2, <3>5
    <3> QED
      BY <2>1, <2>2, <3>1, <3>2, <3>3, <3>4, <3>6 DEF CompactionOK
  <2>4. RepartitionOK(k)'
    <3>1. SUFFICES ASSUME k.type = "repartition" PROVE RepartitionOK(k)'
      BY DEF RepartitionOK
    <3>2. k.partition # P /\ Replaced(k.partition)' /\ k.new \subseteq Chunks
      BY <1>2, <1>3, <2>1, <3>1 DEF RepartitionOK, Replaced, Active, JobRow, StoreInv, CreatesChunks
    <3> QED
      BY <1>0, <1>4, <2>1, <2>2, <3>1, <3>2 DEF RepartitionOK, Divides, RowsOfChunks, ActiveChunks
  <2> QED
    BY <2>3, <2>4
<1>9. JobsOK' /\ CreatesChunks'
  BY <1>0, <1>8 DEF StoreInv, JobsOK, CreatesChunks, StageOK, Cutting
<1>10. EventsOK'
  <2>1. \A e \in events' : e[1] \in {"partition", "job"} =>
            (e \in events /\ e[2] \in Partitions) \/ e[2] = P
    BY <1>0, Types DEF StoreInv, Events, Changed
  <2> QED
    BY <1>2, <2>1 DEF StoreInv, EventsOK
<1>11. GarbageOK' /\ DeletedOK'
  BY <1>0, <1>2, <1>4 DEF StoreInv, GarbageOK, DeletedOK
<1> QED
  BY <1>2, <1>5, <1>6, <1>7, <1>9, <1>10, <1>11 DEF StoreInv

-----------------------------------------------------------------------------
(***************************************************************************)
(* Swapping chunks                                                         *)
(***************************************************************************)
LEMMA DividesStays ==
    ASSUME NEW C, NEW S, Divides(C, S),
           \A c \in C : chunks'[c].rows = chunks[c].rows /\ chunks'[c].at = chunks[c].at
    PROVE  Divides(C, S)'
BY DEF Divides

\* Chunks come and go, of the partitions that had them.
LEMMA SwapChunksOK ==
    ASSUME StoreInv, UNCHANGED partitions, NoNewCompaction, NEW old \in SUBSET Chunks, NEW new \in SUBSET Chunks,
           SwapChunks(old, new), \A c \in old \cup new : chunks[c].at # "none"
    PROVE  Tiling' /\ PartitionsOK' /\ ChunksOK' /\ (\A p : Replaced(p) => Replaced(p)')
<1>1. Tiling' /\ PartitionsOK'
  BY DEF StoreInv, Tiling, PartitionsOK, Active, In
<1>2. \A p : Settled(p) => Settled(p)'
  BY ReplacedStays DEF Settled, Active
<1>3. \A p : Rooted(p) => Rooted(p)'
  BY DEF Rooted, Active, In, Lineage
<1>4. ASSUME NEW c \in Chunks, chunks'[c].at # "none"
      PROVE  /\ Settled(chunks'[c].partition) /\ Rooted(chunks'[c].partition)
             /\ \A r \in chunks'[c].rows : In(chunks'[c].partition, r[2])
  BY <1>4, SwapChunksIs DEF StoreInv, ChunksOK
<1>5. ChunksOK'
  BY <1>2, <1>3, <1>4 DEF ChunksOK, In
<1> QED
  BY <1>1, <1>5, ReplacedStays

LEMMA ActivateStep ==
    ASSUME StoreInv, TypeOK', NEW i \in Imports, ActivateChunks(i)
    PROVE  StoreInv'
<1>0. /\ UNCHANGED <<partitions, jobs, garbage, deleted>> /\ NoNewCompaction
      /\ import[i].at = "created" /\ SwapChunks({}, import[i].chunks)
      /\ events' = events \cup Changed(import[i].chunks)
      /\ import' = [import EXCEPT ![i].at = "done"]
  BY DEF ActivateChunks, NoNewCompaction
<1>1. PICK new \in SUBSET Chunks : new = import[i].chunks
  BY Types DEF StoreInv, ImportRow
<1>2. Divides(new, RowsOf(i)) /\ SwapChunks({}, new)
  BY <1>0, <1>1 DEF StoreInv, ImportsOK
<1>3. \A c \in Chunks : /\ chunks'[c].partition = chunks[c].partition
                        /\ chunks'[c].rows = chunks[c].rows
                        /\ c \in new => chunks'[c].at = "active" /\ chunks[c].at = "created"
                        /\ c \notin new => chunks'[c].at = chunks[c].at
  BY <1>2, SwapChunksIs DEF StoreInv, Divides
<1>4. /\ import'[i].at = "done"
      /\ \A k \in Imports \ {i} : import'[k] = import[k]
      /\ \A k \in Imports : import[k].chunks \subseteq Chunks
  BY <1>0, Types DEF StoreInv, ImportRow
<1>5. Tiling' /\ PartitionsOK' /\ ChunksOK'
  <2>1. \A c \in {} \cup new : chunks[c].at # "none"
    BY <1>3
  <2> QED
    BY <1>0, <1>2, <2>1, SwapChunksOK
<1>6. ImportsOK'
  BY <1>0, <1>1, <1>3, <1>4 DEF StoreInv, ImportsOK, Divides, RowsOf
<1>7. \A r, c : InChunk(r, c)' <=> InChunk(r, c) \/ (c \in new /\ r \in chunks[c].rows)
  BY <1>3 DEF InChunk
<1>8. \A r, p : InPartition(r, p)' <=> InPartition(r, p)
  BY <1>0 DEF InPartition, Active
<1>9. RowsOK'
  <2>1. ASSUME NEW r \in Rows, r[1] = i
        PROVE  /\ \A p \in Partitions : ~ InPartition(r, p)'
               /\ \E c \in Chunks : InChunk(r, c)'
               /\ \A c, d \in Chunks : InChunk(r, c)' /\ InChunk(r, d)' => c = d
    <3>1. /\ \A p \in Partitions : ~ InPartition(r, p)
          /\ \A c \in Chunks : ~ InChunk(r, c)
      BY <1>0, <2>1 DEF StoreInv, RowsOK
    <3>2. /\ \E c \in new : r \in chunks[c].rows
          /\ \A c, d \in new : r \in chunks[c].rows /\ r \in chunks[d].rows => c = d
      BY <1>2, <2>1 DEF Divides, RowsOf
    <3> QED
      BY <1>7, <1>8, <3>1, <3>2
  <2>2. ASSUME NEW r \in Rows, r[1] # i
        PROVE  \A c \in Chunks : InChunk(r, c)' <=> InChunk(r, c)
    <3>1. \A c \in new : r \notin chunks[c].rows
      BY <1>2, <2>2 DEF Divides, RowsOf
    <3> QED
      BY <1>7, <3>1
  <2> QED
    BY <1>4, <1>8, <2>1, <2>2, RowTypes DEF StoreInv, RowsOK
<1>10. ASSUME NEW k \in jobs PROVE CompactionOK(k)' /\ RepartitionOK(k)'
  <2>1. /\ CompactionOK(k) /\ RepartitionOK(k) /\ k \in JobRow
        /\ (k.type = "repartition" => k.new \subseteq Chunks)
    BY Types DEF StoreInv, JobsOK, CreatesChunks
  <2>2. ActiveChunks(k.partition) \subseteq ActiveChunks(k.partition)'
    BY <1>3 DEF ActiveChunks
  <2>3. CompactionOK(k)'
    <3>1. Settled(k.partition) => Settled(k.partition)'
      BY <1>0, ReplacedStays DEF Settled, Active
    <3> QED
      BY <1>0, <2>1, <2>2, <3>1 DEF CompactionOK, Active
  <2>4. RepartitionOK(k)'
    <3>1. SUFFICES ASSUME k.type = "repartition" PROVE RepartitionOK(k)'
      BY DEF RepartitionOK
    <3>2. Replaced(k.partition)'
      BY <1>0, <2>1, <3>1, ReplacedStays DEF RepartitionOK
    <3>3. CASE k.at = "read"
      <4>1. /\ k.todo \subseteq k.old /\ k.old \subseteq ActiveChunks(k.partition)
            /\ Divides(k.new, RowsOfChunks(k.old \ k.todo)) /\ k.new \cap new = {}
            /\ \A l \in Imports : import'[l].at = "created" => import'[l].chunks \cap k.new = {}
        BY <1>0, <1>1, <1>4, <2>1, <3>1, <3>3 DEF RepartitionOK
      <4>2. RowsOfChunks(k.old \ k.todo)' = RowsOfChunks(k.old \ k.todo)
        BY <1>3, <4>1 DEF RowsOfChunks, ActiveChunks
      <4>3. Divides(k.new, RowsOfChunks(k.old \ k.todo))'
        <5>1. PICK S : S = RowsOfChunks(k.old \ k.todo)
          OBVIOUS
        <5>2. \A c \in k.new : chunks'[c].rows = chunks[c].rows /\ chunks'[c].at = chunks[c].at
          BY <1>3, <2>1, <3>1, <4>1
        <5>3. Divides(k.new, S)'
          BY <4>1, <5>1, <5>2, DividesStays
        <5> QED
          BY <4>2, <5>1, <5>3 DEF Divides
      <4> QED
        BY <2>2, <3>2, <4>1, <4>3 DEF RepartitionOK
    <3> QED
      BY <3>2, <3>3 DEF RepartitionOK
  <2> QED
    BY <2>3, <2>4
<1>11. JobsOK' /\ CreatesChunks'
  BY <1>0, <1>10 DEF StoreInv, JobsOK, CreatesChunks, StageOK, Cutting
<1>12. EventsOK'
  BY <1>0, ReplacedStays DEF StoreInv, EventsOK, Changed
<1>13. GarbageOK' /\ DeletedOK'
  BY <1>0, <1>3, ReplacedStays DEF StoreInv, GarbageOK, DeletedOK
<1> QED
  BY <1>5, <1>6, <1>9, <1>11, <1>12, <1>13 DEF StoreInv

LEMMA RepartitionSwapStep ==
    ASSUME StoreInv, TypeOK', NEW j \in jobs, RepartitionSwap(j)
    PROVE  StoreInv'
<1>0. /\ UNCHANGED <<partitions, import, garbage, deleted>>
      /\ j.type = "repartition" /\ j.at = "read" /\ j.todo = {}
      /\ SwapChunks(j.old, j.new)
      /\ events' = events \cup Changed(j.old \cup j.new)
      /\ Becomes(j, [j EXCEPT !.at = "swapped"])
  BY DEF RepartitionSwap
<1> DEFINE k == [j EXCEPT !.at = "swapped"]
<1>1. j \in JobRow /\ RepartitionOK(j) /\ j.new \subseteq Chunks /\ j.old \subseteq Chunks
  BY <1>0, Types DEF StoreInv, JobsOK, CreatesChunks, JobRow
<1>2. /\ k.type = "repartition" /\ k.at = "swapped" /\ k.partition = j.partition /\ k.new = j.new
      /\ jobs' = (jobs \ {j}) \cup {k}
  BY <1>0, <1>1 DEF JobRow, Becomes
<1> HIDE DEF k
<1>3. NoNewCompaction
  BY <1>2 DEF NoNewCompaction
<1>4. /\ j.old \subseteq ActiveChunks(j.partition) /\ Divides(j.new, RowsOfChunks(j.old))
      /\ Replaced(j.partition)
      /\ \A i \in Imports : import[i].at = "created" => import[i].chunks \cap j.new = {}
  <2>1. j.old \ j.todo = j.old
    BY <1>0
  <2> QED
    BY <1>0, <1>1, <2>1 DEF RepartitionOK
<1>5. \A c \in Chunks : /\ chunks'[c].partition = chunks[c].partition
                        /\ chunks'[c].rows = chunks[c].rows
                        /\ c \in j.new => chunks'[c].at = "active" /\ chunks[c].at = "created"
                        /\ c \in j.old => /\ chunks'[c].at = "inactive" /\ chunks[c].at = "active"
                                          /\ chunks[c].partition = j.partition
                        /\ c \notin j.old \cup j.new => chunks'[c].at = chunks[c].at
  <2>1. \A c \in j.new : chunks[c].at = "created"
    BY <1>4 DEF Divides
  <2>2. \A c \in j.old : chunks[c].at = "active" /\ chunks[c].partition = j.partition
    BY <1>4 DEF ActiveChunks
  <2> QED
    BY <1>0, <2>1, <2>2, SwapChunksIs DEF StoreInv
<1>6. Tiling' /\ PartitionsOK' /\ ChunksOK' /\ (\A p : Replaced(p) => Replaced(p)')
  <2>1. \A c \in j.old \cup j.new : chunks[c].at # "none"
    BY <1>1, <1>5
  <2> QED
    BY <1>0, <1>1, <1>3, <2>1, SwapChunksOK
<1>7. ASSUME NEW i \in Imports, import[i].at = "created" PROVE Divides(import[i].chunks, RowsOf(i))'
  <2>1. PICK C \in SUBSET Chunks : C = import[i].chunks
    BY Types DEF StoreInv, ImportRow
  <2>2. Divides(C, RowsOf(i)) /\ C \cap j.new = {}
    BY <1>4, <1>7, <2>1 DEF StoreInv, ImportsOK
  <2>3. \A c \in C : chunks'[c].rows = chunks[c].rows /\ chunks'[c].at = chunks[c].at
    BY <1>5, <2>2 DEF Divides
  <2>4. Divides(C, RowsOf(i))'
    BY <2>2, <2>3, DividesStays DEF RowsOf
  <2> QED
    BY <1>0, <2>1, <2>4 DEF Divides
<1>8. ImportsOK'
  BY <1>0, <1>7 DEF StoreInv, ImportsOK, Divides, RowsOf
<1>9. \A r, c : InChunk(r, c)' <=>
          (InChunk(r, c) /\ c \notin j.old) \/ (c \in j.new /\ r \in chunks[c].rows)
  BY <1>1, <1>5 DEF InChunk
<1>10. \A r, p : InPartition(r, p)' <=> InPartition(r, p)
  BY <1>0 DEF InPartition, Active
<1>11. RowsOK'
  <2>1. ASSUME NEW r \in Rows
        PROVE  /\ import[r[1]].at = "done" =>
                 (\E p \in Partitions : InPartition(r, p)) \/ (\E c \in Chunks : InChunk(r, c))
               /\ \A p \in Partitions : InPartition(r, p) =>
                 import[r[1]].at = "done" /\ \A c \in Chunks : ~ InChunk(r, c)
               /\ \A c \in Chunks : InChunk(r, c) =>
                 import[r[1]].at = "done" /\ \A d \in Chunks : InChunk(r, d) => c = d
    BY DEF StoreInv, RowsOK
  <2>2. \A r, c : c \in j.old /\ r \in chunks[c].rows => InChunk(r, c)
    BY <1>1, <1>5 DEF InChunk
  <2>3. \A c \in j.new : \A r \in chunks[c].rows : \E d \in j.old : r \in chunks[d].rows
    BY <1>4 DEF Divides, RowsOfChunks
  <2>4. \A d \in j.old : \A r \in chunks[d].rows : \E c \in j.new : r \in chunks[c].rows
    BY <1>4 DEF Divides, RowsOfChunks
  <2>5. \A c, d \in j.new : \A r : r \in chunks[c].rows /\ r \in chunks[d].rows => c = d
    BY <1>4 DEF Divides
  <2>6. ASSUME NEW r \in Rows, import[r[1]].at = "done"
        PROVE  (\E p \in Partitions : InPartition(r, p)') \/ (\E c \in Chunks : InChunk(r, c)')
    <3>1. ASSUME NEW c \in Chunks, InChunk(r, c) PROVE \E d \in Chunks : InChunk(r, d)'
      <4>1. CASE c \in j.old
        BY <1>1, <1>9, <2>4, <3>1, <4>1 DEF InChunk
      <4>2. CASE c \notin j.old
        BY <1>9, <3>1, <4>2
      <4> QED
        BY <4>1, <4>2
    <3> QED
      BY <1>10, <2>1, <2>6, <3>1
  <2>7. ASSUME NEW r \in Rows, NEW c \in Chunks, InChunk(r, c)'
        PROVE  \E d \in Chunks : InChunk(r, d) /\ (c = d \/ d \in j.old)
    BY <1>1, <1>9, <2>2, <2>3, <2>7
  <2>8. ASSUME NEW r \in Rows, NEW c \in Chunks, InChunk(r, c)', NEW d \in Chunks, InChunk(r, d)'
        PROVE  c = d
    <3>1. \A x, y \in Chunks : InChunk(r, x) /\ InChunk(r, y) => x = y
      BY <2>1
    <3>2. \A x \in Chunks : InChunk(r, x)' /\ x \notin j.new => InChunk(r, x) /\ x \notin j.old
      BY <1>9
    <3>3. \A x \in j.new : InChunk(r, x)' => r \in chunks[x].rows
      BY <1>5, <1>1 DEF InChunk
    <3>4. \A x \in j.new : InChunk(r, x)' => \E y \in j.old : y \in Chunks /\ InChunk(r, y)
      BY <1>1, <2>2, <2>3, <3>3
    <3>5. CASE c \in j.new /\ d \in j.new
      BY <2>5, <2>8, <3>3, <3>5
    <3>6. CASE c \notin j.new \/ d \notin j.new
      BY <2>8, <3>1, <3>2, <3>4, <3>6
    <3> QED
      BY <3>5, <3>6
  <2> QED
    BY <1>0, <1>10, <2>1, <2>6, <2>7, <2>8 DEF RowsOK

<1>12. ASSUME NEW i \in jobs \ {j} PROVE CompactionOK(i)' /\ RepartitionOK(i)'
  <2>1. CompactionOK(i) /\ RepartitionOK(i) /\ i \in JobRow
        /\ (i.type = "repartition" => i.new \subseteq Chunks)
    BY Types DEF StoreInv, JobsOK, CreatesChunks
  <2>2. i.partition # j.partition => ActiveChunks(i.partition) \subseteq ActiveChunks(i.partition)'
    BY <1>5 DEF ActiveChunks
  <2>3. CompactionOK(i)'
    <3>1. Settled(i.partition) => Settled(i.partition)'
      BY <1>0, <1>6 DEF Settled, Active
    <3>2. j.partition \notin Active
      BY <1>4 DEF Replaced, Active
    <3> QED
      BY <1>0, <2>1, <2>2, <3>1, <3>2 DEF CompactionOK, Active
  <2>4. RepartitionOK(i)'
    <3>1. SUFFICES ASSUME i.type = "repartition" PROVE RepartitionOK(i)'
      BY DEF RepartitionOK
    <3>2. Replaced(i.partition)' /\ i.partition # j.partition
      BY <1>0, <1>6, <2>1, <3>1 DEF RepartitionOK, StoreInv, JobsOK
    <3>3. CASE i.at = "read"
      <4>1. /\ i.todo \subseteq i.old /\ i.old \subseteq ActiveChunks(i.partition)
            /\ Divides(i.new, RowsOfChunks(i.old \ i.todo)) /\ i.new \cap j.new = {}
            /\ \A l \in Imports : import[l].at = "created" => import[l].chunks \cap i.new = {}
        BY <1>0, <2>1, <3>1, <3>3 DEF RepartitionOK, StoreInv, JobsOK, Cutting
      <4>2. RowsOfChunks(i.old \ i.todo)' = RowsOfChunks(i.old \ i.todo)
        BY <1>5, <4>1 DEF RowsOfChunks, ActiveChunks
      <4>3. Divides(i.new, RowsOfChunks(i.old \ i.todo))'
        <5>1. PICK S : S = RowsOfChunks(i.old \ i.todo)
          OBVIOUS
        <5>2. \A c \in i.new : chunks[c].at = "created" /\ c \in Chunks
          BY <2>1, <3>1, <4>1 DEF Divides
        <5>3. \A c \in i.new : chunks'[c].rows = chunks[c].rows /\ chunks'[c].at = chunks[c].at
          BY <1>5, <4>1, <5>2
        <5>4. Divides(i.new, S)'
          BY <4>1, <5>1, <5>3, DividesStays
        <5>5. RowsOfChunks(i.old \ i.todo)' = S
          BY <4>2, <5>1
        <5> QED
          BY <5>4, <5>5 DEF Divides
      <4> QED
        BY <1>0, <2>2, <3>2, <4>1, <4>3 DEF RepartitionOK
    <3> QED
      BY <3>2, <3>3 DEF RepartitionOK
  <2> QED
    BY <2>3, <2>4
<1>13. CompactionOK(k)' /\ RepartitionOK(k)' /\ StageOK(k)'
  BY <1>2, <1>4, <1>6 DEF CompactionOK, RepartitionOK, StageOK
<1>14. JobsOK' /\ CreatesChunks'
  <2>1. \A i, l \in jobs' : i.partition = l.partition /\ i.type = l.type => i = l
    BY <1>0, <1>2 DEF StoreInv, JobsOK
  <2>2. \A i \in jobs' : CompactionOK(i)' /\ RepartitionOK(i)' /\ StageOK(i)'
    BY <1>2, <1>12, <1>13 DEF StoreInv, JobsOK, StageOK
  <2>3. \A i, l \in jobs' : Cutting(i) /\ Cutting(l) /\ i # l => i.new \cap l.new = {}
    BY <1>2 DEF StoreInv, JobsOK, Cutting
  <2>4. CreatesChunks'
    BY <1>1, <1>2 DEF StoreInv, CreatesChunks
  <2> QED
    BY <2>1, <2>2, <2>3, <2>4 DEF JobsOK, Cutting
<1>15. EventsOK'
  BY <1>0, <1>6 DEF StoreInv, EventsOK, Changed
<1>16. GarbageOK' /\ DeletedOK'
  BY <1>0, <1>5, <1>6 DEF StoreInv, GarbageOK, DeletedOK
<1> QED
  BY <1>6, <1>8, <1>11, <1>14, <1>15, <1>16 DEF StoreInv

LEMMA CollectStep ==
    ASSUME StoreInv, TypeOK', NEW g \in garbage, Collect(g)
    PROVE  StoreInv'
<1>0. /\ UNCHANGED <<partitions, import, jobs, events>> /\ NoNewCompaction
      /\ garbage' \subseteq garbage /\ deleted' = deleted \cup {<<g.kind, g.of>>}
  BY DEF Collect, NoNewCompaction
<1>1. \/ /\ g.kind = "chunk" /\ g.of \in Chunks /\ chunks[g.of].at \in {"inactive", "deleted"}
         /\ chunks'[g.of].at = "deleted" /\ chunks'[g.of].partition = chunks[g.of].partition
         /\ chunks'[g.of].rows = chunks[g.of].rows
         /\ \A c \in Chunks \ {g.of} : chunks'[c] = chunks[c]
      \/ g.kind = "partition" /\ g.of \in Partitions /\ Replaced(g.of) /\ chunks' = chunks
  BY Types DEF StoreInv, Collect, GarbageOK, ChunkRow
<1>2. /\ \A c \in Chunks : chunks[c].at \in {"created", "active"} => chunks'[c] = chunks[c]
      /\ \A c \in Chunks : /\ chunks'[c].partition = chunks[c].partition
                           /\ chunks'[c].rows = chunks[c].rows
                           /\ chunks'[c].at # chunks[c].at =>
                                chunks[c].at = "inactive" /\ chunks'[c].at = "deleted"
  BY <1>1
<1>3. \A p : Replaced(p) => Replaced(p)'
  BY <1>0, ReplacedStays
<1>4. Tiling' /\ PartitionsOK' /\ ChunksOK'
  <2>1. Tiling' /\ PartitionsOK'
    BY <1>0 DEF StoreInv, Tiling, PartitionsOK, Active, In
  <2>2. \A p : Settled(p) => Settled(p)'
    BY <1>0, <1>3 DEF Settled, Active
  <2>3. \A p : Rooted(p) => Rooted(p)'
    BY <1>0 DEF Rooted, Active, In, Lineage
  <2>4. ASSUME NEW c \in Chunks, chunks'[c].at # "none"
        PROVE  /\ Settled(chunks'[c].partition) /\ Rooted(chunks'[c].partition)
               /\ \A r \in chunks'[c].rows : In(chunks'[c].partition, r[2])
    BY <1>2, <2>4 DEF StoreInv, ChunksOK
  <2>5. ChunksOK'
    BY <1>0, <2>2, <2>3, <2>4 DEF ChunksOK, In
  <2> QED
    BY <2>1, <2>5
<1>5. /\ \A r, c : InChunk(r, c)' <=> InChunk(r, c)
      /\ \A r, p : InPartition(r, p)' <=> InPartition(r, p)
      /\ \A p : ActiveChunks(p)' = ActiveChunks(p)
  <2>1. \A c \in Chunks : chunks'[c].at = "active" <=> chunks[c].at = "active"
    BY <1>2
  <2> QED
    BY <1>0, <1>2, <2>1 DEF InChunk, InPartition, Active, ActiveChunks
<1>6. RowsOK'
  BY <1>0, <1>5 DEF StoreInv, RowsOK
<1>7. \A S : \A C \in SUBSET Chunks : Divides(C, S) => Divides(C, S)'
  <2>1. SUFFICES ASSUME NEW C \in SUBSET Chunks, NEW S, Divides(C, S) PROVE Divides(C, S)'
    OBVIOUS
  <2>2. \A c \in C : chunks'[c].rows = chunks[c].rows /\ chunks'[c].at = chunks[c].at
    BY <1>2, <2>1 DEF Divides
  <2> QED
    BY <2>1, <2>2, DividesStays
<1>8. ImportsOK'
  <2>1. ASSUME NEW i \in Imports, import[i].at = "created" PROVE Divides(import[i].chunks, RowsOf(i))'
    <3>1. PICK C \in SUBSET Chunks : C = import[i].chunks
      BY Types DEF StoreInv, ImportRow
    <3>2. Divides(C, RowsOf(i))
      BY <2>1, <3>1 DEF StoreInv, ImportsOK
    <3>3. Divides(C, RowsOf(i))'
      BY <1>7, <3>2 DEF RowsOf
    <3> QED
      BY <1>0, <3>1, <3>3 DEF Divides
  <2> QED
    BY <1>0, <2>1 DEF StoreInv, ImportsOK, Divides, RowsOf
<1>9. ASSUME NEW i \in jobs PROVE CompactionOK(i)' /\ RepartitionOK(i)'
  <2>1. CompactionOK(i) /\ RepartitionOK(i) /\ i \in JobRow
        /\ (i.type = "repartition" => i.new \subseteq Chunks)
    BY Types DEF StoreInv, JobsOK, CreatesChunks
  <2>2. CompactionOK(i)'
    <3>1. Settled(i.partition) => Settled(i.partition)'
      BY <1>0, <1>3 DEF Settled, Active
    <3> QED
      BY <1>0, <1>5, <2>1, <3>1 DEF CompactionOK, Active
  <2>3. RepartitionOK(i)'
    <3>1. SUFFICES ASSUME i.type = "repartition", i.at = "read" PROVE RepartitionOK(i)'
      BY <1>3, <2>1 DEF RepartitionOK
    <3>2. PICK S : S = RowsOfChunks(i.old \ i.todo)
      OBVIOUS
    <3>3. RowsOfChunks(i.old \ i.todo)' = S
      BY <1>2, <2>1, <3>1, <3>2 DEF RowsOfChunks, RepartitionOK, ActiveChunks
    <3>4. Divides(i.new, S)'
      BY <1>7, <2>1, <3>1, <3>2 DEF RepartitionOK
    <3>5. Divides(i.new, RowsOfChunks(i.old \ i.todo))'
      BY <3>3, <3>4 DEF Divides
    <3> QED
      BY <1>0, <1>3, <1>5, <2>1, <3>1, <3>5 DEF RepartitionOK
  <2> QED
    BY <2>2, <2>3
<1>10. JobsOK' /\ CreatesChunks'
  BY <1>0, <1>9 DEF StoreInv, JobsOK, CreatesChunks, StageOK, Cutting
<1>11. EventsOK'
  BY <1>0, <1>3 DEF StoreInv, EventsOK
<1>12. GarbageOK'
  <2>1. \A c \in Chunks : chunks[c].at \in {"inactive", "deleted"} =>
            chunks'[c].at \in {"inactive", "deleted"}
    BY <1>2
  <2> QED
    BY <1>0, <1>3, <2>1 DEF StoreInv, GarbageOK
<1>13. DeletedOK'
  BY <1>0, <1>1, <1>2, <1>3 DEF StoreInv, DeletedOK
<1> QED
  BY <1>4, <1>6, <1>8, <1>10, <1>11, <1>12, <1>13 DEF StoreInv

-----------------------------------------------------------------------------
(***************************************************************************)
(* The invariant and the theorems                                          *)
(***************************************************************************)
LEMMA InitInv == Init => StoreInv
<1> SUFFICES ASSUME Init PROVE StoreInv
  OBVIOUS
<1>1. TypeOK
  BY InitTypeOK
<1>2. 1 \in Partitions
  BY Bounds DEF Partitions
<1>3. /\ partitions[1].at = "active" /\ partitions[1].min = 1 /\ partitions[1].max = MaxKey + 1
      /\ partitions[1].parent = 0 /\ partitions[1].rows = {r \in Rows : r[1] \in Loaded}
      /\ \A p \in Partitions \ {1} : partitions[p].at = "none" /\ partitions[p].parent = 0
  BY <1>2 DEF Init, NoPartition
<1>4. /\ \A c \in Chunks : chunks[c].at = "none"
      /\ \A i \in Imports : import[i].at = IF i \in Loaded THEN "done" ELSE "none"
      /\ jobs = {} /\ events = {} /\ garbage = {} /\ deleted = {}
  BY DEF Init, NoChunk
<1>5. Active = {1}
  BY <1>2, <1>3 DEF Active
<1>6. \A k \in Keys : In(1, k)
  BY <1>3, Bounds DEF In, Keys
<1>7. Tiling
  BY <1>5, <1>6 DEF Tiling
<1>8. PartitionsOK
  <2>1. 0 \notin Partitions
    BY DEF Partitions
  <2> QED
    BY <1>3, <1>5, <1>6, <2>1, RowTypes DEF PartitionsOK
<1>9. ChunksOK /\ ImportsOK /\ JobsOK /\ CreatesChunks /\ EventsOK /\ GarbageOK /\ DeletedOK
  BY <1>4 DEF ChunksOK, ImportsOK, JobsOK, CreatesChunks, EventsOK, GarbageOK, DeletedOK
<1>10. RowsOK
  <2>1. \A r, c : ~ InChunk(r, c)
    BY <1>4 DEF InChunk
  <2>2. \A r \in Rows : \A p : InPartition(r, p) <=> p = 1 /\ import[r[1]].at = "done"
    BY <1>3, <1>4, <1>5, RowTypes DEF InPartition
  <2> QED
    BY <1>2, <2>1, <2>2 DEF RowsOK
<1> QED
  BY <1>1, <1>7, <1>8, <1>9, <1>10 DEF StoreInv

LEMMA NextInv == StoreInv /\ [Next]_vars => StoreInv'
<1> SUFFICES ASSUME StoreInv, [Next]_vars PROVE StoreInv'
  OBVIOUS
<1>0. TypeOK'
  BY NextTypeOK
<1>1. ASSUME NEW i \in Imports, ActivateChunks(i) PROVE StoreInv'
  BY <1>0, <1>1, ActivateStep
<1>2. ASSUME NEW e \in events, ProcessEvent(e) PROVE StoreInv'
  BY <1>0, <1>2, EventStep
<1>3. ASSUME NEW j \in jobs, Job(j) PROVE StoreInv'
  BY <1>0, <1>3, CompactCreateStep, CompactSwapStep, ReadStep, RepartitionCreateStep,
     RepartitionSwapStep, CompletedStep DEF Job
<1>4. ASSUME NEW i \in Imports, PartitionData(i) PROVE StoreInv'
  BY <1>0, <1>4, PartitionDataStep
<1>5. ASSUME NEW j \in jobs, JobFails(j) PROVE StoreInv'
  BY <1>0, <1>5, FailsStep
<1>6. CASE StartSelect
  BY <1>0, <1>6, OtherStep DEF StartSelect
<1>7. CASE EndSelect
  BY <1>0, <1>7, OtherStep DEF EndSelect
<1>8. CASE Tick
  BY <1>0, <1>8, TickStep
<1>9. ASSUME NEW g \in garbage, Collect(g) PROVE StoreInv'
  BY <1>0, <1>9, CollectStep
<1>10. CASE UNCHANGED vars
  BY <1>0, <1>10, OtherStep DEF vars
<1> QED
  BY <1>1, <1>2, <1>3, <1>4, <1>5, <1>6, <1>7, <1>8, <1>9, <1>10 DEF Next, Work

\* Whatever imports, compactions, repartitions, failures and collections have been
\* run, and in whatever order: the active partitions tile the keys, a chunk is found
\* from the active partition that has its keys now, and each row has one place.
THEOREM StoreSafety == Spec => []StoreInv
BY InitInv, NextInv, PTL DEF Spec

\* The rows of the meta store are well formed in every reachable state.
THEOREM StoreTypes == Spec => []TypeOK
<1>1. StoreInv => TypeOK
  BY DEF StoreInv
<1> QED
  BY <1>1, StoreSafety, PTL

LEMMA LineageNext ==
    ASSUME StoreInv, LineageOK, [Next]_vars
    PROVE  LineageOK'
<1>1. ASSUME UNCHANGED partitions, NoNewCompaction PROVE LineageOK'
  BY <1>1 DEF LineageOK, NoNewCompaction, Active, Lineage
<1>2. ASSUME NEW j \in jobs, CompactCreate(j) PROVE LineageOK'
  <2>1. PICK C \in SUBSET ActiveChunks(j.partition) \ {{}}, N \in SUBSET Unused(partitions) :
            /\ partitions' = [p \in Partitions |->
                  IF p \in N THEN [NoPartition EXCEPT !.at = "inactive", !.parent = j.partition]
                  ELSE partitions[p]]
            /\ Becomes(j, [j EXCEPT !.at = "created", !.old = C, !.new = N])
    BY <1>2 DEF CompactCreate
  <2> DEFINE k == [j EXCEPT !.at = "created", !.old = C, !.new = N]
  <2>2. k.new = N /\ jobs' = (jobs \ {j}) \cup {k}
    BY <2>1, Types DEF StoreInv, JobRow, Becomes
  <2> HIDE DEF k
  <2>3. /\ \A p \in N : p \in Partitions /\ partitions[p].at = "none"
        /\ \A p \in Partitions \ N : partitions'[p] = partitions[p]
        /\ \A p \in N : partitions'[p].at = "inactive" /\ partitions'[p].parent = j.partition
    BY <2>1, Types DEF StoreInv, Unused, NoPartition
  <2>4. j.partition \in Active /\ Active' = Active /\ Active \cap N = {}
    BY <1>2, <2>3 DEF Active, CompactCreate
  <2>5. \A p \in Partitions : partitions'[p].parent \notin N
    BY <2>3, <2>4 DEF StoreInv, PartitionsOK
  <2>6. ASSUME NEW i \in jobs, i.type = "compaction", i.at = "created", NEW p \in Partitions
        PROVE  partitions'[p].parent \notin i.new
    <3>1. CASE p \in N
      <4>1. CompactionOK(i)
        BY DEF StoreInv, JobsOK
      <4> QED
        BY <2>3, <2>4, <2>6, <3>1, <4>1 DEF CompactionOK, Active
    <3>2. CASE p \notin N
      BY <2>3, <2>6, <3>2 DEF LineageOK
    <3> QED
      BY <3>1, <3>2
  <2>7. ASSUME NEW p \in Active, NEW q \in Active, q \in Lineage(p)' PROVE q \in Lineage(p)
    <3>1. ASSUME NEW S \in SUBSET Partitions, p \in S,
                 \A x \in S : partitions[x].parent \in S \cup {0}
          PROVE  q \in S
      <4> DEFINE U == S \ N
      <4>1. \A x \in U : partitions'[x].parent \in U \cup {0}
        BY <2>3, <2>5, <3>1
      <4>2. p \in U /\ U \in SUBSET Partitions
        BY <2>4, <3>1
      <4> QED
        BY <2>7, <4>1, <4>2 DEF Lineage
    <3> QED
      BY <3>1 DEF Lineage, Active
  <2> QED
    BY <2>2, <2>4, <2>5, <2>6, <2>7 DEF LineageOK
<1>3. ASSUME NEW j \in jobs, CompactSwap(j) PROVE LineageOK'
  <2>0. j.type = "compaction" /\ j.at = "created" /\ jobs' = jobs \ {j}
    BY <1>3 DEF CompactSwap
  <2>1. PICK N \in SUBSET j.new : Swapped(j, N)
    BY <1>3, SwapIs
  <2> DEFINE P == j.partition
  <2>2. /\ Active' = (Active \ {P}) \cup N /\ N \cap Active = {} /\ N \subseteq Partitions
        /\ P \in Active /\ \A p \in N : partitions[p].parent = P
    BY <2>0, <2>1, SwapRoots DEF StoreInv, JobsOK, CompactionOK, Swapped
  <2>3. \A p \in Partitions : partitions'[p].parent = partitions[p].parent
    BY <2>1 DEF Swapped
  <2>4. \A q : Lineage(q)' = Lineage(q)
    BY <2>3 DEF Lineage
  <2>5. \A p \in Partitions : partitions[p].parent \notin N
    BY <2>0 DEF LineageOK
  <2>6. \A p \in Partitions : partitions[p].parent \in Partitions \cup {0}
    BY Types, Bounds DEF StoreInv, PartitionRow, Partitions
  <2>7. ASSUME NEW p \in Active, NEW q \in N PROVE q \notin Lineage(p)
    <3> DEFINE U == Partitions \ N
    <3>1. \A x \in U : partitions[x].parent \in U \cup {0}
      BY <2>5, <2>6
    <3>2. p \in U /\ U \in SUBSET Partitions
      BY <2>2 DEF Active
    <3> QED
      BY <3>1, <3>2 DEF Lineage
  <2>8. ASSUME NEW p \in N, NEW q \in Lineage(p), q # p PROVE q \in Lineage(P)
    <3>1. ASSUME NEW S \in SUBSET Partitions, P \in S,
                 \A x \in S : partitions[x].parent \in S \cup {0}
          PROVE  q \in S
      <4> DEFINE U == S \cup {p}
      <4>1. \A x \in U : partitions[x].parent \in U \cup {0}
        BY <2>2, <3>1
      <4>2. p \in U /\ U \in SUBSET Partitions
        BY <2>2
      <4>3. q \in U
        BY <4>1, <4>2 DEF Lineage
      <4> QED
        BY <2>8, <4>3
    <3> QED
      BY <3>1 DEF Lineage
  <2>9. ASSUME NEW p \in Active', NEW q \in Active', q \in Lineage(p) PROVE q = p
    <3>1. CASE p \in N
      <4>1. CASE q \in Lineage(P)
        <5>1. q \in Active \ {P}
          BY <2>2, <2>7, <2>9, <4>1
        <5> QED
          BY <2>2, <4>1, <5>1 DEF LineageOK
      <4> QED
        BY <2>8, <2>9, <3>1, <4>1
    <3>2. CASE p \notin N
      BY <2>2, <2>7, <2>9, <3>2 DEF LineageOK
    <3> QED
      BY <3>1, <3>2
  <2> QED
    BY <2>0, <2>3, <2>4, <2>9 DEF LineageOK
<1>4. ASSUME NEW i \in Imports, ActivateChunks(i) \/ PartitionData(i) PROVE LineageOK'
  BY <1>1, <1>4 DEF ActivateChunks, PartitionData, NoNewCompaction
<1>5. ASSUME NEW e \in events, ProcessEvent(e) PROVE LineageOK'
  <2>1. \A p, type : \A k \in Scheduled(p, type) : k \in jobs \/ k.at = "scheduled"
    BY DEF Scheduled, NewJob
  <2>2. NoNewCompaction
    BY <1>5, <2>1 DEF NoNewCompaction, ProcessEvent, ProcessActiveChunk, ProcessInactiveChunk,
       ProcessPartition, ProcessJob
  <2> QED
    BY <1>1, <1>5, <2>2 DEF ProcessEvent
<1>6. ASSUME NEW j \in jobs,
             RepartitionRead(j) \/ RepartitionCreate(j) \/ RepartitionSwap(j) \/ Completed(j)
             \/ JobFails(j)
      PROVE  LineageOK'
  <2>1. j \in JobRow
    BY Types DEF StoreInv
  <2>2. NoNewCompaction
    <3>1. CASE RepartitionRead(j)
      <4>1. [j EXCEPT !.at = "read", !.old = ActiveChunks(j.partition),
                      !.todo = ActiveChunks(j.partition)].at = "read"
        BY <2>1 DEF JobRow
      <4> QED
        BY <3>1, <4>1 DEF NoNewCompaction, RepartitionRead, Becomes
    <3>2. CASE RepartitionCreate(j)
      <4>1. \A c, new : [j EXCEPT !.todo = @ \ {c}, !.new = @ \cup new].type = "repartition"
        BY <2>1, <3>2 DEF JobRow, RepartitionCreate
      <4> QED
        BY <3>2, <4>1 DEF NoNewCompaction, RepartitionCreate, Becomes
    <3>3. CASE RepartitionSwap(j)
      <4>1. [j EXCEPT !.at = "swapped"].at = "swapped"
        BY <2>1 DEF JobRow
      <4> QED
        BY <3>3, <4>1 DEF NoNewCompaction, RepartitionSwap, Becomes
    <3>4. CASE Completed(j)
      BY <3>4 DEF NoNewCompaction, Completed
    <3>5. CASE JobFails(j)
      <4>1. [j EXCEPT !.at = "error"].at = "error"
        BY <2>1 DEF JobRow
      <4> QED
        BY <3>5, <4>1 DEF NoNewCompaction, JobFails, Becomes
    <3> QED
      BY <1>6, <3>1, <3>2, <3>3, <3>4, <3>5
  <2> QED
    BY <1>1, <1>6, <2>2 DEF RepartitionRead, RepartitionCreate, RepartitionSwap, Completed, JobFails
<1>7. CASE StartSelect \/ EndSelect \/ Tick \/ UNCHANGED vars
  BY <1>1, <1>7 DEF StartSelect, EndSelect, Tick, vars, NoNewCompaction
<1>8. ASSUME NEW g \in garbage, Collect(g) PROVE LineageOK'
  BY <1>1, <1>8 DEF Collect, NoNewCompaction
<1> QED
  BY <1>2, <1>3, <1>4, <1>5, <1>6, <1>7, <1>8 DEF Next, Work, Job

LEMMA LineageHolds == Spec => []LineageOK
<1>1. Init => LineageOK
  <2> SUFFICES ASSUME Init PROVE LineageOK
    OBVIOUS
  <2>1. jobs = {}
    BY DEF Init
  <2>2. \A p \in Active : p = 1
    BY DEF Init, Active, NoPartition
  <2> QED
    BY <2>1, <2>2 DEF LineageOK
<1>2. StoreInv /\ LineageOK /\ [Next]_vars => LineageOK'
  BY LineageNext
<1> QED
  BY <1>1, <1>2, StoreSafety, PTL DEF Spec

LEMMA FilesAre ==
    \A p, f : f \in FilesToRead(p) <=>
        \/ \E c \in ChunksToRead(p) : f = <<"chunk", c>>
        \/ partitions[p].rows # {} /\ f = <<"partition", p>>
BY DEF FilesToRead

\* A file that is read for some partition and has the row is its place.
LEMMA ReadIs ==
    ASSUME StoreInv, NEW r \in Rows, NEW p \in Active, NEW f \in FilesToRead(p), r \in RowsIn(f)
    PROVE  \/ f = <<"partition", p>> /\ InPartition(r, p)
           \/ \E c \in Chunks : f = <<"chunk", c>> /\ InChunk(r, c) /\ chunks[c].partition \in Lineage(p)
<1>1. CASE \E c \in ChunksToRead(p) : f = <<"chunk", c>>
  <2>1. PICK c \in ChunksToRead(p) : f = <<"chunk", c>>
    BY <1>1
  <2>2. c \in Chunks /\ chunks[c].at = "active" /\ chunks[c].partition \in Lineage(p)
    BY DEF ChunksToRead, ActiveChunks
  <2>3. r \in chunks[c].rows
    BY <2>1 DEF RowsIn
  <2> QED
    BY <2>1, <2>2, <2>3 DEF InChunk
<1>2. CASE f = <<"partition", p>>
  BY <1>2 DEF RowsIn, InPartition
<1> QED
  BY <1>1, <1>2, FilesAre

LEMMA OnePlace == StoreInv /\ LineageOK => EachRowIsRead
<1> SUFFICES ASSUME StoreInv, LineageOK, NEW r \in Rows
             PROVE  IF import[r[1]].at # "done" THEN Reads(r) = {}
                    ELSE \E p \in Active : \E f \in FilesToRead(p) :
                          /\ InRange(p, r) /\ r \in RowsIn(f)
                          /\ \A s \in Reads(r) : s[2] = f
                          /\ f[1] = "partition" \/ chunks[f[2]].partition \in Active
                                => Reads(r) = {<<p, f>>}
  BY DEF EachRowIsRead
<1>1. r[2] \in Keys
  BY RowTypes
<1>2. PICK p \in Active : In(p, r[2]) /\ \A q \in Active : In(q, r[2]) => q = p
  BY <1>1 DEF StoreInv, Tiling
<1>3. InRange(p, r) /\ p \in Partitions
  BY <1>2 DEF InRange, In, Active
<1>4. \A s \in Reads(r) :
        s[1] \in Active /\ s[2] \in FilesToRead(s[1]) /\ r \in RowsIn(s[2]) /\ s = <<s[1], s[2]>>
  BY DEF Reads
<1>5. \A q \in Partitions : InPartition(r, q) => q = p
  BY <1>2 DEF StoreInv, PartitionsOK, InPartition
<1>6. /\ import[r[1]].at = "done" => InPartition(r, p) \/ \E c \in Chunks : InChunk(r, c)
      /\ \A q \in Partitions : InPartition(r, q) =>
            import[r[1]].at = "done" /\ \A c \in Chunks : ~ InChunk(r, c)
      /\ \A c \in Chunks : InChunk(r, c) =>
            import[r[1]].at = "done" /\ \A d \in Chunks : InChunk(r, d) => c = d
  BY <1>5 DEF StoreInv, RowsOK
<1>7. \A q \in Active : q \in Partitions
  BY DEF Active
<1>8. CASE import[r[1]].at # "done"
  BY <1>4, <1>6, <1>7, <1>8, ReadIs
<1>9. CASE import[r[1]].at = "done" /\ InPartition(r, p)
  <2> DEFINE f == <<"partition", p>>
  <2>1. f \in FilesToRead(p) /\ r \in RowsIn(f)
    BY <1>9, FilesAre DEF RowsIn, InPartition
  <2>2. \A s \in Reads(r) : s = <<p, f>>
    BY <1>4, <1>5, <1>6, <1>7, <1>9, ReadIs
  <2>3. <<p, f>> \in Reads(r)
    BY <1>3, <2>1 DEF Reads, Files
  <2>4. Reads(r) = {<<p, f>>}
    BY <2>2, <2>3
  <2> QED
    BY <1>3, <1>9, <2>1, <2>4
<1>10. ASSUME import[r[1]].at = "done", NEW c \in Chunks, InChunk(r, c)
       PROVE  \E f \in FilesToRead(p) :
                 /\ r \in RowsIn(f) /\ \A s \in Reads(r) : s[2] = f
                 /\ f[1] = "partition" \/ chunks[f[2]].partition \in Active => Reads(r) = {<<p, f>>}
  <2> DEFINE f == <<"chunk", c>>
             P == chunks[c].partition
  <2>1. In(P, r[2]) /\ Rooted(P) /\ P \in Partitions
    BY <1>10, Types DEF StoreInv, ChunksOK, InChunk, ChunkRow
  <2>2. P \in Lineage(p)
    BY <1>1, <1>2, <2>1 DEF Rooted
  <2>3. f \in FilesToRead(p) /\ r \in RowsIn(f)
    BY <1>10, <2>2, FilesAre DEF ChunksToRead, ActiveChunks, InChunk, RowsIn
  <2>4. \A s \in Reads(r) : s[2] = f /\ P \in Lineage(s[1]) /\ s[1] \in Active /\ s = <<s[1], s[2]>>
    BY <1>4, <1>6, <1>7, <1>10, ReadIs
  <2>5. <<p, f>> \in Reads(r)
    BY <2>3 DEF Reads, Files
  <2>6. ASSUME P \in Active PROVE Reads(r) = {<<p, f>>}
    <3>1. \A s \in Reads(r) : s[1] = P
      BY <2>4, <2>6 DEF LineageOK
    <3>2. p = P
      BY <2>2, <2>6 DEF LineageOK
    <3> QED
      BY <2>4, <2>5, <3>1, <3>2
  <2>7. f[1] = "chunk" /\ f[2] = c
    OBVIOUS
  <2> HIDE DEF f
  <2> QED
    BY <2>3, <2>4, <2>6, <2>7
<1> QED
  BY <1>3, <1>6, <1>8, <1>9, <1>10

\* However many partitions, chunks, imports and failures there are, a row of an import
\* that has been activated is stored once, and a select that looks for its key reads
\* that file (get_active_partitions_and_chunks_by_index_id_for_select); it is read twice
\* only in a chunk whose partition has been replaced.  No row is read before.
THEOREM RowsAreRead == Spec => []EachRowIsRead
BY OnePlace, LineageHolds, StoreSafety, PTL

\* What the select that is planned reads is neither deleted nor to be deleted.
LEMMA PlannedFiles ==
    ASSUME StoreInv, StartSelect
    PROVE  /\ \A x \in deleted : x \notin select'.files
           /\ \A g \in garbage : <<g.kind, g.of>> \notin select'.files
<1>1. \A s \in select'.files :
          \/ \E p \in Active : s = <<"partition", p>>
          \/ \E c \in Chunks : s = <<"chunk", c>> /\ chunks[c].at = "active"
  BY DEF StartSelect, FilesToRead, ChunksToRead, ActiveChunks
<1>2. \A p \in Active : p \in Partitions /\ ~ Replaced(p)
  BY DEF Active, Replaced
<1>3. ASSUME NEW x \in deleted, x \in select'.files PROVE FALSE
  <2>1. CASE \E p \in Active : x = <<"partition", p>>
    BY <1>2, <1>3, <2>1 DEF StoreInv, DeletedOK
  <2>2. CASE \E c \in Chunks : x = <<"chunk", c>> /\ chunks[c].at = "active"
    BY <1>3, <2>2 DEF StoreInv, DeletedOK
  <2> QED
    BY <1>1, <1>3, <2>1, <2>2
<1>4. ASSUME NEW g \in garbage, <<g.kind, g.of>> \in select'.files PROVE FALSE
  <2>1. CASE \E p \in Active : <<g.kind, g.of>> = <<"partition", p>>
    BY <1>2, <1>4, <2>1 DEF StoreInv, GarbageOK
  <2>2. CASE \E c \in Chunks : <<g.kind, g.of>> = <<"chunk", c>> /\ chunks[c].at = "active"
    BY <1>4, <2>2 DEF StoreInv, GarbageOK
  <2> QED
    BY <1>1, <1>4, <2>1, <2>2
<1> QED
  BY <1>3, <1>4

LEMMA EventFiles ==
    ASSUME TypeOK, NEW e, ProcessEvent(e)
    PROVE  \A g \in garbage' : g \in garbage \/ g.left = NotUsedTimeout
<1>1. \A kind, x, g : g \in Later(kind, x) => g \in garbage \/ g.left = NotUsedTimeout
  BY DEF Later
<1> QED
  BY <1>1 DEF ProcessEvent, ProcessActiveChunk, ProcessInactiveChunk, ProcessPartition, ProcessJob

LEMMA FilesNext ==
    ASSUME QueryTimeout < NotUsedTimeout, StoreInv, FilesInv, [Next]_vars, TypeOK'
    PROVE  FilesInv'
<1>0. /\ select.age \in -1 .. QueryTimeout
      /\ \A g \in garbage : g.left \in Nat
      /\ NotUsedTimeout \in Nat /\ QueryTimeout \in Nat
  <2>1. \A g \in garbage : g.left \in 0 .. NotUsedTimeout
    BY Types DEF StoreInv, GarbageRow
  <2> QED
    BY <2>1, Bounds, Types DEF StoreInv, SelectRow
<1>1. ASSUME UNCHANGED <<select, deleted>>, garbage' \subseteq garbage PROVE FilesInv'
  BY <1>1 DEF FilesInv, SelectOK, FilesAreKept
<1>2. ASSUME NEW e \in events, ProcessEvent(e) PROVE FilesInv'
  <2>1. \A g \in garbage' : g \in garbage \/ g.left = NotUsedTimeout
    BY <1>2, EventFiles DEF StoreInv
  <2>2. UNCHANGED <<select, deleted>>
    BY <1>2 DEF ProcessEvent
  <2>3. ASSUME NEW g \in garbage', <<g.kind, g.of>> \in select.files
        PROVE  g.left + select.age >= NotUsedTimeout
    <3>1. CASE g \in garbage
      BY <2>3, <3>1 DEF FilesInv, SelectOK
    <3>2. CASE g.left = NotUsedTimeout
      BY <1>0, <2>3, <3>2 DEF FilesInv, SelectOK
    <3> QED
      BY <2>1, <3>1, <3>2
  <2> QED
    BY <2>2, <2>3 DEF FilesInv, SelectOK, FilesAreKept
<1>3. CASE StartSelect
  <2>1. select'.age # -1 /\ UNCHANGED <<garbage, deleted>>
    BY <1>3 DEF StartSelect
  <2> QED
    BY <1>3, <2>1, PlannedFiles DEF FilesInv, SelectOK, FilesAreKept
<1>4. CASE EndSelect
  BY <1>4 DEF EndSelect, NoSelect, FilesInv, SelectOK, FilesAreKept
<1>5. CASE Tick
  <2>1. /\ select'.files = select.files
        /\ select.age < QueryTimeout
        /\ select'.age = IF select.age = -1 THEN -1 ELSE select.age + 1
        /\ UNCHANGED deleted
    BY <1>5, Types DEF StoreInv, SelectRow, Tick
  <2>2. select'.age = -1 => select.age = -1
    BY <1>0, <2>1
  <2>3. ASSUME NEW g \in garbage', <<g.kind, g.of>> \in select.files
        PROVE  g.left + select'.age >= NotUsedTimeout
    <3>1. PICK h \in garbage : g = Older[h]
      BY <1>5 DEF Tick
    <3>2. /\ g.kind = h.kind /\ g.of = h.of
          /\ g.left = IF h.left = 0 THEN 0 ELSE h.left - 1
      BY <3>1, OlderIs DEF StoreInv
    <3>3. h.left + select.age >= NotUsedTimeout /\ select.age # -1
      BY <2>3, <3>2 DEF FilesInv, SelectOK
    <3> QED
      BY <1>0, <2>1, <3>2, <3>3
  <2> QED
    BY <2>1, <2>2, <2>3 DEF FilesInv, SelectOK, FilesAreKept
<1>6. ASSUME NEW g \in garbage, Collect(g) PROVE FilesInv'
  <2>1. /\ UNCHANGED select /\ garbage' \subseteq garbage
        /\ deleted' = deleted \cup {<<g.kind, g.of>>} /\ g.left = 0
    BY <1>6 DEF Collect
  <2>2. <<g.kind, g.of>> \notin select.files
    <3>1. <<g.kind, g.of>> \in select.files => g.left + select.age >= NotUsedTimeout
      BY DEF FilesInv, SelectOK
    <3> QED
      BY <1>0, <2>1, <3>1
  <2> QED
    BY <2>1, <2>2 DEF FilesInv, SelectOK, FilesAreKept
<1>7. ASSUME NEW i \in Imports, ActivateChunks(i) \/ PartitionData(i) PROVE FilesInv'
  BY <1>1, <1>7 DEF ActivateChunks, PartitionData
<1>8. ASSUME NEW j \in jobs, Job(j) \/ JobFails(j) PROVE FilesInv'
  BY <1>1, <1>8 DEF Job, JobFails, CompactCreate, CompactSwap, RepartitionRead, RepartitionCreate,
     RepartitionSwap, Completed
<1>9. CASE UNCHANGED vars
  BY <1>1, <1>9 DEF vars
<1> QED
  BY <1>2, <1>3, <1>4, <1>5, <1>6, <1>7, <1>8, <1>9 DEF Next, Work

\* If DataGCLoop waits for longer than a query may take, as the comment of
\* not_used_timeout asks, no file of a planned select is deleted while it runs.
THEOREM SelectFilesKept ==
    ASSUME QueryTimeout < NotUsedTimeout
    PROVE  Spec => []FilesAreKept
<1>1. Init => FilesInv
  <2>1. Init => garbage = {} /\ deleted = {} /\ select = [age |-> -1, files |-> {}]
    BY DEF Init, NoSelect
  <2> QED
    BY <2>1 DEF FilesInv, SelectOK, FilesAreKept
<1>2. StoreInv /\ StoreInv' /\ FilesInv /\ [Next]_vars => FilesInv'
  BY FilesNext DEF StoreInv
<1>3. FilesInv => FilesAreKept
  BY DEF FilesInv
<1> QED
  BY <1>1, <1>2, <1>3, StoreSafety, PTL DEF Spec
=============================================================================
