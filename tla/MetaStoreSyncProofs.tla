------------------------- MODULE MetaStoreSyncProofs -------------------------
(***************************************************************************)
(* TypeOK, NotBehindCheckPoint and SyncedIsHeld of MetaStoreSync, for every *)
(* set of rows, assignment of rows to writes, and bound.                   *)
(*                                                                         *)
(* The batches of the running database, one after the other, agree with    *)
(* what it holds (WalIs), and a check point of this process is a former    *)
(* state of it (ShotsOK): no row of one is newer than in a log that is read *)
(* later, which gives DirectoriesOK.  A log that is read holds all that was *)
(* put since last_upload_seq (LoopIs); with the check point that gives      *)
(* StampHolds: the directory logs are added to holds all that is uploaded, *)
(* without the file the next upload overwrites and may damage.             *)
(***************************************************************************)
EXTENDS MetaStoreSync, TLAPS, FiniteSetTheorems, NaturalsInduction, WellFoundedInduction

\* What is put by the writes there have been.
Puts == [Rows -> 0 .. written]
LogFiles == [from : Nat, batch : Puts, whole : BOOLEAN]
CheckPointFiles == [part : Parts, state : Puts]

Types ==
    /\ written \in 0 .. MaxWrites
    /\ wal \in Seq(Puts) /\ db \in Puts
    /\ uploaded \in 0 .. Len(wal) /\ checked \in 0 .. Len(wal)
    /\ clock \in Times /\ stamp \in 1 .. clock
    /\ due \in BOOLEAN /\ (due => clock < MaxTimes)
    /\ current \in 0 .. clock
    /\ faults \in 0 .. MaxFaults

LoopTypes ==
    /\ loop \in [at : {"idle", "read", "log", "done", "checkpoint", "snapshot", "delete"},
                 asked : Nat, from : Nat, to : Nat, batch : Puts, state : Puts]
    /\ loop.asked <= Len(wal)
    /\ loop.at = "read" => Len(wal) > 0
    /\ loop.at = "checkpoint" => due
    /\ loop.at \in {"checkpoint", "snapshot"} => uploaded > 0

\* No row of s is newer than that of state.
NotNewer(s, state) == \A r \in Rows : s[r] <= state[r]

DirectoriesOK ==
    /\ snapshots \in [Times -> SUBSET CheckPointFiles]
    /\ logs \in [Times -> SUBSET LogFiles] /\ \A t \in Times : IsFiniteSet(logs[t])
    /\ \A t \in Times : t > clock => snapshots[t] = {} /\ logs[t] = {}
    /\ \A t \in Times : \A f \in snapshots[t] :
          /\ \A g \in snapshots[t] : f.state = g.state
          /\ \A g \in logs[t] : \A r \in Rows : g.batch[r] # 0 => f.state[r] <= g.batch[r]

\* The last batch that puts a row put what the database has there.
WalIs ==
    \A r \in Rows : \A i \in DOMAIN wal :
        wal[i][r] # 0 /\ (\A k \in DOMAIN wal : k > i => wal[k][r] = 0) => db[r] = wal[i][r]

\* Batch i or a later one put v in the row.
PutSince(i, r, v) == \E j \in i .. Len(wal) : wal[j][r] # 0 /\ wal[j][r] = v

\* A state has the rows of the first n batches.
Covers(s, n) ==
    \A i \in DOMAIN wal : i <= n => \A r \in Rows : wal[i][r] # 0 => PutSince(i, r, s[r])

ShotsOK ==
    /\ loop.at = "snapshot" =>
          Covers(loop.state, uploaded) /\ NotNewer(loop.state, db) /\ logs[stamp] = {}
    /\ \A f \in snapshots[stamp] : NotNewer(f.state, db)

LoopIs ==
    loop.at = "log" =>
        /\ loop.from = FirstUpdate /\ loop.from <= loop.to
        /\ uploaded <= loop.to /\ loop.to <= Len(wal)
        /\ \A i \in loop.from .. loop.to : \A r \in Rows : wal[i][r] # 0 =>
              PutSince(i, r, loop.batch[r])
        /\ \A f \in snapshots[stamp] : \A r \in Rows :
              loop.batch[r] # 0 => f.state[r] <= loop.batch[r]

Whole(t) == {f.part : f \in snapshots[t]} = Parts

\* The check point of the directory, or a log that will not be overwritten, has v.
HeldIn(t, r, v) ==
    \/ \E f \in snapshots[t] : f.state[r] = v
    \/ \E f \in logs[t] : f.whole /\ f.from < FirstUpdate /\ f.batch[r] = v

HoldsAll(t, n) ==
    \A i \in DOMAIN wal : i <= n => \A r \in Rows : wal[i][r] # 0 =>
        \E j \in i .. Len(wal) : wal[j][r] # 0 /\ HeldIn(t, r, wal[j][r])

StampHolds ==
    /\ loop.at = "snapshot" => current < stamp
    /\ loop.at = "delete" \/ current = stamp => Whole(stamp)
    /\ Whole(stamp) => uploaded > 0 /\ HoldsAll(stamp, uploaded)

SyncInv ==
    Types /\ LoopTypes /\ DirectoriesOK /\ WalIs /\ ShotsOK /\ LoopIs /\ StampHolds

LEMMA Bounds == MaxWrites \in Nat /\ MaxTimes \in Nat \ {0} /\ MaxFaults \in Nat
BY BoundsAssumption

-----------------------------------------------------------------------------
(***************************************************************************)
(* Greatest elements, and batches that are merged                          *)
(***************************************************************************)
\* The least of some numbers.
LEMMA NatMin ==
    ASSUME NEW T \in SUBSET Nat, T # {}
    PROVE  \E m \in T : \A n \in T : m <= n
<1>1. IsWellFoundedOn(OpToRel(<, Nat), Nat)
  BY NatLessThanWellFounded
<1>2. PICK m \in T : \A n \in T : ~ (<<n, m>> \in OpToRel(<, Nat))
  BY <1>1, WFMin
<1>3. ASSUME NEW n \in T PROVE m <= n
  <2>1. n < m => <<n, m>> \in OpToRel(<, Nat)
    BY Zenon DEF OpToRel
  <2>2. ~ (n < m)
    BY <1>2, <2>1, Zenon
  <2> QED
    BY <2>2
<1> QED
  BY <1>3

\* The greatest of some numbers that are not too large.
LEMMA NatMax ==
    ASSUME NEW T \in SUBSET Nat, T # {}, NEW b \in Nat, \A t \in T : t <= b
    PROVE  \E m \in T : \A n \in T : n <= m
<1> DEFINE D == {b - t : t \in T}
<1>1. D \in SUBSET Nat /\ D # {}
  <2>1. \A t \in T : t \in Nat /\ b - t \in Nat
    OBVIOUS
  <2> QED
    BY <2>1
<1>2. PICK d \in D : \A e \in D : d <= e
  BY <1>1, NatMin
<1>3. PICK m \in T : d = b - m
  OBVIOUS
<1>4. ASSUME NEW n \in T PROVE n <= m
  <2>1. b - n \in D
    OBVIOUS
  <2>2. b - m <= b - n
    BY <1>2, <1>3, <2>1
  <2> QED
    BY <2>2
<1> QED
  BY <1>4

LEMMA MaxIs ==
    ASSUME NEW T \in SUBSET Nat, T # {}, NEW b \in Nat, \A t \in T : t <= b
    PROVE  Max(T) \in T /\ \A t \in T : t <= Max(T)
<1>1. \E m \in T : \A n \in T : m >= n
  BY NatMax
<1> QED
  BY <1>1 DEF Max

LEMMA MinIs ==
    ASSUME NEW T \in SUBSET Nat, T # {}
    PROVE  Min(T) \in T
<1>1. \E m \in T : \A n \in T : m <= n
  BY NatMin
<1> QED
  BY <1>1 DEF Min

\* What the batches put in a row is what the last of them puts there that does.
LEMMA MergeIs ==
    ASSUME NEW n \in Nat, NEW b, DOMAIN b = 1 .. n, NEW r \in Rows
    PROVE  \/ Merge(b)[r] = 0 /\ \A i \in 1 .. n : b[i][r] = 0
           \/ \E m \in 1 .. n : /\ b[m][r] # 0 /\ Merge(b)[r] = b[m][r]
                               /\ \A k \in 1 .. n : k > m => b[k][r] = 0
<1> DEFINE puts == {i \in 1 .. n : b[i][r] # 0}
<1>1. Merge(b)[r] = IF puts = {} THEN 0 ELSE b[Max(puts)][r]
  BY DEF Merge
<1>2. CASE puts = {}
  BY <1>1, <1>2
<1>3. CASE puts # {}
  <2>1. puts \in SUBSET Nat /\ \A t \in puts : t <= n
    OBVIOUS
  <2>2. Max(puts) \in puts /\ \A t \in puts : t <= Max(puts)
    BY <1>3, <2>1, MaxIs
  <2> DEFINE m == Max(puts)
  <2>3. Merge(b)[r] = b[m][r]
    BY <1>1, <1>3
  <2> HIDE DEF m
  <2>4. m \in 1 .. n /\ b[m][r] # 0 /\ \A k \in 1 .. n : k > m => b[k][r] = 0
    <3>1. m \in puts /\ \A t \in puts : t <= m
      BY <2>2 DEF m
    <3> QED
      BY <3>1
  <2> QED
    BY <2>3, <2>4
<1> QED
  BY <1>2, <1>3

LEMMA LastPut ==
    ASSUME wal \in Seq(Puts), NEW r \in Rows, NEW i \in DOMAIN wal, wal[i][r] # 0
    PROVE  \E m \in i .. Len(wal) :
              wal[m][r] # 0 /\ \A k \in DOMAIN wal : k > m => wal[k][r] = 0
<1> DEFINE n == Len(wal)
<1>1. n \in Nat /\ DOMAIN wal = 1 .. n
  OBVIOUS
<1>2. PICK m \in 1 .. n : wal[m][r] # 0 /\ \A k \in 1 .. n : k > m => wal[k][r] = 0
  <2>1. \/ Merge(wal)[r] = 0 /\ \A k \in 1 .. n : wal[k][r] = 0
        \/ \E m \in 1 .. n : /\ wal[m][r] # 0 /\ Merge(wal)[r] = wal[m][r]
                            /\ \A k \in 1 .. n : k > m => wal[k][r] = 0
    BY <1>1, MergeIs
  <2> QED
    BY <1>1, <2>1
<1>3. i <= m
  BY <1>1, <1>2
<1> QED
  BY <1>1, <1>2, <1>3

\* The database has the rows of all its batches.
LEMMA DatabaseCovers ==
    ASSUME Types, WalIs, NEW i \in DOMAIN wal, NEW r \in Rows, wal[i][r] # 0
    PROVE  PutSince(i, r, db[r])
<1>1. PICK m \in i .. Len(wal) :
        wal[m][r] # 0 /\ \A k \in DOMAIN wal : k > m => wal[k][r] = 0
  BY LastPut DEF Types
<1>2. m \in DOMAIN wal
  BY DEF Types
<1> QED
  BY <1>1, <1>2 DEF WalIs, PutSince


-----------------------------------------------------------------------------
(***************************************************************************)
(* What a start finds, and what SyncInv says of it                         *)
(***************************************************************************)
LEMMA CurrentIs == SyncInv /\ current # 0 => current \in Times
<1> SUFFICES ASSUME SyncInv, current # 0 PROVE current \in Times
  OBVIOUS
<1>1. clock \in 1 .. MaxTimes /\ current \in 0 .. clock
  BY DEF SyncInv, Types, Times
<1> QED
  BY <1>1, Bounds DEF Times

\* However the logs are listed, a start replays batches of some of them.
LEMMA ListIs ==
    ASSUME SyncInv, NEW list \in Listings
    PROVE  /\ BatchesOf(list) \in Seq(Puts)
           /\ \A i \in DOMAIN BatchesOf(list) : \E g \in CurrentLogs : BatchesOf(list)[i] = g.batch
<1> DEFINE S == CurrentLogs
           n == Cardinality(S)
<1>1. IsFiniteSet(S) /\ S \subseteq LogFiles
  <2>1. CASE current = 0
    BY <2>1, FS_EmptySet DEF CurrentLogs
  <2>2. CASE current # 0
    <3>1. current \in Times
      BY <2>2, CurrentIs
    <3> QED
      BY <2>2, <3>1 DEF SyncInv, DirectoriesOK, CurrentLogs
  <2> QED
    BY <2>1, <2>2
<1>2. n \in Nat
  BY <1>1, FS_CardinalityType
<1>3. list \in [1 .. n -> S]
  BY DEF Listings, SetToSeqs
<1> HIDE DEF n, S
<1>4. list \in Seq(S) /\ Len(list) = n /\ DOMAIN list = 1 .. n
  BY <1>2, <1>3
<1>5. \E k \in 0 .. n : DOMAIN Readable(list) = 1 .. k
  <2> DEFINE damaged == {i \in DOMAIN list : ~ list[i].whole}
  <2>1. CASE damaged = {}
    <3>1. Readable(list) = list
      BY <2>1 DEF Readable
    <3> QED
      BY <1>2, <1>4, <3>1
  <2>2. CASE damaged # {}
    <3>1. damaged \in SUBSET (1 .. n)
      BY <1>4
    <3>2. Min(damaged) \in damaged
      BY <1>2, <2>2, <3>1, MinIs
    <3>3. Readable(list) = SubSeq(list, 1, Min(damaged) - 1)
      BY <2>2 DEF Readable
    <3> DEFINE k == Min(damaged) - 1
    <3>4. k \in 0 .. n
      BY <1>2, <3>1, <3>2
    <3> HIDE DEF k
    <3>5. DOMAIN SubSeq(list, 1, k) = 1 .. k
      <4>1. SubSeq(list, 1, k) = [i \in 1 .. k |-> list[i]]
        BY <1>2, <1>4, <3>4
      <4> QED
        BY <4>1
    <3> QED
      BY <3>3, <3>4, <3>5 DEF k
  <2> QED
    BY <2>1, <2>2
<1>6. PICK k \in 0 .. n : DOMAIN BatchesOf(list) = 1 .. k
  BY <1>5 DEF BatchesOf
<1>7. \A i \in 1 .. k : list[i] \in S /\ BatchesOf(list)[i] = list[i].batch
  BY <1>2, <1>3, <1>6 DEF BatchesOf
<1>8. \A i \in 1 .. k : BatchesOf(list)[i] \in Puts
  BY <1>1, <1>7 DEF LogFiles
<1>9. BatchesOf(list) = [i \in 1 .. k |-> BatchesOf(list)[i]]
  BY <1>6 DEF BatchesOf
<1>10. BatchesOf(list) \in Seq(Puts)
  <2>1. k \in Nat
    BY <1>2
  <2> QED
    BY <1>8, <1>9, <2>1
<1> QED
  BY <1>6, <1>7, <1>10 DEF S

LEMMA LoadedIs ==
    ASSUME SyncInv
    PROVE  /\ Loaded \in Puts
           /\ Loaded = Empty \/ \E f \in CurrentFiles : Loaded = f.state
           /\ current # 0 /\ Whole(current) => \A f \in snapshots[current] : Loaded = f.state
<1>1. Empty \in Puts
  BY DEF SyncInv, Types, Empty, Puts
<1>2. CASE Found # Parts
  BY <1>1, <1>2 DEF Loaded, Found, Whole, CurrentFiles
<1>3. CASE Found = Parts
  <2>1. current # 0 /\ CurrentFiles = snapshots[current] /\ CurrentFiles # {}
    BY <1>3 DEF Found, Parts, CurrentFiles
  <2>2. current \in Times
    BY <2>1, CurrentIs
  <2>3. PICK g \in CurrentFiles : Loaded = g.state
    BY <1>3, <2>1 DEF Loaded
  <2> QED
    BY <2>1, <2>2, <2>3 DEF SyncInv, DirectoriesOK, CheckPointFiles
<1> QED
  BY <1>2, <1>3

LEMMA RestoredTypes ==
    ASSUME SyncInv, NEW list \in Listings
    PROVE  Restored(list) \in Puts
<1> DEFINE b == BatchesOf(list)
<1>1. b \in Seq(Puts)
  BY ListIs
<1>2. written \in Nat
  BY Bounds DEF SyncInv, Types
<1> HIDE DEF b
<1>3. ASSUME NEW r \in Rows PROVE Merge(b)[r] \in 0 .. written
  <2>1. Len(b) \in Nat /\ DOMAIN b = 1 .. Len(b)
    BY <1>1
  <2>2. \A i \in 1 .. Len(b) : b[i][r] \in 0 .. written
    BY <1>1 DEF Puts
  <2>3. Merge(b)[r] = 0 \/ \E m \in 1 .. Len(b) : Merge(b)[r] = b[m][r]
    <3>1. \/ Merge(b)[r] = 0 /\ \A k \in 1 .. Len(b) : b[k][r] = 0
          \/ \E m \in 1 .. Len(b) : /\ b[m][r] # 0 /\ Merge(b)[r] = b[m][r]
                                    /\ \A k \in 1 .. Len(b) : k > m => b[k][r] = 0
      BY <2>1, MergeIs
    <3> QED
      BY <3>1
  <2> QED
    BY <1>2, <2>2, <2>3
<1>4. Restored(list) = [r \in Rows |-> IF Merge(b)[r] = 0 THEN Loaded[r] ELSE Merge(b)[r]]
  BY DEF Restored, Apply, b
<1>5. Loaded \in Puts
  BY LoadedIs
<1> QED
  BY <1>3, <1>4, <1>5 DEF Puts

LEMMA NotBehind == SyncInv => NotBehindCheckPoint
<1> SUFFICES ASSUME SyncInv, NEW list \in Listings, NEW r \in Rows
             PROVE  Restored(list)[r] >= Loaded[r]
  BY DEF NotBehindCheckPoint
<1> DEFINE b == BatchesOf(list)
<1>1. b \in Seq(Puts) /\ \A i \in DOMAIN b : \E g \in CurrentLogs : b[i] = g.batch
  BY ListIs
<1> HIDE DEF b
<1>2. Restored(list)[r] = IF Merge(b)[r] = 0 THEN Loaded[r] ELSE Merge(b)[r]
  BY DEF Restored, Apply, b
<1>3. Loaded[r] \in Nat
  BY LoadedIs, Bounds DEF Puts, SyncInv, Types
<1>4. CASE Merge(b)[r] = 0
  BY <1>2, <1>3, <1>4
<1>5. CASE Merge(b)[r] # 0
  <2>1. Len(b) \in Nat /\ DOMAIN b = 1 .. Len(b)
    BY <1>1
  <2>2. PICK m \in 1 .. Len(b) : Merge(b)[r] = b[m][r]
    <3>1. \/ Merge(b)[r] = 0 /\ \A k \in 1 .. Len(b) : b[k][r] = 0
          \/ \E m \in 1 .. Len(b) : /\ b[m][r] # 0 /\ Merge(b)[r] = b[m][r]
                                    /\ \A k \in 1 .. Len(b) : k > m => b[k][r] = 0
      BY <2>1, MergeIs
    <3> QED
      BY <1>5, <3>1
  <2>3. PICK g \in CurrentLogs : b[m] = g.batch
    BY <1>1, <2>1
  <2>4. current \in Times /\ g \in logs[current] /\ g.batch[r] # 0
    BY <1>5, <2>2, <2>3, CurrentIs DEF CurrentLogs
  <2>5. CASE Loaded = Empty
    <3>1. Loaded[r] = 0
      BY <2>5 DEF Empty
    <3>2. g.batch[r] \in Nat
      BY <2>4, Bounds DEF SyncInv, Types, DirectoriesOK, LogFiles, Puts
    <3> QED
      BY <1>2, <1>5, <2>2, <2>3, <3>1, <3>2
  <2>6. ASSUME NEW f \in CurrentFiles, Loaded = f.state
        PROVE  Loaded[r] <= g.batch[r]
    <3>1. f \in snapshots[current]
      BY <2>6 DEF CurrentFiles
    <3> QED
      BY <2>4, <2>6, <3>1 DEF SyncInv, DirectoriesOK
  <2>7. g.batch[r] \in Nat
    BY <2>4, Bounds DEF SyncInv, Types, DirectoriesOK, LogFiles, Puts
  <2> QED
    BY <1>2, <1>3, <1>5, <2>2, <2>3, <2>5, <2>6, <2>7, LoadedIs
<1> QED
  BY <1>4, <1>5

LEMMA SyncIsHeld == SyncInv => SyncedIsHeld
<1> SUFFICES ASSUME SyncInv, current = stamp,
                    NEW i \in DOMAIN wal, i <= uploaded, NEW r \in Rows, wal[i][r] # 0
             PROVE  \E j \in i .. Len(wal) : wal[j][r] # 0 /\ Holds(r, wal[j][r])
  BY DEF SyncedIsHeld, Safe
<1>1. current # 0 /\ Whole(current)
  BY DEF SyncInv, Types, StampHolds
<1>2. PICK j \in i .. Len(wal) : wal[j][r] # 0 /\ HeldIn(current, r, wal[j][r])
  BY <1>1 DEF SyncInv, StampHolds, HoldsAll
<1>3. CASE \E f \in snapshots[current] : f.state[r] = wal[j][r]
  BY <1>1, <1>2, <1>3, LoadedIs DEF Holds
<1>4. CASE \E f \in logs[current] : f.whole /\ f.from < FirstUpdate /\ f.batch[r] = wal[j][r]
  BY <1>1, <1>2, <1>4 DEF Holds, CurrentLogs
<1> QED
  BY <1>2, <1>3, <1>4 DEF HeldIn

LEMMA TypesHold == SyncInv => TypeOK
<1> SUFFICES ASSUME SyncInv PROVE TypeOK
  OBVIOUS
<1>1. Puts \subseteq Batches /\ Puts \subseteq States
  BY Bounds DEF SyncInv, Types, Puts, Batches, States
<1>2. wal \in Seq(Batches)
  BY <1>1 DEF SyncInv, Types
<1>3. stamp \in Times
  BY Bounds DEF SyncInv, Types, Times
<1>4. snapshots \in [Times -> SUBSET [part : Parts, state : States]]
  <2>1. CheckPointFiles \subseteq [part : Parts, state : States]
    BY <1>1 DEF CheckPointFiles
  <2> QED
    BY <2>1 DEF SyncInv, DirectoriesOK
<1>5. \A t \in Times : \A f \in logs[t] : f.batch \in Batches
  BY <1>1 DEF SyncInv, DirectoriesOK, LogFiles
<1> QED
  BY <1>1, <1>2, <1>3, <1>4, <1>5 DEF SyncInv, Types, LoopTypes, TypeOK

LEMMA InitHolds == Init => SyncInv
<1> SUFFICES ASSUME Init PROVE SyncInv
  OBVIOUS
<1>1. Empty \in Puts /\ Puts = [Rows -> 0 .. 0]
  BY DEF Init, Empty, Puts
<1>2. Types
  <2>1. <<>> \in Seq(Puts) /\ Len(<<>>) = 0
    OBVIOUS
  <2>2. wal \in Seq(Puts) /\ db \in Puts /\ Len(wal) = 0
    BY <1>1, <2>1 DEF Init
  <2>3. written = 0 /\ uploaded = 0 /\ checked = 0 /\ clock = 1 /\ stamp = 1 /\ due = FALSE
        /\ current = 0 /\ faults = 0
    BY DEF Init
  <2>4. 0 \in 0 .. MaxWrites /\ 1 \in Times /\ 0 \in 0 .. MaxFaults
    BY Bounds DEF Times
  <2>5. written \in 0 .. MaxWrites /\ clock \in Times /\ faults \in 0 .. MaxFaults
    BY <2>3, <2>4, Zenon
  <2>6. stamp \in 1 .. clock /\ current \in 0 .. clock
        /\ uploaded \in 0 .. Len(wal) /\ checked \in 0 .. Len(wal)
    BY <2>2, <2>3
  <2>7. due \in BOOLEAN /\ (due => clock < MaxTimes)
    BY <2>3
  <2> QED
    BY <2>2, <2>5, <2>6, <2>7, Zenon DEF Types
<1>3. LoopTypes
  BY <1>1 DEF Init, LoopTypes, Resting
<1>4. DirectoriesOK
  BY FS_EmptySet DEF Init, DirectoriesOK, Times
<1>5. snapshots[1] = {} /\ stamp = 1
  BY Bounds DEF Init, Times
<1>6. WalIs /\ ShotsOK /\ LoopIs
  BY <1>5 DEF Init, WalIs, ShotsOK, LoopIs, Resting
<1>7. StampHolds
  BY <1>5 DEF Init, StampHolds, Whole, Parts, Resting
<1> QED
  BY <1>2, <1>3, <1>4, <1>6, <1>7 DEF SyncInv

-----------------------------------------------------------------------------
(***************************************************************************)
(* Every step keeps SyncInv                                                *)
(***************************************************************************)
\* What a step has to show of the log or check point it writes.
Ground ==
    /\ DirectoriesOK /\ WalIs
    /\ \A f \in snapshots[stamp] : NotNewer(f.state, db)
    /\ Whole(stamp) => uploaded > 0 /\ HoldsAll(stamp, uploaded)

\* A step of the loop that reads, or that writes nothing.
LEMMA GroundSame ==
    ASSUME SyncInv, UNCHANGED <<store, uploaded, stamp, clock, snapshots, logs>>
    PROVE  Ground' /\ Puts' = Puts
<1>1. Puts' = Puts /\ LogFiles' = LogFiles /\ CheckPointFiles' = CheckPointFiles
  BY DEF store, Puts, LogFiles, CheckPointFiles
<1>2. DirectoriesOK'
  BY <1>1 DEF SyncInv, DirectoriesOK
<1>3. WalIs'
  BY DEF SyncInv, WalIs, store
<1>4. (\A f \in snapshots[stamp] : NotNewer(f.state, db))'
  BY DEF SyncInv, ShotsOK, NotNewer, store
<1>5. (Whole(stamp) => uploaded > 0 /\ HoldsAll(stamp, uploaded))'
  BY DEF SyncInv, StampHolds, Whole, HoldsAll, HeldIn, FirstUpdate, store
<1> QED
  BY <1>1, <1>2, <1>3, <1>4, <1>5 DEF Ground

\* SyncInv from the parts of it.
LEMMA FromGround ==
    ASSUME Types', LoopTypes', Ground', LoopIs',
           (loop.at = "snapshot" =>
              /\ Covers(loop.state, uploaded) /\ NotNewer(loop.state, db) /\ logs[stamp] = {}
              /\ current < stamp)',
           (loop.at = "delete" \/ current = stamp => Whole(stamp))'
    PROVE  SyncInv'
BY DEF SyncInv, Ground, ShotsOK, StampHolds

LEMMA TickHolds == SyncInv /\ Tick => SyncInv'
<1> SUFFICES ASSUME SyncInv, Tick PROVE SyncInv'
  OBVIOUS
<1>1. Ground' /\ Puts' = Puts
  BY GroundSame DEF Tick, store, remote
<1>2. Types'
  BY <1>1 DEF SyncInv, Types, Tick, store, remote
<1>3. LoopTypes'
  BY <1>1 DEF SyncInv, LoopTypes, Tick, store, remote
<1>4. LoopIs'
  BY DEF SyncInv, LoopIs, PutSince, FirstUpdate, Tick, store, remote
<1>5. ShotsOK' /\ StampHolds'
  BY DEF SyncInv, ShotsOK, StampHolds, Covers, PutSince, NotNewer, Whole, HoldsAll, HeldIn,
         FirstUpdate, Tick, store, remote
<1> QED
  BY <1>1, <1>2, <1>3, <1>4, <1>5 DEF SyncInv, Ground

\* The loop at the beginning of a round, or before it.
RestingAt(a, n) ==
    [at |-> a, asked |-> n, from |-> 0, to |-> 0, batch |-> Empty, state |-> Empty]

LEMMA LoopRests ==
    ASSUME SyncInv, UNCHANGED <<store, uploaded, stamp, due, clock, remote>>,
           checked' \in 0 .. Len(wal), faults' \in 0 .. MaxFaults,
           NEW a \in {"idle", "read"}, NEW n \in 0 .. Len(wal), a = "read" => Len(wal) > 0,
           loop' = RestingAt(a, n)
    PROVE  SyncInv'
<1>1. Ground' /\ Puts' = Puts
  BY GroundSame DEF remote
<1>2. Types'
  BY <1>1 DEF SyncInv, Types, store, remote
<1>3. Empty \in Puts
  BY DEF SyncInv, Types, Empty, Puts
<1>4. loop'.at = a /\ loop'.asked = n
  BY DEF RestingAt
<1>5. LoopTypes'
  <2>1. Len(wal) \in Nat /\ n \in Nat /\ n <= Len(wal) /\ wal' = wal
    BY DEF SyncInv, Types, store
  <2>2. loop' \in [at : {"idle", "read", "log", "done", "checkpoint", "snapshot", "delete"},
                   asked : Nat, from : Nat, to : Nat, batch : Puts, state : Puts]
    BY <1>3, <2>1 DEF RestingAt
  <2> QED
    BY <1>1, <1>4, <2>1, <2>2 DEF LoopTypes
<1>6. LoopIs'
  BY <1>4 DEF LoopIs
<1>7. (current = stamp => Whole(stamp))'
  BY DEF SyncInv, StampHolds, Whole, remote
<1> QED
  BY <1>1, <1>2, <1>4, <1>5, <1>6, <1>7, FromGround

LEMMA BeginUploadHolds == SyncInv /\ BeginUpload => SyncInv'
<1> SUFFICES ASSUME SyncInv, BeginUpload PROVE SyncInv'
  OBVIOUS
<1>1. Len(wal) \in Nat /\ checked \in 0 .. Len(wal) /\ Len(wal) > 0
  BY DEF SyncInv, Types, BeginUpload
<1>2. loop' = RestingAt("read", Len(wal))
  BY DEF BeginUpload, Resting, RestingAt
<1>3. checked' = checked /\ faults' = faults /\ faults \in 0 .. MaxFaults
  BY DEF SyncInv, Types, BeginUpload
<1> QED
  BY <1>1, <1>2, <1>3, LoopRests DEF BeginUpload

LEMMA FinishHolds == SyncInv /\ Finish => SyncInv'
<1> SUFFICES ASSUME SyncInv, Finish PROVE SyncInv'
  OBVIOUS
<1>1. Len(wal) \in Nat /\ loop.asked \in 0 .. Len(wal)
  BY DEF SyncInv, Types, LoopTypes
<1>2. loop' = RestingAt("idle", 0)
  BY DEF Finish, Resting, RestingAt
<1>3. checked' = loop.asked /\ faults' = faults /\ faults \in 0 .. MaxFaults
  BY DEF SyncInv, Types, Finish
<1> QED
  BY <1>1, <1>2, <1>3, LoopRests DEF Finish

\* The batches since last_upload_seq, read as one, hold what each of them put.
LEMMA GetUpdatesHolds == SyncInv /\ GetUpdates => SyncInv'
<1> SUFFICES ASSUME SyncInv, GetUpdates PROVE SyncInv'
  OBVIOUS
<1> DEFINE n == Len(wal)
           first == FirstUpdate
           b == Merge(SubSeq(wal, first, n))
<1>1. Ground' /\ Puts' = Puts
  BY GroundSame DEF GetUpdates, store, remote
<1>2. Types'
  BY <1>1 DEF SyncInv, Types, GetUpdates, store, remote
<1>3. n \in Nat /\ DOMAIN wal = 1 .. n /\ first \in 1 .. n /\ uploaded \in 0 .. n
  BY DEF SyncInv, Types, LoopTypes, GetUpdates, FirstUpdate
<1>4. loop' = [loop EXCEPT !.at = "log", !.from = first, !.to = n, !.batch = b]
  BY DEF GetUpdates
<1>5. loop \in [at : {"idle", "read", "log", "done", "checkpoint", "snapshot", "delete"},
                asked : Nat, from : Nat, to : Nat, batch : Puts, state : Puts]
  BY DEF SyncInv, LoopTypes
<1>6. loop'.at = "log" /\ loop'.asked = loop.asked /\ loop'.from = first /\ loop'.to = n
      /\ loop'.batch = b
  BY <1>4, <1>5
<1>7. ASSUME NEW r \in Rows
      PROVE  \/ b[r] = 0 /\ \A i \in first .. n : wal[i][r] = 0
             \/ \E j \in first .. n : /\ wal[j][r] # 0 /\ b[r] = wal[j][r]
                                     /\ \A k \in DOMAIN wal : k > j => wal[k][r] = 0
  <2> DEFINE s == SubSeq(wal, first, n)
             k == n - first + 1
  <2>1. k \in Nat /\ s = [i \in 1 .. k |-> wal[first + i - 1]]
    BY <1>3
  <2>2. DOMAIN s = 1 .. k /\ \A i \in 1 .. k : s[i] = wal[first + i - 1]
    BY <2>1
  <2>3. b[r] = Merge(s)[r] /\ k \in Nat /\ DOMAIN s = 1 .. k
    BY <2>1, <2>2
  <2> HIDE DEF s, k, b, first
  <2>4. \/ Merge(s)[r] = 0 /\ \A i \in 1 .. k : s[i][r] = 0
        \/ \E m \in 1 .. k : /\ s[m][r] # 0 /\ Merge(s)[r] = s[m][r]
                             /\ \A l \in 1 .. k : l > m => s[l][r] = 0
    BY <2>3, MergeIs
  <2>5. \A i \in first .. n : i - first + 1 \in 1 .. k /\ wal[i] = s[i - first + 1]
    BY <1>3, <2>2 DEF k
  <2>6. CASE Merge(s)[r] = 0 /\ \A i \in 1 .. k : s[i][r] = 0
    BY <2>3, <2>5, <2>6
  <2>7. ASSUME NEW m \in 1 .. k, s[m][r] # 0, Merge(s)[r] = s[m][r],
               \A l \in 1 .. k : l > m => s[l][r] = 0
        PROVE  \E j \in first .. n : /\ wal[j][r] # 0 /\ b[r] = wal[j][r]
                                    /\ \A l \in DOMAIN wal : l > j => wal[l][r] = 0
    <3> DEFINE j == first + m - 1
    <3>1. j \in first .. n /\ s[m] = wal[j]
      BY <1>3, <2>2 DEF k
    <3>2. ASSUME NEW l \in DOMAIN wal, l > j PROVE wal[l][r] = 0
      <4>1. l \in first .. n /\ l - first + 1 > m
        BY <1>3, <3>2
      <4> QED
        BY <2>5, <2>7, <4>1
    <3> HIDE DEF j
    <3> QED
      BY <2>3, <2>7, <3>1, <3>2
  <2> QED
    BY <2>4, <2>6, <2>7
<1> HIDE DEF b, first
<1>8. b \in Puts
  <2>1. \A r \in Rows : b[r] \in 0 .. written
    <3> SUFFICES ASSUME NEW r \in Rows PROVE b[r] \in 0 .. written
      OBVIOUS
    <3>1. \A i \in 1 .. n : wal[i][r] \in 0 .. written
      BY <1>3 DEF SyncInv, Types, Puts
    <3>2. written \in Nat
      BY Bounds DEF SyncInv, Types
    <3> QED
      BY <1>3, <1>7, <3>1, <3>2
  <2>2. b = [r \in Rows |-> b[r]]
    BY DEF b, Merge
  <2> QED
    BY <2>1, <2>2 DEF Puts
<1>9. LoopTypes'
  <2>1. loop' \in [at : {"idle", "read", "log", "done", "checkpoint", "snapshot", "delete"},
                   asked : Nat, from : Nat, to : Nat, batch : Puts, state : Puts]
    <3>1. first \in Nat
      BY <1>3
    <3> QED
      BY <1>1, <1>3, <1>4, <1>5, <1>8, <3>1
  <2> QED
    BY <1>1, <1>6, <2>1 DEF SyncInv, LoopTypes, GetUpdates, store
<1>10. LoopIs'
  <2>1. FirstUpdate' = first /\ wal' = wal /\ uploaded' = uploaded
    BY DEF GetUpdates, store, FirstUpdate, first
  <2>2. ASSUME NEW i \in first .. n, NEW r \in Rows, wal[i][r] # 0
        PROVE  PutSince(i, r, b[r])
    <3>1. PICK j \in first .. n : /\ wal[j][r] # 0 /\ b[r] = wal[j][r]
                                  /\ \A k \in DOMAIN wal : k > j => wal[k][r] = 0
      BY <1>7, <2>2
    <3>2. j \in i .. n
      BY <1>3, <2>2, <3>1
    <3> QED
      BY <3>1, <3>2 DEF PutSince
  <2>3. ASSUME NEW f \in snapshots[stamp], NEW r \in Rows, b[r] # 0
        PROVE  f.state[r] <= b[r]
    <3>1. PICK j \in first .. n : /\ wal[j][r] # 0 /\ b[r] = wal[j][r]
                                  /\ \A k \in DOMAIN wal : k > j => wal[k][r] = 0
      BY <1>7, <2>3
    <3>2. db[r] = b[r]
      BY <1>3, <3>1 DEF SyncInv, WalIs
    <3> QED
      BY <3>2 DEF SyncInv, ShotsOK, NotNewer
  <2>4. snapshots' = snapshots /\ stamp' = stamp
    BY DEF GetUpdates, remote
  <2>5. \A i \in first .. n : \A r \in Rows : wal'[i][r] # 0 =>
            \E j \in i .. Len(wal') : wal'[j][r] # 0 /\ wal'[j][r] = b[r]
    BY <2>1, <2>2 DEF PutSince
  <2>6. first <= n /\ uploaded <= n /\ n <= Len(wal)
    BY <1>3
  <2>7. \A f \in snapshots'[stamp'] : \A r \in Rows : b[r] # 0 => f.state[r] <= b[r]
    BY <2>3, <2>4
  <2> HIDE DEF n
  <2> QED
    BY <1>6, <2>1, <2>5, <2>6, <2>7 DEF LoopIs, PutSince
<1>11. (current = stamp => Whole(stamp))'
  BY DEF SyncInv, StampHolds, Whole, GetUpdates, remote
<1> QED
  BY <1>1, <1>2, <1>6, <1>9, <1>10, <1>11, FromGround


\* The loop goes on with nothing but the number it was asked with.
LEMMA GoesTypes ==
    ASSUME SyncInv, UNCHANGED store, NEW a,
           a \in {"idle", "done", "checkpoint", "delete"},
           a = "checkpoint" => due' /\ uploaded' > 0,
           NEW n \in 0 .. Len(wal), loop' = RestingAt(a, n)
    PROVE  LoopTypes' /\ loop'.at = a
<1>1. Len(wal) \in Nat /\ n \in Nat /\ n <= Len(wal) /\ wal' = wal
  BY DEF SyncInv, Types, store
<1>2. Empty \in Puts /\ Puts' = Puts
  BY DEF SyncInv, Types, Empty, Puts, store
<1>3. loop'.at = a /\ loop'.asked = n
  BY DEF RestingAt
<1>4. loop' \in [at : {"idle", "read", "log", "done", "checkpoint", "snapshot", "delete"},
                 asked : Nat, from : Nat, to : Nat, batch : Puts, state : Puts]
  BY <1>1, <1>2 DEF RestingAt
<1> QED
  BY <1>1, <1>2, <1>3, <1>4 DEF LoopTypes

LEMMA AskedIs == SyncInv => loop.asked \in 0 .. Len(wal)
BY DEF SyncInv, Types, LoopTypes

\* Whether the log is damaged or not: the directory stays in order, and its other
\* logs stay.
LEMMA LogAdded ==
    ASSUME SyncInv, loop.at = "log", NEW w \in BOOLEAN, logs' = WithLog(w),
           UNCHANGED <<store, stamp, clock, snapshots>>
    PROVE  /\ DirectoriesOK' /\ WalIs' /\ (\A f \in snapshots[stamp] : NotNewer(f.state, db))'
           /\ [from |-> loop.from, batch |-> loop.batch, whole |-> w] \in logs'[stamp]
           /\ \A f \in logs[stamp] : f.from < FirstUpdate => f \in logs'[stamp]
<1> DEFINE g == [from |-> loop.from, batch |-> loop.batch, whole |-> w]
           kept == {f \in logs[stamp] : f.from # loop.from}
<1>1. stamp \in Times
  <2>1. clock \in 1 .. MaxTimes /\ stamp \in 1 .. clock
    BY DEF SyncInv, Types, Times
  <2> QED
    BY <2>1, Bounds DEF Times
<1>2. logs \in [Times -> SUBSET LogFiles] /\ IsFiniteSet(logs[stamp])
  BY <1>1 DEF SyncInv, DirectoriesOK
<1>3. logs' = [logs EXCEPT ![stamp] = kept \cup {g}]
  BY DEF WithLog
<1>4. logs'[stamp] = kept \cup {g} /\ \A t \in Times : t # stamp => logs'[t] = logs[t]
  BY <1>1, <1>2, <1>3
<1>5. g \in LogFiles /\ g.batch = loop.batch
  BY DEF SyncInv, LoopTypes, LogFiles
<1>6. IsFiniteSet(kept \cup {g})
  <2>1. IsFiniteSet(kept)
    BY <1>2, FS_Subset
  <2> QED
    BY <2>1, FS_AddElement
<1> HIDE DEF g
<1>7. Puts' = Puts /\ LogFiles' = LogFiles /\ CheckPointFiles' = CheckPointFiles
  BY DEF store, Puts, LogFiles, CheckPointFiles
<1>8. DirectoriesOK'
  <2>1. logs' \in [Times -> SUBSET LogFiles]
    BY <1>2, <1>3, <1>5
  <2>2. \A t \in Times : IsFiniteSet(logs'[t])
    BY <1>4, <1>6 DEF SyncInv, DirectoriesOK
  <2>3. \A t \in Times : t > clock => snapshots[t] = {} /\ logs'[t] = {}
    <3>1. stamp <= clock
      BY DEF SyncInv, Types, Times
    <3>2. stamp \in Nat /\ clock \in Nat
      BY Bounds DEF SyncInv, Types, Times
    <3>3. \A t \in Times : t > clock => t # stamp
      BY <3>1, <3>2, Bounds DEF Times
    <3> QED
      BY <1>4, <3>3 DEF SyncInv, DirectoriesOK
  <2>4. ASSUME NEW t \in Times, NEW f \in snapshots[t], NEW h \in logs'[t],
               NEW r \in Rows, h.batch[r] # 0
        PROVE  f.state[r] <= h.batch[r]
    <3>1. CASE h \in logs[t]
      BY <2>4, <3>1 DEF SyncInv, DirectoriesOK
    <3>2. CASE h \notin logs[t]
      <4>1. t = stamp /\ h = g
        BY <1>4, <2>4, <3>2
      <4> QED
        BY <1>5, <2>4, <4>1 DEF SyncInv, LoopIs
    <3> QED
      BY <3>1, <3>2
  <2> QED
    BY <1>7, <2>1, <2>2, <2>3, <2>4 DEF SyncInv, DirectoriesOK
<1>9. WalIs' /\ (\A f \in snapshots[stamp] : NotNewer(f.state, db))'
  BY DEF SyncInv, WalIs, ShotsOK, NotNewer, store
<1>10. ASSUME NEW f \in logs[stamp], f.from < FirstUpdate PROVE f \in logs'[stamp]
  <2>1. f.from \in Nat
    BY <1>1, <1>2 DEF LogFiles
  <2>2. loop.from = FirstUpdate /\ loop.from \in Nat
    BY DEF SyncInv, LoopIs, LoopTypes
  <2>3. f.from # loop.from
    BY <1>10, <2>1, <2>2
  <2> QED
    BY <1>4, <2>3
<1> QED
  BY <1>4, <1>8, <1>9, <1>10 DEF g

LEMMA UploadLogHolds == SyncInv /\ UploadLog => SyncInv'
<1> SUFFICES ASSUME SyncInv, UploadLog PROVE SyncInv'
  OBVIOUS
<1> DEFINE a == IF due THEN "checkpoint" ELSE "done"
           g == [from |-> loop.from, batch |-> loop.batch, whole |-> TRUE]
<1>1. loop.at = "log" /\ logs' = WithLog(TRUE) /\ uploaded' = loop.to
      /\ UNCHANGED <<store, checked, stamp, due, clock, snapshots, current, faults>>
  BY DEF UploadLog, Goes
<1>2. /\ loop.from = FirstUpdate /\ loop.from <= loop.to
      /\ uploaded <= loop.to /\ loop.to <= Len(wal) /\ loop.to \in Nat /\ loop.to > 0
      /\ uploaded \in Nat
  BY <1>1 DEF SyncInv, Types, LoopTypes, LoopIs, FirstUpdate
<1>3. loop' = RestingAt(a, loop.asked)
  BY DEF UploadLog, Goes, Resting, RestingAt
<1>4. a \in {"done", "checkpoint"} /\ (a = "checkpoint" => due)
  OBVIOUS
<1> HIDE DEF a
<1>5. LoopTypes' /\ loop'.at = a
  <2>1. a = "checkpoint" => due' /\ uploaded' > 0
    BY <1>1, <1>2, <1>4
  <2> QED
    BY <1>1, <1>3, <1>4, <2>1, AskedIs, GoesTypes
<1>6. Types'
  <2>1. uploaded' \in 0 .. Len(wal)
    BY <1>1, <1>2 DEF SyncInv, Types
  <2>2. Puts' = Puts
    BY <1>1 DEF Puts, store
  <2> QED
    BY <1>1, <2>1, <2>2 DEF SyncInv, Types, store
<1>7. /\ DirectoriesOK' /\ WalIs' /\ (\A f \in snapshots[stamp] : NotNewer(f.state, db))'
      /\ g \in logs'[stamp]
      /\ \A f \in logs[stamp] : f.from < FirstUpdate => f \in logs'[stamp]
  BY <1>1, LogAdded
<1>8. ASSUME Whole(stamp)'
      PROVE  uploaded' > 0 /\ HoldsAll(stamp, uploaded)'
  <2>1. uploaded > 0 /\ HoldsAll(stamp, uploaded) /\ FirstUpdate = uploaded
    BY <1>1, <1>2, <1>8 DEF Whole, SyncInv, StampHolds, FirstUpdate
  <2>2. FirstUpdate' = loop.to
    BY <1>1, <1>2 DEF FirstUpdate
  <2>3. g.from = uploaded /\ g.whole /\ g.batch = loop.batch
    BY <1>2, <2>1
  <2> HIDE DEF g
  <2>4. ASSUME NEW i \in DOMAIN wal, i <= loop.to, NEW r \in Rows, wal[i][r] # 0
        PROVE  \E j \in i .. Len(wal) : wal[j][r] # 0
                  /\ \/ \E f \in snapshots[stamp] : f.state[r] = wal[j][r]
                     \/ \E f \in logs'[stamp] :
                           f.whole /\ f.from < loop.to /\ f.batch[r] = wal[j][r]
    <3>1. CASE i <= uploaded
      <4>1. PICK j \in i .. Len(wal) : wal[j][r] # 0 /\ HeldIn(stamp, r, wal[j][r])
        BY <2>1, <2>4, <3>1 DEF HoldsAll
      <4>2. ASSUME NEW f \in logs[stamp], f.from < FirstUpdate
            PROVE  f \in logs'[stamp] /\ f.from < loop.to
        <5>1. stamp \in Times
          <6>1. clock \in 1 .. MaxTimes /\ stamp \in 1 .. clock
            BY DEF SyncInv, Types, Times
          <6> QED
            BY <6>1, Bounds DEF Times
        <5>2. f.from \in Nat
          BY <5>1 DEF SyncInv, DirectoriesOK, LogFiles
        <5> QED
          BY <1>2, <1>7, <2>1, <4>2, <5>2
      <4> QED
        BY <4>1, <4>2 DEF HeldIn
    <3>2. CASE i > uploaded
      <4>1. i \in loop.from .. loop.to /\ uploaded < loop.to
        BY <1>2, <2>1, <2>4, <3>2 DEF SyncInv, Types
      <4>2. PutSince(i, r, loop.batch[r])
        BY <1>1, <2>4, <4>1 DEF SyncInv, LoopIs
      <4> QED
        BY <1>7, <2>3, <4>1, <4>2 DEF PutSince
    <3> QED
      BY <1>2, <3>1, <3>2 DEF SyncInv, Types
  <2>5. wal' = wal /\ snapshots' = snapshots /\ stamp' = stamp
    BY <1>1 DEF store
  <2> DEFINE Kept(r, v) ==
                \/ \E f \in snapshots[stamp] : f.state[r] = v
                \/ \E f \in logs'[stamp] : f.whole /\ f.from < loop.to /\ f.batch[r] = v
  <2>6. \A r, v : Kept(r, v) => HeldIn(stamp, r, v)'
    BY <2>2, <2>5 DEF HeldIn
  <2>7. \A i \in DOMAIN wal : i <= loop.to => \A r \in Rows : wal[i][r] # 0 =>
            \E j \in i .. Len(wal) : wal[j][r] # 0 /\ Kept(r, wal[j][r])
    BY <2>4
  <2> HIDE DEF Kept
  <2>8. HoldsAll(stamp, uploaded)'
    BY <1>1, <2>5, <2>6, <2>7, Zenon DEF HoldsAll
  <2> QED
    BY <1>1, <1>2, <2>8
<1>9. Ground'
  BY <1>7, <1>8 DEF Ground
<1>10. LoopIs'
  BY <1>4, <1>5 DEF LoopIs
<1>11. (current = stamp => Whole(stamp))'
  BY <1>1 DEF SyncInv, StampHolds, Whole
<1> QED
  BY <1>4, <1>5, <1>6, <1>9, <1>10, <1>11, FromGround


LEMMA StampIs ==
    SyncInv => /\ stamp \in Times /\ clock \in Times /\ stamp <= clock /\ current <= clock
               /\ stamp \in Nat /\ clock \in Nat /\ current \in Nat
<1> SUFFICES ASSUME SyncInv
             PROVE  /\ stamp \in Times /\ clock \in Times /\ stamp <= clock /\ current <= clock
                    /\ stamp \in Nat /\ clock \in Nat /\ current \in Nat
  OBVIOUS
<1>1. clock \in 1 .. MaxTimes /\ stamp \in 1 .. clock /\ current \in 0 .. clock
  BY DEF SyncInv, Types, Times
<1> QED
  BY <1>1, Bounds DEF Times

\* All or some of the files of a check point: they are the first in their directory,
\* and hold what was uploaded.
LEMMA SnapshotAdded ==
    ASSUME SyncInv, loop.at = "snapshot", NEW S \in SUBSET SnapshotFiles,
           snapshots' = [snapshots EXCEPT ![stamp] = S],
           UNCHANGED <<store, uploaded, stamp, clock, logs>>
    PROVE  Ground' /\ (S = SnapshotFiles => Whole(stamp)')
<1>1. Covers(loop.state, uploaded) /\ NotNewer(loop.state, db) /\ logs[stamp] = {}
      /\ uploaded > 0
  BY DEF SyncInv, ShotsOK, LoopTypes
<1>2. stamp \in Times /\ stamp <= clock /\ snapshots \in [Times -> SUBSET CheckPointFiles]
      /\ stamp \in Nat /\ clock \in Nat
  BY StampIs DEF SyncInv, DirectoriesOK
<1>3. snapshots'[stamp] = S /\ \A t \in Times : t # stamp => snapshots'[t] = snapshots[t]
  BY <1>2
<1>4. \A f \in S : f \in CheckPointFiles /\ f.state = loop.state
  BY DEF SnapshotFiles, SyncInv, LoopTypes, CheckPointFiles
<1>5. Puts' = Puts /\ LogFiles' = LogFiles /\ CheckPointFiles' = CheckPointFiles
  BY DEF store, Puts, LogFiles, CheckPointFiles
<1>6. DirectoriesOK'
  <2>1. snapshots' \in [Times -> SUBSET CheckPointFiles]
    BY <1>2, <1>4
  <2>2. \A t \in Times : t > clock => snapshots'[t] = {} /\ logs[t] = {}
    <3>1. \A t \in Times : t > clock => t # stamp
      BY <1>2, Bounds DEF Times
    <3> QED
      BY <1>3, <3>1 DEF SyncInv, DirectoriesOK
  <2>3. \A t \in Times : \A f \in snapshots'[t] :
          /\ \A g \in snapshots'[t] : f.state = g.state
          /\ \A g \in logs[t] : \A r \in Rows : g.batch[r] # 0 => f.state[r] <= g.batch[r]
    BY <1>1, <1>3, <1>4 DEF SyncInv, DirectoriesOK
  <2> QED
    BY <1>5, <2>1, <2>2, <2>3 DEF SyncInv, DirectoriesOK
<1>7. WalIs'
  BY DEF SyncInv, WalIs, store
<1>8. (\A f \in snapshots[stamp] : NotNewer(f.state, db))'
  BY <1>1, <1>3, <1>4 DEF NotNewer, store
<1>9. Whole(stamp)' => uploaded' > 0 /\ HoldsAll(stamp, uploaded)'
  <2> SUFFICES ASSUME Whole(stamp)' PROVE uploaded' > 0 /\ HoldsAll(stamp, uploaded)'
    OBVIOUS
  <2>1. PICK f \in S : TRUE
    BY <1>3 DEF Whole, Parts
  <2>2. f \in snapshots'[stamp'] /\ f.state = loop.state
    BY <1>3, <1>4
  <2> DEFINE Kept(r, v) == v = f.state[r]
  <2>3. \A i \in DOMAIN wal : i <= uploaded => \A r \in Rows : wal[i][r] # 0 =>
            \E j \in i .. Len(wal) : wal[j][r] # 0 /\ Kept(r, wal[j][r])
    BY <1>1, <2>2 DEF Covers, PutSince
  <2>4. \A r, v : Kept(r, v) => HeldIn(stamp, r, v)'
    BY <2>2 DEF HeldIn
  <2> HIDE DEF Kept
  <2>5. HoldsAll(stamp, uploaded)'
    <3>1. wal' = wal /\ uploaded' = uploaded
      BY DEF store
    <3> QED
      BY <2>3, <2>4, <3>1, Zenon DEF HoldsAll
  <2> QED
    BY <1>1, <2>5
<1>10. S = SnapshotFiles => Whole(stamp)'
  <2>1. {f.part : f \in SnapshotFiles} = Parts
    <3>1. \A p \in Parts : \E f \in SnapshotFiles : f.part = p
      <4> SUFFICES ASSUME NEW p \in Parts PROVE \E f \in SnapshotFiles : f.part = p
        OBVIOUS
      <4>1. [part |-> p, state |-> loop.state] \in SnapshotFiles
        BY DEF SnapshotFiles
      <4> QED
        BY <4>1
    <3>2. \A f \in SnapshotFiles : f.part \in Parts
      BY DEF SnapshotFiles
    <3> QED
      BY <3>1, <3>2
  <2> QED
    BY <1>3, <2>1 DEF Whole
<1> QED
  BY <1>6, <1>7, <1>8, <1>9, <1>10 DEF Ground

LEMMA UploadSnapshotHolds == SyncInv /\ UploadSnapshot => SyncInv'
<1> SUFFICES ASSUME SyncInv, UploadSnapshot PROVE SyncInv'
  OBVIOUS
<1>1. loop.at = "snapshot" /\ snapshots' = [snapshots EXCEPT ![stamp] = SnapshotFiles]
      /\ UNCHANGED <<store, uploaded, checked, stamp, due, clock, logs, current, faults>>
  BY DEF UploadSnapshot, Goes
<1>2. Ground' /\ Whole(stamp)'
  BY <1>1, SnapshotAdded
<1>3. loop' = RestingAt("delete", loop.asked)
  BY DEF UploadSnapshot, Goes, Resting, RestingAt
<1>4. LoopTypes' /\ loop'.at = "delete"
  BY <1>1, <1>3, AskedIs, GoesTypes
<1>5. Types'
  BY <1>1 DEF SyncInv, Types, Puts, store
<1>6. LoopIs'
  BY <1>4 DEF LoopIs
<1> QED
  BY <1>2, <1>4, <1>5, <1>6, FromGround

LEMMA UploadFailsHolds == SyncInv /\ UploadFails => SyncInv'
<1> SUFFICES ASSUME SyncInv, UploadFails PROVE SyncInv'
  OBVIOUS
<1>1. UNCHANGED <<store, uploaded, checked, stamp, due, clock, current>> /\ faults' = faults + 1
      /\ faults < MaxFaults
  BY DEF UploadFails
<1>2. loop' = RestingAt("idle", 0)
  BY DEF UploadFails, Resting, RestingAt
<1>3. 0 \in 0 .. Len(wal) /\ faults' \in 0 .. MaxFaults /\ checked \in 0 .. Len(wal)
  BY <1>1, Bounds DEF SyncInv, Types
<1>4. LoopTypes' /\ loop'.at = "idle"
  BY <1>1, <1>2, <1>3, GoesTypes
<1>5. Types'
  BY <1>1, <1>3 DEF SyncInv, Types, Puts, store
<1>6. LoopIs'
  BY <1>4 DEF LoopIs
<1>7. CASE UNCHANGED <<snapshots, logs>>
  BY <1>1, <1>2, <1>3, <1>7, LoopRests DEF remote
<1>8. CASE loop.at = "log" /\ logs' = WithLog(FALSE) /\ UNCHANGED snapshots
  <2>1. /\ DirectoriesOK' /\ WalIs' /\ (\A f \in snapshots[stamp] : NotNewer(f.state, db))'
        /\ \A f \in logs[stamp] : f.from < FirstUpdate => f \in logs'[stamp]
    BY <1>1, <1>8, LogAdded
  <2>2. FirstUpdate' = FirstUpdate /\ stamp' = stamp /\ snapshots' = snapshots /\ wal' = wal
    BY <1>1, <1>8 DEF FirstUpdate, store
  <2>3. \A r, v : HeldIn(stamp, r, v) => HeldIn(stamp, r, v)'
    BY <2>1, <2>2 DEF HeldIn
  <2>4. HoldsAll(stamp, uploaded) => HoldsAll(stamp, uploaded)'
    BY <1>1, <2>2, <2>3, Zenon DEF HoldsAll
  <2>5. Whole(stamp)' <=> Whole(stamp)
    BY <2>2 DEF Whole
  <2>6. Ground'
    BY <1>1, <2>1, <2>4, <2>5 DEF Ground, SyncInv, StampHolds
  <2>7. (current = stamp => Whole(stamp))'
    BY <1>1, <2>5 DEF SyncInv, StampHolds
  <2> QED
    BY <1>4, <1>5, <1>6, <2>6, <2>7, FromGround
<1>9. ASSUME loop.at = "snapshot", NEW S \in SUBSET SnapshotFiles,
             snapshots' = [snapshots EXCEPT ![stamp] = S], UNCHANGED logs
      PROVE  SyncInv'
  <2>1. Ground'
    BY <1>1, <1>9, SnapshotAdded
  <2>2. current < stamp
    BY <1>9 DEF SyncInv, StampHolds
  <2>3. current' # stamp'
    BY <1>1, <2>2, StampIs
  <2> QED
    BY <1>4, <1>5, <1>6, <2>1, <2>3, FromGround
<1> QED
  BY <1>7, <1>8, <1>9 DEF UploadFails

\* A new time, and nothing in its directory.
LEMMA NewTime ==
    ASSUME SyncInv, clock < MaxTimes, clock' = clock + 1, stamp' = clock + 1
    PROVE  /\ clock' \in Times /\ stamp' \in 1 .. clock' /\ stamp' \in Times
           /\ snapshots[stamp'] = {} /\ logs[stamp'] = {} /\ current < stamp'
<1>1. clock \in Nat /\ clock >= 1 /\ current \in Nat /\ current <= clock
  BY StampIs, Bounds DEF Times
<1>2. stamp' \in Times /\ stamp' > clock
  BY <1>1, Bounds DEF Times
<1> QED
  BY <1>1, <1>2 DEF SyncInv, DirectoriesOK

LEMMA TakeCheckPointHolds == SyncInv /\ TakeCheckPoint => SyncInv'
<1> SUFFICES ASSUME SyncInv, TakeCheckPoint PROVE SyncInv'
  OBVIOUS
<1>1. /\ loop.at = "checkpoint" /\ clock' = clock + 1 /\ stamp' = clock + 1 /\ due' = FALSE
      /\ loop' = [loop EXCEPT !.at = "snapshot", !.state = db]
      /\ UNCHANGED <<store, uploaded, checked, remote, faults>>
  BY DEF TakeCheckPoint
<1>2. clock < MaxTimes /\ uploaded > 0
  BY <1>1 DEF SyncInv, Types, LoopTypes
<1>3. /\ clock' \in Times /\ stamp' \in 1 .. clock' /\ stamp' \in Times
      /\ snapshots[stamp'] = {} /\ logs[stamp'] = {} /\ current < stamp'
  BY <1>1, <1>2, NewTime
<1>4. current \in 0 .. clock'
  BY <1>1, <1>2, StampIs
<1>5. Puts' = Puts /\ LogFiles' = LogFiles /\ CheckPointFiles' = CheckPointFiles
  BY <1>1 DEF store, Puts, LogFiles, CheckPointFiles
<1>6. Types'
  BY <1>1, <1>3, <1>4, <1>5 DEF SyncInv, Types, store, remote
<1>7. loop \in [at : {"idle", "read", "log", "done", "checkpoint", "snapshot", "delete"},
                asked : Nat, from : Nat, to : Nat, batch : Puts, state : Puts]
      /\ db \in Puts
  BY DEF SyncInv, Types, LoopTypes
<1>8. loop'.at = "snapshot" /\ loop'.asked = loop.asked /\ loop'.state = db
  BY <1>1, <1>7
<1>9. LoopTypes'
  <2>1. loop' \in [at : {"idle", "read", "log", "done", "checkpoint", "snapshot", "delete"},
                   asked : Nat, from : Nat, to : Nat, batch : Puts, state : Puts]
    BY <1>1, <1>7
  <2> QED
    BY <1>1, <1>2, <1>5, <1>8, <2>1 DEF SyncInv, LoopTypes, store
<1>10. DirectoriesOK'
  <2>1. \A t \in Times : t > clock' => t > clock
    BY <1>1, StampIs, Bounds DEF Times
  <2> QED
    BY <1>1, <1>5, <2>1 DEF SyncInv, DirectoriesOK, remote
<1>11. Ground'
  <2>1. WalIs'
    BY <1>1 DEF SyncInv, WalIs, store
  <2>2. snapshots'[stamp'] = {}
    BY <1>1, <1>3 DEF remote
  <2>3. ~ Whole(stamp)'
    BY <2>2 DEF Whole, Parts
  <2> QED
    BY <1>10, <2>1, <2>2, <2>3 DEF Ground
<1>12. (/\ Covers(loop.state, uploaded) /\ NotNewer(loop.state, db) /\ logs[stamp] = {}
        /\ current < stamp)'
  <2>1. \A i \in DOMAIN wal : \A r \in Rows : wal[i][r] # 0 => PutSince(i, r, db[r])
    BY DatabaseCovers DEF SyncInv
  <2>2. Covers(loop.state, uploaded)'
    BY <1>1, <1>8, <2>1 DEF Covers, PutSince, store
  <2>3. \A r \in Rows : db[r] \in Nat
    BY <1>7, Bounds DEF Puts, SyncInv, Types
  <2>4. NotNewer(loop.state, db)'
    BY <1>1, <1>8, <2>3 DEF NotNewer, store
  <2> QED
    BY <1>1, <1>3, <2>2, <2>4 DEF remote
<1>13. LoopIs'
  BY <1>8 DEF LoopIs
<1>14. current' # stamp'
  BY <1>1, <1>3, StampIs DEF remote
<1> QED
  BY <1>6, <1>8, <1>9, <1>11, <1>12, <1>13, <1>14, FromGround


\* Only files of older directories are deleted.
LEMMA DeleteOldHolds == \A t \in Times : SyncInv /\ DeleteOld(t) => SyncInv'
<1> SUFFICES ASSUME NEW t \in Times, SyncInv, DeleteOld(t) PROVE SyncInv'
  OBVIOUS
<1>1. /\ loop.at = "delete" /\ t < stamp
      /\ UNCHANGED <<store, uploaded, checked, stamp, due, clock, loop, current, faults>>
      /\ \/ /\ \E f \in snapshots[t] : snapshots' = [snapshots EXCEPT ![t] = @ \ {f}]
            /\ UNCHANGED logs
         \/ /\ \E f \in logs[t] : logs' = [logs EXCEPT ![t] = @ \ {f}]
            /\ UNCHANGED snapshots
  BY DEF DeleteOld, Outdated
<1>2. stamp \in Times /\ t # stamp /\ snapshots \in [Times -> SUBSET CheckPointFiles]
      /\ logs \in [Times -> SUBSET LogFiles]
  BY <1>1, StampIs, Bounds DEF Times, SyncInv, DirectoriesOK
<1>3. /\ snapshots' \in [Times -> SUBSET CheckPointFiles] /\ logs' \in [Times -> SUBSET LogFiles]
      /\ \A u \in Times : snapshots'[u] \subseteq snapshots[u] /\ logs'[u] \subseteq logs[u]
      /\ snapshots'[stamp] = snapshots[stamp] /\ logs'[stamp] = logs[stamp]
  BY <1>1, <1>2
<1>4. Puts' = Puts /\ LogFiles' = LogFiles /\ CheckPointFiles' = CheckPointFiles
  BY <1>1 DEF store, Puts, LogFiles, CheckPointFiles
<1>5. DirectoriesOK'
  <2>1. \A u \in Times : IsFiniteSet(logs'[u])
    BY <1>3, FS_Subset DEF SyncInv, DirectoriesOK
  <2>2. \A u \in Times : u > clock' => snapshots'[u] = {} /\ logs'[u] = {}
    BY <1>1, <1>3 DEF SyncInv, DirectoriesOK
  <2>3. \A u \in Times : \A f \in snapshots'[u] :
          /\ \A g \in snapshots'[u] : f.state = g.state
          /\ \A g \in logs'[u] : \A r \in Rows : g.batch[r] # 0 => f.state[r] <= g.batch[r]
    BY <1>3 DEF SyncInv, DirectoriesOK
  <2> QED
    BY <1>3, <1>4, <2>1, <2>2, <2>3 DEF DirectoriesOK
<1>6. Types' /\ LoopTypes' /\ WalIs' /\ loop'.at = "delete"
  BY <1>1, <1>4 DEF SyncInv, Types, LoopTypes, WalIs, store
<1>7. Whole(stamp)' /\ Whole(stamp)
  BY <1>1, <1>3 DEF SyncInv, StampHolds, Whole
<1>8. \A r, v : HeldIn(stamp, r, v) => HeldIn(stamp, r, v)'
  BY <1>1, <1>3 DEF HeldIn, FirstUpdate
<1>9. HoldsAll(stamp, uploaded)'
  <2>1. HoldsAll(stamp, uploaded)
    BY <1>7 DEF SyncInv, StampHolds
  <2> QED
    BY <1>1, <1>8, <2>1, Zenon DEF HoldsAll, store
<1>10. Ground'
  <2>1. uploaded' > 0
    BY <1>1, <1>7 DEF SyncInv, StampHolds
  <2>2. (\A f \in snapshots[stamp] : NotNewer(f.state, db))'
    BY <1>1, <1>3 DEF SyncInv, ShotsOK, NotNewer, store
  <2> QED
    BY <1>5, <1>6, <1>9, <2>1, <2>2 DEF Ground
<1>11. LoopIs'
  BY <1>6 DEF LoopIs
<1> QED
  BY <1>6, <1>7, <1>10, <1>11, FromGround

LEMMA SwitchCurrentHolds == SyncInv /\ SwitchCurrent => SyncInv'
<1> SUFFICES ASSUME SyncInv, SwitchCurrent PROVE SyncInv'
  OBVIOUS
<1>1. loop.at = "delete" /\ current' = stamp
      /\ UNCHANGED <<store, uploaded, checked, stamp, due, clock, snapshots, logs, faults>>
  BY DEF SwitchCurrent, Goes
<1>2. Ground' /\ Puts' = Puts
  BY <1>1, GroundSame
<1>3. loop' = RestingAt("done", loop.asked)
  BY DEF SwitchCurrent, Goes, Resting, RestingAt
<1>4. LoopTypes' /\ loop'.at = "done"
  BY <1>1, <1>3, AskedIs, GoesTypes
<1>5. Types'
  <2>1. current' \in 0 .. clock
    BY <1>1, StampIs
  <2> QED
    BY <1>1, <1>2, <2>1 DEF SyncInv, Types, store
<1>6. LoopIs'
  BY <1>4 DEF LoopIs
<1>7. Whole(stamp)'
  BY <1>1 DEF SyncInv, StampHolds, Whole
<1> QED
  BY <1>2, <1>4, <1>5, <1>6, <1>7, FromGround

\* A write is newer than all there is.
LEMMA WriteOperationHolds == SyncInv /\ WriteOperation => SyncInv'
<1> SUFFICES ASSUME SyncInv, WriteOperation PROVE SyncInv'
  OBVIOUS
<1> DEFINE w == written + 1
           n == Len(wal)
           b == Batch(w)
<1>1. /\ written' = w /\ db' = Apply(db, b) /\ wal' = Append(wal, b)
      /\ UNCHANGED <<uploaded, checked, stamp, due, clock, loop, snapshots, logs, current, faults>>
  BY DEF WriteOperation
<1>2. w \in 1 .. MaxWrites /\ w > written /\ written \in Nat
  BY Bounds DEF WriteOperation, SyncInv, Types
<1>3. Puts \subseteq Puts'
  BY <1>1, <1>2 DEF Puts
<1>4. b \in Puts' /\ \A r \in Rows : b[r] = 0 \/ b[r] = w
  BY <1>1, <1>2 DEF Batch, Puts
<1>5. db \in Puts /\ wal \in Seq(Puts) /\ n \in Nat /\ DOMAIN wal = 1 .. n
  BY DEF SyncInv, Types
<1> HIDE DEF b
<1>6. \A r \in Rows : db'[r] = (IF b[r] = 0 THEN db[r] ELSE b[r]) /\ db[r] \in 0 .. written
  BY <1>1, <1>5 DEF Apply, Puts
<1>7. db' \in Puts'
  BY <1>1, <1>2, <1>4, <1>5 DEF Apply, Puts
<1>8. wal' \in Seq(Puts')
  <2>1. wal \in Seq(Puts')
    BY <1>3, <1>5
  <2> QED
    BY <1>1, <1>4, <2>1
<1>9. /\ Len(wal') = n + 1 /\ DOMAIN wal' = 1 .. n + 1 /\ wal'[n + 1] = b
      /\ \A i \in 1 .. n : wal'[i] = wal[i]
  BY <1>1, <1>5
<1> HIDE DEF n
<1>10. Types'
  <2>1. uploaded' \in 0 .. Len(wal') /\ checked' \in 0 .. Len(wal')
    BY <1>1, <1>5, <1>9 DEF SyncInv, Types, n
  <2>2. written' \in 0 .. MaxWrites
    BY <1>1, <1>2
  <2> QED
    BY <1>1, <1>7, <1>8, <2>1, <2>2 DEF SyncInv, Types
<1>11. LoopTypes'
  <2>1. loop' = loop
    BY <1>1
  <2>2. loop' \in [at : {"idle", "read", "log", "done", "checkpoint", "snapshot", "delete"},
                   asked : Nat, from : Nat, to : Nat, batch : Puts', state : Puts']
    BY <1>3, <2>1 DEF SyncInv, LoopTypes
  <2>3. loop'.asked <= Len(wal') /\ (loop'.at = "read" => Len(wal') > 0)
    <3>1. loop.asked \in Nat /\ loop.asked <= n
      BY DEF SyncInv, LoopTypes, n
    <3> QED
      BY <1>5, <1>9, <2>1, <3>1
  <2> QED
    BY <1>1, <2>2, <2>3 DEF SyncInv, LoopTypes
<1>12. DirectoriesOK'
  <2>1. CheckPointFiles \subseteq CheckPointFiles' /\ LogFiles \subseteq LogFiles'
    BY <1>3 DEF CheckPointFiles, LogFiles
  <2>2. snapshots' \in [Times -> SUBSET CheckPointFiles'] /\ logs' \in [Times -> SUBSET LogFiles']
    BY <1>1, <2>1 DEF SyncInv, DirectoriesOK
  <2> QED
    BY <1>1, <2>2 DEF SyncInv, DirectoriesOK
<1>13. WalIs'
  <2> SUFFICES ASSUME NEW r \in Rows, NEW i \in 1 .. n + 1, wal'[i][r] # 0,
                      \A k \in 1 .. n + 1 : k > i => wal'[k][r] = 0
               PROVE  db'[r] = wal'[i][r]
    BY <1>9 DEF WalIs
  <2>1. CASE i = n + 1
    BY <1>6, <1>9, <2>1
  <2>2. CASE i # n + 1
    <3>1. i \in 1 .. n /\ b[r] = 0 /\ \A k \in 1 .. n : k > i => wal[k][r] = 0
      BY <1>5, <1>9, <2>2
    <3>2. db[r] = wal[i][r]
      BY <1>5, <1>9, <3>1 DEF SyncInv, WalIs
    <3> QED
      BY <1>6, <1>9, <3>1, <3>2
  <2> QED
    BY <2>1, <2>2
<1>14. \A s : NotNewer(s, db) /\ (\A r \in Rows : s[r] \in Nat) => NotNewer(s, db)'
  <2> SUFFICES ASSUME NEW s, NotNewer(s, db), \A r \in Rows : s[r] \in Nat, NEW r \in Rows
               PROVE  s[r] <= db'[r]
    BY DEF NotNewer
  <2>1. s[r] <= db[r] /\ s[r] \in Nat /\ db[r] \in 0 .. written
    BY <1>6 DEF NotNewer
  <2> QED
    BY <1>2, <1>4, <1>6, <2>1
<1>15. \A i, r, v : PutSince(i, r, v) /\ i \in Nat \ {0} => PutSince(i, r, v)'
  <2> SUFFICES ASSUME NEW i \in Nat \ {0}, NEW r, NEW v, PutSince(i, r, v)
               PROVE  PutSince(i, r, v)'
    OBVIOUS
  <2>1. PICK j \in i .. n : wal[j][r] # 0 /\ wal[j][r] = v
    BY DEF PutSince, n
  <2>2. j \in 1 .. n /\ j \in i .. n + 1
    BY <1>5, <2>1
  <2>3. wal'[j][r] # 0 /\ wal'[j][r] = v
    BY <1>9, <2>1, <2>2
  <2> QED
    BY <1>9, <2>2, <2>3 DEF PutSince
<1>16. (\A f \in snapshots[stamp] : NotNewer(f.state, db))'
  <2>1. \A f \in snapshots[stamp] : NotNewer(f.state, db) /\ \A r \in Rows : f.state[r] \in Nat
    BY <1>2, StampIs DEF SyncInv, ShotsOK, DirectoriesOK, CheckPointFiles, Puts
  <2> QED
    BY <1>1, <1>14, <2>1
<1>17. uploaded \in Nat /\ uploaded <= n
  BY <1>5 DEF SyncInv, Types, n
<1>18. (loop.at = "snapshot" =>
          /\ Covers(loop.state, uploaded) /\ NotNewer(loop.state, db) /\ logs[stamp] = {}
          /\ current < stamp)'
  <2> SUFFICES ASSUME loop.at = "snapshot"
               PROVE  (/\ Covers(loop.state, uploaded) /\ NotNewer(loop.state, db)
                       /\ logs[stamp] = {} /\ current < stamp)'
    BY <1>1
  <2>1. Covers(loop.state, uploaded) /\ NotNewer(loop.state, db) /\ logs[stamp] = {}
        /\ current < stamp
    BY DEF SyncInv, ShotsOK, StampHolds
  <2>2. \A r \in Rows : loop.state[r] \in Nat
    BY <1>2 DEF SyncInv, LoopTypes, Puts
  <2>3. NotNewer(loop.state, db)'
    BY <1>1, <1>14, <2>1, <2>2
  <2>4. \A i \in 1 .. n + 1 : i <= uploaded => \A r \in Rows : wal'[i][r] # 0 =>
            PutSince(i, r, loop.state[r])'
    <3> SUFFICES ASSUME NEW i \in 1 .. n + 1, i <= uploaded, NEW r \in Rows, wal'[i][r] # 0
                 PROVE  PutSince(i, r, loop.state[r])'
      OBVIOUS
    <3>1. i \in 1 .. n /\ i \in Nat \ {0}
      BY <1>5, <1>17
    <3>2. wal[i][r] # 0
      BY <1>9, <3>1
    <3>3. PutSince(i, r, loop.state[r])
      BY <1>5, <2>1, <3>1, <3>2 DEF Covers
    <3> QED
      BY <1>1, <1>15, <3>1, <3>3
  <2>5. Covers(loop.state, uploaded)'
    BY <1>1, <1>9, <2>4 DEF Covers
  <2> QED
    BY <1>1, <2>1, <2>3, <2>5
<1>19. LoopIs'
  <2> SUFFICES ASSUME loop.at = "log" PROVE LoopIs'
    BY <1>1 DEF LoopIs
  <2>1. /\ loop.from = FirstUpdate /\ loop.from <= loop.to
        /\ uploaded <= loop.to /\ loop.to <= n
        /\ \A i \in loop.from .. loop.to : \A r \in Rows : wal[i][r] # 0 =>
              PutSince(i, r, loop.batch[r])
        /\ \A f \in snapshots[stamp] : \A r \in Rows :
              loop.batch[r] # 0 => f.state[r] <= loop.batch[r]
    BY DEF SyncInv, LoopIs, n
  <2>2. FirstUpdate' = FirstUpdate /\ loop.to \in Nat /\ loop.from \in Nat \ {0}
    BY <1>1, <1>17, <2>1 DEF FirstUpdate, SyncInv, LoopTypes
  <2>3. loop.to <= Len(wal')
    BY <1>5, <1>9, <2>1, <2>2
  <2>4. \A i \in loop.from .. loop.to : \A r \in Rows : wal'[i][r] # 0 =>
            PutSince(i, r, loop.batch[r])'
    <3> SUFFICES ASSUME NEW i \in loop.from .. loop.to, NEW r \in Rows, wal'[i][r] # 0
                 PROVE  PutSince(i, r, loop.batch[r])'
      OBVIOUS
    <3>1. i \in 1 .. n /\ i \in Nat \ {0}
      BY <1>5, <2>1, <2>2
    <3>2. PutSince(i, r, loop.batch[r])
      BY <1>9, <2>1, <3>1
    <3> QED
      BY <1>1, <1>15, <3>1, <3>2
  <2> QED
    BY <1>1, <2>1, <2>2, <2>3, <2>4 DEF LoopIs
<1>20. Whole(stamp)' <=> Whole(stamp)
  BY <1>1 DEF Whole
<1>21. HoldsAll(stamp, uploaded) => HoldsAll(stamp, uploaded)'
  <2>1. ASSUME HoldsAll(stamp, uploaded), NEW i \in 1 .. n + 1, i <= uploaded,
               NEW r \in Rows, wal'[i][r] # 0
        PROVE  \E j \in i .. n + 1 : wal'[j][r] # 0 /\ HeldIn(stamp, r, wal'[j][r])
    <3>1. i \in 1 .. n
      BY <1>5, <1>17, <2>1
    <3>2. wal[i][r] # 0
      BY <1>9, <2>1, <3>1
    <3>3. PICK j \in i .. n : wal[j][r] # 0 /\ HeldIn(stamp, r, wal[j][r])
      BY <1>5, <2>1, <3>1, <3>2 DEF HoldsAll, n
    <3>4. j \in 1 .. n /\ j \in i .. n + 1
      BY <1>5, <3>1, <3>3
    <3> QED
      BY <1>9, <3>3, <3>4
  <2>2. \A r, v : HeldIn(stamp, r, v) => HeldIn(stamp, r, v)'
    BY <1>1 DEF HeldIn, FirstUpdate
  <2>3. DOMAIN wal' = 1 .. n + 1 /\ Len(wal') = n + 1 /\ uploaded' = uploaded
    BY <1>1, <1>9
  <2> QED
    BY <2>1, <2>2, <2>3, Zenon DEF HoldsAll
<1>22. Ground'
  BY <1>1, <1>12, <1>13, <1>16, <1>20, <1>21 DEF Ground, SyncInv, StampHolds
<1>23. (loop.at = "delete" \/ current = stamp => Whole(stamp))'
  BY <1>1, <1>20 DEF SyncInv, StampHolds
<1> QED
  BY <1>10, <1>11, <1>18, <1>19, <1>22, <1>23, FromGround


-----------------------------------------------------------------------------
(***************************************************************************)
(* Starts                                                                  *)
(***************************************************************************)
\* A start adds nothing to its own directory, and no one has named it.
LEMMA BeginHolds ==
    ASSUME SyncInv, Begin, UNCHANGED <<written, remote>>,
           db' \in Puts, wal' \in Seq(Puts), WalIs',
           uploaded' \in 0 .. Len(wal'), checked' \in 0 .. Len(wal')
    PROVE  SyncInv'
<1>1. /\ clock < MaxTimes /\ clock' = clock + 1 /\ stamp' = clock + 1 /\ due' = FALSE
      /\ faults < MaxFaults /\ faults' = faults + 1
      /\ snapshots' = snapshots /\ logs' = logs /\ current' = current
      /\ written' = written
  BY DEF Begin, remote
<1>2. loop' = RestingAt("idle", 0)
  BY DEF Begin, Resting, RestingAt
<1>3. /\ clock' \in Times /\ stamp' \in 1 .. clock' /\ stamp' \in Times
      /\ snapshots[stamp'] = {} /\ logs[stamp'] = {} /\ current < stamp'
  BY <1>1, NewTime
<1>4. Puts' = Puts /\ LogFiles' = LogFiles /\ CheckPointFiles' = CheckPointFiles
  BY <1>1 DEF Puts, LogFiles, CheckPointFiles
<1>5. Types'
  <2>1. current' \in 0 .. clock'
    BY <1>1, StampIs
  <2>2. faults' \in 0 .. MaxFaults
    BY <1>1, Bounds DEF SyncInv, Types
  <2>3. written' \in 0 .. MaxWrites
    BY <1>1 DEF SyncInv, Types
  <2> QED
    BY <1>1, <1>3, <1>4, <2>1, <2>2, <2>3 DEF Types
<1>6. loop'.at = "idle" /\ LoopTypes'
  <2>1. Empty \in Puts
    BY DEF SyncInv, Types, Empty, Puts
  <2>2. loop' \in [at : {"idle", "read", "log", "done", "checkpoint", "snapshot", "delete"},
                   asked : Nat, from : Nat, to : Nat, batch : Puts, state : Puts]
    BY <1>2, <2>1 DEF RestingAt
  <2>3. loop'.at = "idle" /\ loop'.asked = 0
    BY <1>2 DEF RestingAt
  <2>4. 0 <= Len(wal')
    OBVIOUS
  <2> QED
    BY <1>4, <2>2, <2>3, <2>4 DEF LoopTypes
<1>7. DirectoriesOK'
  <2>1. \A t \in Times : t > clock' => t > clock
    BY <1>1, StampIs, Bounds DEF Times
  <2> QED
    BY <1>1, <1>4, <2>1 DEF SyncInv, DirectoriesOK
<1>8. snapshots'[stamp'] = {} /\ current' # stamp'
  BY <1>1, <1>3, StampIs
<1>9. Ground'
  <2>1. ~ Whole(stamp)'
    BY <1>8 DEF Whole, Parts
  <2> QED
    BY <1>7, <1>8, <2>1 DEF Ground
<1>10. LoopIs'
  BY <1>6 DEF LoopIs
<1> QED
  BY <1>5, <1>6, <1>8, <1>9, <1>10, FromGround

LEMMA RestartOnLocalFilesHolds == SyncInv /\ RestartOnLocalFiles => SyncInv'
<1> SUFFICES ASSUME SyncInv, RestartOnLocalFiles PROVE SyncInv'
  OBVIOUS
<1>1. Begin /\ uploaded' = Len(wal) /\ checked' = Len(wal)
      /\ db' = db /\ wal' = wal /\ UNCHANGED <<written, remote>>
  BY DEF RestartOnLocalFiles, store
<1>2. db \in Puts /\ wal \in Seq(Puts) /\ Len(wal) \in 0 .. Len(wal)
  BY DEF SyncInv, Types
<1>3. WalIs'
  BY <1>1 DEF SyncInv, WalIs
<1> QED
  BY <1>1, <1>2, <1>3, BeginHolds

\* The database that is restored has what the batches of its replay put last.
LEMMA RestartFromRemoteHolds == SyncInv /\ RestartFromRemote => SyncInv'
<1> SUFFICES ASSUME SyncInv, RestartFromRemote PROVE SyncInv'
  OBVIOUS
<1>1. PICK list \in Listings : Restart(list) /\ uploaded' = 0
  BY DEF RestartFromRemote
<1> DEFINE b == BatchesOf(list)
<1>2. Begin /\ db' = Restored(list) /\ wal' = b /\ checked' = 0 /\ UNCHANGED <<written, remote>>
  BY <1>1 DEF Restart
<1>3. b \in Seq(Puts) /\ Restored(list) \in Puts
  BY ListIs, RestoredTypes
<1>4. \A r \in Rows : Restored(list)[r] = IF Merge(b)[r] = 0 THEN Loaded[r] ELSE Merge(b)[r]
  BY DEF Restored, Apply
<1> HIDE DEF b
<1>5. Len(b) \in Nat /\ DOMAIN b = 1 .. Len(b)
  BY <1>3
<1>6. WalIs'
  <2> SUFFICES ASSUME NEW r \in Rows, NEW i \in 1 .. Len(b), b[i][r] # 0,
                      \A k \in 1 .. Len(b) : k > i => b[k][r] = 0
               PROVE  Restored(list)[r] = b[i][r]
    BY <1>2, <1>5 DEF WalIs
  <2>1. \/ Merge(b)[r] = 0 /\ \A k \in 1 .. Len(b) : b[k][r] = 0
        \/ \E m \in 1 .. Len(b) : /\ b[m][r] # 0 /\ Merge(b)[r] = b[m][r]
                                  /\ \A k \in 1 .. Len(b) : k > m => b[k][r] = 0
    BY <1>5, MergeIs
  <2>2. PICK m \in 1 .. Len(b) : /\ b[m][r] # 0 /\ Merge(b)[r] = b[m][r]
                                 /\ \A k \in 1 .. Len(b) : k > m => b[k][r] = 0
    BY <2>1
  <2>3. m = i
    BY <1>5, <2>2
  <2> QED
    BY <1>4, <2>2, <2>3
<1>7. uploaded' \in 0 .. Len(wal') /\ checked' \in 0 .. Len(wal')
  BY <1>1, <1>2, <1>5
<1> QED
  BY <1>2, <1>3, <1>6, <1>7, BeginHolds

-----------------------------------------------------------------------------
LEMMA NextHolds == SyncInv /\ [Next]_vars => SyncInv'
<1> SUFFICES ASSUME SyncInv, [Next]_vars PROVE SyncInv'
  OBVIOUS
<1>1. CASE WriteOperation
  BY <1>1, WriteOperationHolds
<1>2. CASE Tick
  BY <1>2, TickHolds
<1>3. CASE Upload
  BY <1>3, BeginUploadHolds, GetUpdatesHolds, UploadLogHolds, FinishHolds, TakeCheckPointHolds,
     UploadSnapshotHolds, SwitchCurrentHolds, DeleteOldHolds DEF Upload
<1>4. CASE UploadFails
  BY <1>4, UploadFailsHolds
<1>5. CASE RestartOnLocalFiles
  BY <1>5, RestartOnLocalFilesHolds
<1>6. CASE RestartFromRemote
  BY <1>6, RestartFromRemoteHolds
<1>7. CASE UNCHANGED vars
  <2>1. UNCHANGED <<store, uploaded, checked, stamp, due, clock, loop, remote, faults>>
    BY <1>7 DEF vars
  <2>2. Ground' /\ Puts' = Puts
    BY <2>1, GroundSame DEF remote
  <2>3. Types' /\ LoopTypes'
    BY <2>1, <2>2 DEF SyncInv, Types, LoopTypes, store, remote
  <2>4. LoopIs'
    BY <2>1 DEF SyncInv, LoopIs, PutSince, FirstUpdate, store, remote
  <2>5. ShotsOK' /\ StampHolds'
    BY <2>1 DEF SyncInv, ShotsOK, StampHolds, Covers, PutSince, NotNewer, Whole, HoldsAll,
       HeldIn, FirstUpdate, store, remote
  <2> QED
    BY <2>2, <2>3, <2>4, <2>5 DEF SyncInv, Ground
<1> QED
  BY <1>1, <1>2, <1>3, <1>4, <1>5, <1>6, <1>7 DEF Next

THEOREM SyncInvariant == Spec => []SyncInv
BY InitHolds, NextHolds, PTL DEF Spec

\* last_upload_seq and last_check_seq never pass the batches of the database that
\* runs, whatever starts and failing uploads come between, metastore-current names a
\* time that has been, and every file holds writes that were made.
THEOREM SyncTypes == Spec => []TypeOK
BY SyncInvariant, TypesHold, PTL

\* In whatever order the log files are listed, and whichever of them is damaged, the
\* replay takes no row behind the check point it starts from: a check point may be
\* newer than the log before it, but no log of its directory is older than it.
THEOREM ReplayKeepsCheckPoint == Spec => []NotBehindCheckPoint
BY SyncInvariant, NotBehind, PTL

\* As long as the process adds its logs to the check point that metastore-current
\* names, the remote files hold every row of the batches up to last_upload_seq, though
\* uploads fail half way, overwrite a log with a damaged one, or run while others write.
THEOREM UploadedIsHeld == Spec => []SyncedIsHeld
BY SyncInvariant, SyncIsHeld, PTL
=============================================================================
