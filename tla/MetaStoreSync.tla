---------------------------- MODULE MetaStoreSync ----------------------------
(***************************************************************************)
(* How Cube Store keeps its meta store on the remote file system            *)
(* (RocksMetaStore: run_upload, upload_check_point, load_from_remote).      *)
(* Every minute the batches written since the last upload go to a log file  *)
(* in the directory of the last check point; once five minutes have passed  *)
(* since that check point a new one is uploaded, the files of the older     *)
(* ones are deleted and metastore-current names the new one.  A start       *)
(* without local files loads the check point that is named and replays the  *)
(* logs of its directory, in the order in which the file system lists them. *)
(*                                                                         *)
(* Directories are named by times, here by the order of these times: every  *)
(* start and every check point has a later one.  What a batch puts in a row *)
(* is the number of the write it comes from; a log file is one batch again. *)
(***************************************************************************)
EXTENDS Naturals, SequencesExt, FiniteSetsExt

CONSTANTS
    Rows,       \* keys of the meta store
    Touches,    \* the rows a write puts
    MaxWrites,  \* bound on the writes
    MaxTimes,   \* bound on starts and check points
    MaxFaults   \* bound on crashes and on calls of the file system that fail

Writes == 1 .. MaxWrites
Times == 1 .. MaxTimes
States == [Rows -> 0 .. MaxWrites]   \* the write that put a row last
Batches == States                    \* what a batch puts in a row; 0: nothing

ASSUME BoundsAssumption == MaxWrites \in Nat /\ MaxTimes \in Nat \ {0} /\ MaxFaults \in Nat
ASSUME TouchesAssumption == Touches \in [Writes -> SUBSET Rows]

\* The files of a check point: without CURRENT RocksDB makes a new database, and
\* with it, but without one of the others, it opens none.
Parts == {"CURRENT", "tables"}

VARIABLES
    db,         \* the database of the running process
    wal,        \* its batches since it was created, by sequence number
    uploaded,   \* last_upload_seq
    checked,    \* last_check_seq
    stamp,      \* last_checkpoint_time
    due,        \* more than five minutes have passed since then
    clock,      \* the latest time used
    loop,       \* how far the upload loop has come, and what it has read
    snapshots,  \* remote: the files of the check point in a directory
    logs,       \* remote: the log files of a directory, by the first batch they hold
    current,    \* remote: metastore-current, or 0
    written,    \* how many writes there have been, in any life of the database
    faults

store == <<db, wal, written>>
remote == <<snapshots, logs, current>>
vars == <<store, uploaded, checked, stamp, due, clock, loop, remote, faults>>

Empty == [r \in Rows |-> 0]
Resting == [at |-> "idle", asked |-> 0, from |-> 0, to |-> 0, batch |-> Empty, state |-> Empty]

Init ==
    /\ db = Empty /\ wal = <<>> /\ written = 0
    /\ uploaded = 0 /\ checked = 0
    /\ stamp = 1 /\ due = FALSE /\ clock = 1
    /\ loop = Resting
    /\ snapshots = [t \in Times |-> {}]
    /\ logs = [t \in Times |-> {}]
    /\ current = 0
    /\ faults = 0

(***************************************************************************)
(* Writes and time                                                         *)
(***************************************************************************)
Batch(n) == [r \in Rows |-> IF r \in Touches[n] THEN n ELSE 0]

Apply(state, batch) == [r \in Rows |-> IF batch[r] = 0 THEN state[r] ELSE batch[r]]

\* One batch that does what these do one after the other.
Merge(batches) ==
    [r \in Rows |->
        LET puts == {i \in DOMAIN batches : batches[i][r] # 0}
        IN  IF puts = {} THEN 0 ELSE batches[Max(puts)][r]]

WriteOperation ==
    /\ written < MaxWrites
    /\ written' = written + 1
    /\ db' = Apply(db, Batch(written + 1))
    /\ wal' = Append(wal, Batch(written + 1))
    /\ UNCHANGED <<uploaded, checked, stamp, due, clock, loop, snapshots, logs, current, faults>>

\* While there is room for another time.
Tick ==
    /\ ~ due
    /\ clock < MaxTimes
    /\ due' = TRUE
    /\ UNCHANGED <<store, uploaded, checked, stamp, clock, loop, remote, faults>>

(***************************************************************************)
(* run_upload                                                              *)
(***************************************************************************)
Goes(from, to) ==
    /\ loop.at = from
    /\ loop' = [Resting EXCEPT !.at = to, !.asked = loop.asked]

BeginUpload ==
    /\ loop.at = "idle"
    /\ checked # Len(wal)
    /\ loop' = [Resting EXCEPT !.at = "read", !.asked = Len(wal)]
    /\ UNCHANGED <<store, uploaded, checked, stamp, due, clock, remote, faults>>

\* get_updates_since returns the batch of that sequence number too.
FirstUpdate == IF uploaded = 0 THEN 1 ELSE uploaded

\* Mutant: one batch at a time.
GetOneUpdate ==
    /\ loop.at = "read"
    /\ loop' = [loop EXCEPT !.at = "log", !.from = FirstUpdate, !.to = FirstUpdate,
                            !.batch = wal[FirstUpdate]]
    /\ UNCHANGED <<store, uploaded, checked, stamp, due, clock, remote, faults>>

GetUpdates ==
    /\ loop.at = "read"
    /\ loop' = [loop EXCEPT !.at = "log", !.from = FirstUpdate, !.to = Len(wal),
                            !.batch = Merge(SubSeq(wal, FirstUpdate, Len(wal)))]
    /\ UNCHANGED <<store, uploaded, checked, stamp, due, clock, remote, faults>>

\* A file of the same first batch is overwritten.
WithLog(whole) ==
    [logs EXCEPT ![stamp] = {f \in @ : f.from # loop.from}
        \cup {[from |-> loop.from, batch |-> loop.batch, whole |-> whole]}]

\* Mutant: everything written by now is taken for uploaded.
UploadLogMarksAll ==
    /\ Goes("log", IF due THEN "checkpoint" ELSE "done")
    /\ logs' = WithLog(TRUE)
    /\ uploaded' = Len(wal)
    /\ UNCHANGED <<store, checked, stamp, due, clock, snapshots, current, faults>>

UploadLog ==
    /\ Goes("log", IF due THEN "checkpoint" ELSE "done")
    /\ logs' = WithLog(TRUE)
    /\ uploaded' = loop.to
    /\ UNCHANGED <<store, checked, stamp, due, clock, snapshots, current, faults>>

\* Mutant: writes made since the upload began are taken for checked.
FinishChecksAll ==
    /\ loop.at = "done"
    /\ loop' = Resting
    /\ checked' = Len(wal)
    /\ UNCHANGED <<store, uploaded, stamp, due, clock, remote, faults>>

Finish ==
    /\ loop.at = "done"
    /\ loop' = Resting
    /\ checked' = loop.asked
    /\ UNCHANGED <<store, uploaded, stamp, due, clock, remote, faults>>

(***************************************************************************)
(* upload_check_point                                                      *)
(***************************************************************************)
TakeCheckPoint ==
    /\ loop.at = "checkpoint"
    /\ clock' = clock + 1
    /\ stamp' = clock + 1
    /\ due' = FALSE
    /\ loop' = [loop EXCEPT !.at = "snapshot", !.state = db]
    /\ UNCHANGED <<store, uploaded, checked, remote, faults>>

SnapshotFiles == [part : Parts, state : {loop.state}]

UploadSnapshot ==
    /\ Goes("snapshot", "delete")
    /\ snapshots' = [snapshots EXCEPT ![stamp] = SnapshotFiles]
    /\ UNCHANGED <<store, uploaded, checked, stamp, due, clock, logs, current, faults>>

\* Files of this directory are older than three minutes.
Outdated(t) == t < stamp /\ (snapshots[t] # {} \/ logs[t] # {})

\* They are deleted one by one, in any order, and before another check point is named.
DeleteOld(t) ==
    /\ loop.at = "delete"
    /\ Outdated(t)
    /\ \/ /\ \E f \in snapshots[t] : snapshots' = [snapshots EXCEPT ![t] = @ \ {f}]
          /\ UNCHANGED logs
       \/ /\ \E f \in logs[t] : logs' = [logs EXCEPT ![t] = @ \ {f}]
          /\ UNCHANGED snapshots
    /\ UNCHANGED <<store, uploaded, checked, stamp, due, clock, loop, current, faults>>

SwitchCurrent ==
    /\ \A t \in Times : ~ Outdated(t)
    /\ Goes("delete", "done")
    /\ current' = stamp
    /\ UNCHANGED <<store, uploaded, checked, stamp, due, clock, snapshots, logs, faults>>

\* A call of the file system fails, and with it run_upload.  A log may be left
\* damaged, and some files of a check point may have been uploaded.
UploadFails ==
    /\ faults < MaxFaults
    /\ faults' = faults + 1
    /\ loop.at \in {"log", "snapshot", "delete"}
    /\ loop' = Resting
    /\ \/ UNCHANGED <<snapshots, logs>>
       \/ loop.at = "log" /\ logs' = WithLog(FALSE) /\ UNCHANGED snapshots
       \/ /\ loop.at = "snapshot"
          /\ \E S \in SUBSET SnapshotFiles : snapshots' = [snapshots EXCEPT ![stamp] = S]
          /\ UNCHANGED logs
    /\ UNCHANGED <<store, uploaded, checked, stamp, due, clock, current>>

(***************************************************************************)
(* A crash and the next start                                              *)
(***************************************************************************)
\* What load_from_remote finds of the check point that is named and of its logs,
\* or of nothing when none is.
CurrentFiles == IF current = 0 THEN {} ELSE snapshots[current]
CurrentLogs == IF current = 0 THEN {} ELSE logs[current]

Found == {f.part : f \in CurrentFiles}

\* DB::open does not fail (which would end the process).
CanOpen == "CURRENT" \in Found => Found = Parts

Loaded == IF Found = Parts THEN (CHOOSE f \in CurrentFiles : TRUE).state ELSE Empty

\* The file system lists the logs in any order; the replay ends at the first one
\* that is damaged.
Listings == SetToSeqs(CurrentLogs)

Readable(list) ==
    LET damaged == {i \in DOMAIN list : ~ list[i].whole}
    IN  IF damaged = {} THEN list ELSE SubSeq(list, 1, Min(damaged) - 1)

\* Every log file is written as one batch.
BatchesOf(list) == [i \in DOMAIN Readable(list) |-> list[i].batch]

Restored(list) == Apply(Loaded, Merge(BatchesOf(list)))

Begin ==
    /\ faults < MaxFaults
    /\ faults' = faults + 1
    /\ clock < MaxTimes
    /\ clock' = clock + 1
    /\ stamp' = clock + 1
    /\ due' = FALSE
    /\ loop' = Resting

RestartOnLocalFiles ==
    /\ Begin
    /\ uploaded' = Len(wal)
    /\ checked' = Len(wal)
    /\ UNCHANGED <<store, remote>>

Restart(list) ==
    /\ Begin
    /\ CanOpen
    /\ db' = Restored(list)
    /\ wal' = BatchesOf(list)
    /\ checked' = 0
    /\ UNCHANGED <<written, remote>>

\* Mutant: last_upload_seq is that of the lost database.
RestartKeepsSequence == \E list \in Listings : Restart(list) /\ UNCHANGED uploaded

\* The sequence numbers of the check point come before those of the replay.
RestartFromRemote == \E list \in Listings : Restart(list) /\ uploaded' = 0

Upload ==
    \/ BeginUpload \/ GetUpdates \/ UploadLog \/ Finish
    \/ TakeCheckPoint \/ UploadSnapshot \/ SwitchCurrent
    \/ \E t \in Times : DeleteOld(t)

Next ==
    \/ WriteOperation \/ Tick \/ Upload \/ UploadFails
    \/ RestartOnLocalFiles \/ RestartFromRemote

Spec == Init /\ [][Next]_vars

\* The upload loop goes on; time passes.
FairSpec == Spec /\ WF_vars(Upload) /\ WF_vars(Tick)
-----------------------------------------------------------------------------
TypeOK ==
    /\ db \in States /\ wal \in Seq(Batches) /\ written \in 0 .. MaxWrites
    /\ uploaded \in 0 .. Len(wal) /\ checked \in 0 .. Len(wal)
    /\ stamp \in Times /\ due \in BOOLEAN /\ clock \in Times
    /\ loop.at \in {"idle", "read", "log", "done", "checkpoint", "snapshot", "delete"}
    /\ snapshots \in [Times -> SUBSET [part : Parts, state : States]]
    /\ \A t \in Times : \A f \in logs[t] : f.batch \in Batches
    /\ current \in 0 .. clock
    /\ faults \in 0 .. MaxFaults

\* No log takes a row back behind the check point over which a start replays it, in
\* whatever order the logs are listed, and although a check point holds writes that
\* came while the log before it was uploaded.
NotBehindCheckPoint ==
    \A list \in Listings : \A r \in Rows : Restored(list)[r] >= Loaded[r]

\* The remote files hold what the first n batches of the running database put in
\* its rows, or what later ones put there.
Holds(row, n) ==
    \/ Loaded[row] = n
    \/ \E f \in CurrentLogs : f.whole /\ f.batch[row] = n

Safe(n) ==
    \A i \in DOMAIN wal : i <= n =>
        \A r \in Rows : wal[i][r] # 0 =>
            \E j \in i .. Len(wal) : wal[j][r] # 0 /\ Holds(r, wal[j][r])

\* While the check point that is named is the one logs are added to, the remote files
\* hold all that last_upload_seq says is uploaded, whatever uploads fail or are cut
\* short and however many writes overlap them.
SyncedIsHeld == current = stamp => Safe(uploaded)

\* run_upload returns Ok only when what was written before it is safe.
UploadedIsRestored ==
    [][Finish /\ current # 0 => Safe(loop.asked)]_vars

\* As long as logs are added to the check point that is named, every write gets
\* there, also those made during an upload, when no other write follows.
WritesGetUploaded ==
    \A n \in Writes : (current = stamp /\ Len(wal) >= n)
        ~> (current # stamp \/ Safe(n))
=============================================================================
