--------------------------- MODULE DeliveryTracker ---------------------------
(***************************************************************************)
(* The durable delivery-stage tracker (impl/python/naalp/delivery.py,      *)
(* class Tracker).  Every object moves through the stages 0..MaxStage; an  *)
(* advance appends a record, flushes and fsyncs before it returns the      *)
(* acknowledging update.  The last record of an object wins at a replay.   *)
(*                                                                         *)
(* Unlike the consume ledger the tracker never seeks: it writes where the  *)
(* replay ended.  Records that failed flushes left in the writer's buffer  *)
(* therefore queue up and go out together with the next one.  The lock     *)
(* makes one operation at a time.                                          *)
(***************************************************************************)
EXTENDS Integers, Sequences, FiniteSets, FiniteSetsExt, WalFile

CONSTANTS
  Objects,            \* object content ids
  MaxStage,           \* the last delivery stage
  MaxTrackerCrashes,  \* bound on process crashes
  MaxTrackerLosses,   \* bound on power losses
  MaxTrackerFaults    \* bound on I/O errors

ASSUME TrackerConstants ==
  /\ MaxStage \in Nat
  /\ MaxTrackerCrashes \in Nat /\ MaxTrackerLosses \in Nat /\ MaxTrackerFaults \in Nat

Stages == 0..MaxStage
Unseen == -1

\* The fields of a DeliveryUpdate that the tracker keeps.
Update == [obj : Objects, stage : Stages]

\* Bytes that do not frame and parse as an update.
TornUpdate == [obj |-> "torn", stage |-> Unseen]

ReadableLog(f) == \A k \in 1..Len(f) : f[k] # TornUpdate

\* Mutant: the stage is read one too high.
LastStageOffByOne(f, o) ==
  LET ks == {k \in 1..Len(f) : f[k].obj = o}
  IN  IF ks = {} THEN Unseen ELSE f[Max(ks)].stage + 1

\* The stage a replay of f ends with for object o: the last record wins.
LastStage(f, o) ==
  LET ks == {k \in 1..Len(f) : f[k].obj = o}
  IN  IF ks = {} THEN Unseen ELSE f[Max(ks)].stage

VARIABLES
  updates, durable,  \* the file: page cache and durable content
  tracker,           \* "closed" | "open" | "refused"
  current,           \* object -> stage in memory (_current)
  unflushed,         \* records in the writer's buffer, oldest first
  writeAt,           \* where in the file the buffer goes
  step,              \* step of the advance that holds the lock, "idle" if none
  update,            \* the update that advance persists
  reported,          \* history: object -> stage of the last update returned
  persisted,         \* history: object -> stage of the last update returned after a write
  trackerCrashes, trackerLosses, trackerFaults

trackerFile == <<updates, durable>>
trackerHistory == <<reported, persisted>>
trackerCounters == <<trackerCrashes, trackerLosses, trackerFaults>>
trackervars == <<trackerFile, tracker, current, unflushed, writeAt, step, update,
                 trackerHistory, trackerCounters>>

TrackerInit ==
  /\ updates = << >> /\ durable = << >>
  /\ tracker = "closed"
  /\ current = [o \in Objects |-> Unseen]
  /\ unflushed = << >> /\ writeAt = 0
  /\ step = "idle" /\ update = TornUpdate
  /\ reported = [o \in Objects |-> Unseen] /\ persisted = reported
  /\ trackerCrashes = 0 /\ trackerLosses = 0 /\ trackerFaults = 0

\* Mutant: the tracker writes from the start of the file.
ReplayEndStart(f) == 0

\* The file position after a replay of f.
ReplayEnd(f) == Len(f)

\* open_tracker: replay, or Malformed for a log with an unreadable record.
OpenTracker ==
  /\ tracker # "open"
  /\ IF ReadableLog(updates)
       THEN /\ tracker' = "open"
            /\ current' = [o \in Objects |-> LastStage(updates, o)]
            /\ writeAt' = ReplayEnd(updates)
       ELSE tracker' = "refused" /\ UNCHANGED <<current, writeAt>>
  /\ UNCHANGED <<trackerFile, unflushed, step, update, trackerHistory, trackerCounters>>

\* Mutant: a regression is not refused.
LaterAlways(o, s) == current[o] # s

\* advance persists a stage after the current one.
Later(o, s) == s > current[o]

\* advance: StageOutOfOrder for a regression; the current stage is acknowledged
\* again without a write; a later stage goes into the buffer.
Advance(o, s) ==
  /\ tracker = "open" /\ step = "idle"
  /\ IF Later(o, s)
       THEN /\ update' = [obj |-> o, stage |-> s]
            /\ unflushed' = Append(unflushed, update')
            /\ step' = "flush"
            /\ UNCHANGED reported
       ELSE /\ reported' = IF s = current[o] THEN [reported EXCEPT ![o] = s] ELSE reported
            /\ UNCHANGED <<update, unflushed, step>>
  /\ UNCHANGED <<trackerFile, tracker, current, writeAt, persisted, trackerCounters>>

\* The file with the records rs written from position p on.
Written(f, p, rs) ==
  [k \in 1..(IF p + Len(rs) > Len(f) THEN p + Len(rs) ELSE Len(f)) |->
     IF k > p /\ k <= p + Len(rs) THEN rs[k - p] ELSE f[k]]

FlushUpdates ==
  /\ step = "flush"
  /\ updates' = Written(updates, writeAt, unflushed)
  /\ writeAt' = writeAt + Len(unflushed)
  /\ unflushed' = << >>
  /\ step' = "fsync"
  /\ UNCHANGED <<durable, tracker, current, update, trackerHistory, trackerCounters>>

\* Mutant: the fsync is missing.
SyncedNot(f, d) == d

\* The durable content after an fsync of a file f whose durable content was d.
Synced(f, d) == f

FsyncUpdates ==
  /\ step = "fsync"
  /\ durable' = Synced(updates, durable)
  /\ step' = "ack"
  /\ UNCHANGED <<updates, tracker, current, unflushed, writeAt, update,
                 trackerHistory, trackerCounters>>

ReturnUpdate ==
  /\ step = "ack"
  /\ current' = [current EXCEPT ![update.obj] = update.stage]
  /\ reported' = [reported EXCEPT ![update.obj] = update.stage]
  /\ persisted' = [persisted EXCEPT ![update.obj] = update.stage]
  /\ step' = "idle" /\ update' = TornUpdate
  /\ UNCHANGED <<trackerFile, tracker, unflushed, writeAt, trackerCounters>>

\* What a failed flush can leave: some of the buffered records written, the next
\* one perhaps in part; the rest stays in the buffer.
FlushFails ==
  \E n \in 0..(Len(unflushed) - 1) :
    /\ updates' \in {Written(updates, writeAt, SubSeq(unflushed, 1, n)),
                     Written(updates, writeAt, Append(SubSeq(unflushed, 1, n), TornUpdate))}
    /\ writeAt' = writeAt + n
    /\ unflushed' = SubSeq(unflushed, n + 1, Len(unflushed))

\* flush or fsync raises OSError; the memory is unchanged.
AdvanceFails ==
  /\ trackerFaults < MaxTrackerFaults
  /\ trackerFaults' = trackerFaults + 1
  /\ \/ step = "flush" /\ FlushFails
     \/ step = "fsync" /\ UNCHANGED <<updates, writeAt, unflushed>>
  /\ step' = "idle" /\ update' = TornUpdate
  /\ UNCHANGED <<durable, tracker, current, trackerHistory, trackerCrashes, trackerLosses>>

StopTracker ==
  /\ tracker' = "closed"
  /\ current' = [o \in Objects |-> Unseen]
  /\ unflushed' = << >> /\ writeAt' = 0
  /\ step' = "idle" /\ update' = TornUpdate
  /\ UNCHANGED trackerHistory

\* close flushes what earlier failed flushes left behind; if that fails too, the
\* records are gone.
CloseTracker ==
  /\ tracker = "open" /\ step = "idle"
  /\ \/ updates' = Written(updates, writeAt, unflushed) /\ UNCHANGED trackerFaults
     \/ /\ unflushed # << >> /\ trackerFaults < MaxTrackerFaults
        /\ trackerFaults' = trackerFaults + 1
        /\ updates' \in {updates, Written(updates, writeAt, <<TornUpdate>>)}
  /\ StopTracker
  /\ UNCHANGED <<durable, trackerCrashes, trackerLosses>>

TrackerCrash ==
  /\ tracker = "open" /\ trackerCrashes < MaxTrackerCrashes
  /\ trackerCrashes' = trackerCrashes + 1
  /\ StopTracker
  /\ UNCHANGED <<trackerFile, trackerLosses, trackerFaults>>

TrackerPowerLoss ==
  /\ trackerLosses < MaxTrackerLosses
  /\ trackerLosses' = trackerLosses + 1
  /\ updates' \in AfterPowerLoss(durable, updates, TornUpdate)
  /\ durable' = updates'
  /\ StopTracker
  /\ UNCHANGED <<trackerCrashes, trackerFaults>>

TrackerNext ==
  \/ OpenTracker \/ CloseTracker
  \/ \E o \in Objects, s \in Stages : Advance(o, s)
  \/ FlushUpdates \/ FsyncUpdates \/ ReturnUpdate
  \/ AdvanceFails \/ TrackerCrash \/ TrackerPowerLoss

TrackerSpec == TrackerInit /\ [][TrackerNext]_trackervars

(***************************************************************************)
(* Properties                                                              *)
(***************************************************************************)
UpdateCell == Update \cup {TornUpdate}

\* Types: every stage in memory and in the file is a delivery stage; a replay
\* yields nothing else.
TrackerTypeOK ==
  /\ updates \in Seq(UpdateCell) /\ durable \in Seq(UpdateCell)
  /\ tracker \in {"closed", "open", "refused"}
  /\ current \in [Objects -> Stages \cup {Unseen}]
  /\ unflushed \in Seq(Update) /\ writeAt \in Nat
  /\ step \in {"idle", "flush", "fsync", "ack"}
  /\ update \in UpdateCell
  /\ reported \in [Objects -> Stages \cup {Unseen}]
  /\ persisted \in [Objects -> Stages \cup {Unseen}]
  /\ trackerCrashes \in 0..MaxTrackerCrashes
  /\ trackerLosses \in 0..MaxTrackerLosses
  /\ trackerFaults \in 0..MaxTrackerFaults

\* A crash after the acknowledgement of a written stage loses nothing: an open
\* tracker is never behind it, whatever failed in between.
PersistedStageKept ==
  tracker = "open" => \A o \in Objects : current[o] >= persisted[o]

\* The stages that are written and acknowledged for an object never go back to
\* an earlier one, restarts and repeated advances included.
PersistedMonotone ==
  [][\A o \in Objects : persisted'[o] >= persisted[o]]_trackervars

\* No step alters or drops a record that an fsync has made durable.
UpdatesKept ==
  [][\A k \in 1..Len(durable) : k <= Len(updates') /\ updates'[k] = durable[k]]_trackervars

\* The same for every acknowledgement, those of a repeated report included.
AckedStageKept ==
  tracker = "open" => \A o \in Objects : current[o] >= reported[o]

(* A stage that was acknowledged after its write is found again after every  *)
(* restart that succeeds (delivery.Tracker.advance, _replay).                *)
TrackerKeeps ==
  /\ TrackerTypeOK
  /\ PersistedStageKept
==============================================================================
