---------------------------- MODULE WorkflowGate -----------------------------
(***************************************************************************)
(* The durable workflow gate: a task is created behind an input or an      *)
(* approval gate, passes it, and only then runs.  Every status is appended *)
(* to a write-ahead log before it is acknowledged; opening the log rebuilds*)
(* the statuses, the last record of a task winning.                        *)
(*                                                                         *)
(* Two ports are modelled.  "python" (impl/python/naalp/channels.py):      *)
(* buffered writes, and an open that refuses a log with an unreadable      *)
(* record.  "go" (impl/go/channels/channels.go): unbuffered writes, and an *)
(* open that cuts the log at the first unreadable record.  The lock makes  *)
(* one operation at a time, so one operation in flight is enough.          *)
(***************************************************************************)
EXTENDS Integers, Sequences, FiniteSets, FiniteSetsExt, WalFile

CONSTANTS
  Tasks,        \* task names
  MaxCrashes,   \* port -> bound on process crashes
  MaxLosses,    \* port -> bound on power losses
  MaxFaults     \* port -> bound on I/O errors

Ports == {"python", "go"}

ASSUME GateConstants ==
  /\ MaxCrashes \in [Ports -> Nat]
  /\ MaxLosses \in [Ports -> Nat]
  /\ MaxFaults \in [Ports -> Nat]

Waiting == {"awaiting-input", "awaiting-approval"}
Passed == {"input-supplied", "approved"}
Statuses == Waiting \cup Passed \cup {"running"}

\* How far a status is along the gate; an unknown task is at 0.
Rank(s) == CASE s \in Waiting -> 1 [] s \in Passed -> 2 [] s = "running" -> 3 [] OTHER -> 0

Record == [task : Tasks, status : Statuses]

\* Bytes that do not frame a record (a short write, a lost page).
Torn == [task |-> "torn", status |-> "torn"]

Empty == [rec |-> Torn, at |-> 0]

Flushed(f, b) == IF b = Empty THEN f ELSE WriteAt(f, b.at, b.rec)

Readable(f) == \A k \in 1..Len(f) : f[k] # Torn

\* Mutant: no truncation at the first unreadable record.
ReadablePartWhole(f) == f

\* The records before the first unreadable one: where the Go replay truncates.
ReadablePart(f) ==
  LET bad == {k \in 1..Len(f) : f[k] = Torn}
  IN  IF bad = {} THEN f ELSE SubSeq(f, 1, Min(bad) - 1)

\* Mutant: the first record of a task wins.
FirstStatus(f, t) ==
  LET ks == {k \in 1..Len(f) : f[k].task = t}
  IN  IF ks = {} THEN "unknown" ELSE f[Min(ks)].status

\* Mutant: the two fields of a record are read in the wrong order.
LastStatusSwapped(f, t) ==
  LET ks == {k \in 1..Len(f) : f[k].task = t}
  IN  IF ks = {} THEN "unknown" ELSE f[Max(ks)].task

\* The status a replay of f ends with for task t: the last record wins.
LastStatus(f, t) ==
  LET ks == {k \in 1..Len(f) : f[k].task = t}
  IN  IF ks = {} THEN "unknown" ELSE f[Max(ks)].status

VARIABLES
  port,         \* the implementation that runs: it never changes
  log, disk,    \* the file: page cache and durable content
  gate,         \* "closed" | "open" | "refused"
  status,       \* task -> its status in memory, "unknown" if none
  buf,          \* the write buffer
  pc,           \* step of the operation that holds the lock, "idle" if none
  pending,      \* the record that operation persists
  answer,       \* how the last operation ended
  acked,        \* history: task -> last status acknowledged to a caller
  supplied,     \* history: tasks for which supply_input passed its guard
  crashes, losses, faults

file == <<log, disk>>
history == <<acked, supplied>>
counters == <<crashes, losses, faults>>
gatevars == <<port, log, disk, gate, status, buf, pc, pending, answer, acked,
              supplied, crashes, losses, faults>>

GateInit ==
  /\ port \in Ports
  /\ log = << >> /\ disk = << >>
  /\ gate = "closed"
  /\ status = [t \in Tasks |-> "unknown"]
  /\ buf = Empty
  /\ pc = "idle" /\ pending = Torn /\ answer = "none"
  /\ acked = [t \in Tasks |-> "unknown"]
  /\ supplied = {}
  /\ crashes = 0 /\ losses = 0 /\ faults = 0

\* WorkflowGate.__init__ and _replay / OpenWorkflowGate and replay.
OpenGate ==
  /\ gate # "open"
  /\ LET f == IF port = "go" THEN ReadablePart(log) ELSE log IN
     IF Readable(f)
       THEN /\ gate' = "open"
            /\ status' = [t \in Tasks |-> LastStatus(f, t)]
            /\ log' = f
       ELSE /\ gate' = "refused"
            /\ UNCHANGED <<status, log>>
  /\ answer' = "none"
  /\ UNCHANGED <<disk, buf, pc, pending, history, counters>>

\* The operation takes the lock and goes on to persist status s for t.
Persist(t, s) ==
  /\ pending' = [task |-> t, status |-> s]
  /\ pc' = "seek"
  /\ answer' = "none"

Refuse(r) == answer' = r /\ UNCHANGED <<pc, pending>>

\* Mutant: an existing task may be created again.
CreateAgain(t, needs_approval) ==
  /\ gate = "open" /\ pc = "idle"
  /\ Persist(t, IF needs_approval THEN "awaiting-approval" ELSE "awaiting-input")
  /\ UNCHANGED <<file, gate, status, buf, history, counters>>

Create(t, needs_approval) ==
  /\ gate = "open" /\ pc = "idle"
  /\ IF status[t] # "unknown" THEN Refuse("TaskStateError")
     ELSE Persist(t, IF needs_approval THEN "awaiting-approval" ELSE "awaiting-input")
  /\ UNCHANGED <<file, gate, status, buf, history, counters>>

SupplyInput(t) ==
  /\ gate = "open" /\ pc = "idle"
  /\ IF status[t] \in Waiting
       THEN /\ Persist(t, IF status[t] = "awaiting-input" THEN "input-supplied" ELSE "approved")
            /\ supplied' = supplied \cup {t}
       ELSE Refuse("TaskStateError") /\ UNCHANGED supplied
  /\ UNCHANGED <<file, gate, status, buf, acked, counters>>

\* Mutant: a known task may run whatever its status.
RunUngated(t) ==
  /\ gate = "open" /\ pc = "idle"
  /\ status[t] # "unknown" /\ Persist(t, "running")
  /\ UNCHANGED <<file, gate, status, buf, history, counters>>

Run(t) ==
  /\ gate = "open" /\ pc = "idle"
  /\ IF status[t] \in Passed THEN Persist(t, "running")
     ELSE Refuse(IF status[t] \in Waiting THEN "InputGateBypass" ELSE "TaskStateError")
  /\ UNCHANGED <<file, gate, status, buf, history, counters>>

\* _persist, first step: the seek flushes a record kept by an earlier failed
\* flush (python), and the record is handed to the writer.
SeekWrite ==
  /\ pc = "seek"
  /\ log' = Flushed(log, buf)
  /\ buf' = [rec |-> pending, at |-> Len(log')]
  /\ pc' = "flush"
  /\ UNCHANGED <<disk, gate, status, pending, answer, history, counters>>

Flush ==
  /\ pc = "flush"
  /\ log' = Flushed(log, buf)
  /\ buf' = Empty
  /\ pc' = "fsync"
  /\ UNCHANGED <<disk, gate, status, pending, answer, history, counters>>

\* Mutant: the fsync is missing.
FsyncMissing ==
  /\ pc = "fsync"
  /\ pc' = "ack"
  /\ UNCHANGED <<file, gate, status, buf, pending, answer, history, counters>>

Fsync ==
  /\ pc = "fsync"
  /\ disk' = log
  /\ pc' = "ack"
  /\ UNCHANGED <<log, gate, status, buf, pending, answer, history, counters>>

Done(r) == pc' = "idle" /\ pending' = Torn /\ answer' = r

\* The status is updated in memory and the caller gets its answer.
Ack ==
  /\ pc = "ack"
  /\ status' = [status EXCEPT ![pending.task] = pending.status]
  /\ acked' = [acked EXCEPT ![pending.task] = pending.status]
  /\ Done("ok")
  /\ UNCHANGED <<file, gate, buf, supplied, counters>>

\* What a write that fails can leave in the file: nothing, or part of the record.
Fragments == {log, WriteAt(log, buf.at, Torn)}

\* An I/O error ends the operation.  A failed write may leave part of the record
\* in the file; Python's buffer keeps the record and completes it later, Go's
\* write is over and the fragment stays where it is.
Fault ==
  /\ faults < MaxFaults[port]
  /\ faults' = faults + 1
  /\ \/ /\ pc = "flush" \/ (pc = "seek" /\ buf # Empty)
        /\ log' \in Fragments
        /\ buf' = IF port = "python" THEN buf ELSE Empty
     \/ pc = "fsync" /\ UNCHANGED <<log, buf>>
  /\ Done("OSError")
  /\ UNCHANGED <<disk, gate, status, history, crashes, losses>>

Stop == gate' = "closed" /\ buf' = Empty /\ Done("none") /\ UNCHANGED <<status, history>>

\* close flushes a record kept by an earlier failed flush; if that fails too,
\* the record is gone.
Close ==
  /\ gate = "open" /\ pc = "idle"
  /\ \/ log' = Flushed(log, buf) /\ UNCHANGED faults
     \/ /\ buf # Empty /\ faults < MaxFaults[port]
        /\ faults' = faults + 1
        /\ log' \in Fragments
  /\ Stop
  /\ UNCHANGED <<disk, crashes, losses>>

ProcessCrash ==
  /\ gate = "open" /\ crashes < MaxCrashes[port]
  /\ crashes' = crashes + 1
  /\ Stop
  /\ UNCHANGED <<file, losses, faults>>

\* The machine dies.  A truncation that no fsync has followed may be undone.
PowerLoss ==
  /\ losses < MaxLosses[port]
  /\ losses' = losses + 1
  /\ \E d \in {disk, SubSeq(disk, 1, Min({Len(disk), Len(log)}))} :
       log' \in AfterPowerLoss(d, log \o SubSeq(d, Len(log) + 1, Len(d)), Torn)
  /\ disk' = log'
  /\ Stop
  /\ UNCHANGED <<crashes, faults>>

GateNext ==
  /\ \/ OpenGate \/ Close
     \/ \E t \in Tasks : \/ \E needs_approval \in BOOLEAN : Create(t, needs_approval)
                         \/ SupplyInput(t) \/ Run(t)
     \/ SeekWrite \/ Flush \/ Fsync \/ Ack
     \/ Fault \/ ProcessCrash \/ PowerLoss
  /\ UNCHANGED port

GateSpec == GateInit /\ [][GateNext]_gatevars

(***************************************************************************)
(* Properties                                                              *)
(***************************************************************************)
Cell == Record \cup {Torn}

\* Types: every status in memory, in the file and acknowledged is one the gate
\* writes; a replay yields nothing else.
GateTypeOK ==
  /\ port \in Ports
  /\ log \in Seq(Cell) /\ disk \in Seq(Cell)
  /\ gate \in {"closed", "open", "refused"}
  /\ status \in [Tasks -> Statuses \cup {"unknown"}]
  /\ buf \in [rec : Cell, at : Nat]
  /\ pc \in {"idle", "seek", "flush", "fsync", "ack"}
  /\ pending \in Cell
  /\ acked \in [Tasks -> Statuses \cup {"unknown"}]
  /\ supplied \subseteq Tasks
  /\ crashes \in 0..MaxCrashes[port]
  /\ losses \in 0..MaxLosses[port]
  /\ faults \in 0..MaxFaults[port]

\* No crash, power loss or I/O error brings a task to "running" for which
\* nobody ever supplied the input or the approval.
GateNeverBypassed ==
  gate = "open" => \A t \in Tasks : status[t] = "running" => t \in supplied

\* A status that was acknowledged is never lost: through every failure and
\* reopening the gate knows the task to be at least as far.
AckedSurvives ==
  gate = "open" => \A t \in Tasks : Rank(status[t]) >= Rank(acked[t])

\* What a replay of the disk finds is never behind an acknowledged status,
\* whatever is appended after an error and whatever an open cuts off.  A Python
\* log, which is never cut, does not even lose a durable status that nobody was
\* told of; Go's can, when power losses bring back what an open had cut off.
DurableForward ==
  [][\A t \in Tasks :
       LET found == Rank(LastStatus(ReadablePart(disk'), t)) IN
       /\ found >= Rank(acked[t])
       /\ port = "python" => found >= Rank(LastStatus(ReadablePart(disk), t))]_gatevars

\* An open of the Go gate after a crash or a power loss always recovers it, it
\* never refuses the log.
CrashRecovers == port = "go" => gate # "refused"

(* The gate holds through failures: no task is past a gate nobody opened, no *)
(* status a caller was told is lost when the gate is open again, and the Go  *)
(* gate always opens again (channels.WorkflowGate.run, _persist, _replay).   *)
GateHolds ==
  /\ GateTypeOK
  /\ GateNeverBypassed
  /\ AckedSurvives
  /\ CrashRecovers
==============================================================================
