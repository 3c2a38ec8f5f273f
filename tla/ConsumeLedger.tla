---------------------------- MODULE ConsumeLedger ----------------------------
(***************************************************************************)
(* The single-use consume ledger (impl/python/naalp/approval.py, class     *)
(* Ledger): an in-memory set of consumed approval ids, a chain head and a  *)
(* next sequence number, kept by each Ledger object and rebuilt from its   *)
(* write-ahead log when the log is opened.  An instance is one Ledger      *)
(* object in one process; its workers are the threads that share it.  All  *)
(* instances name the same path.                                           *)
(*                                                                         *)
(* A consume is four steps that a crash, an I/O error or another instance  *)
(* can come between: the seek to the end of the file and the write into    *)
(* the user-space buffer, the flush to the kernel, the fsync, and the      *)
(* update of the memory that precedes the return.  Threads of one instance *)
(* are serialised by its lock; nothing serialises two instances.           *)
(***************************************************************************)
EXTENDS Integers, Sequences, FiniteSets, WalFile

CONSTANTS
  Instances,    \* Ledger objects open on the one path
  Workers,      \* threads that call consume
  InstOf,       \* the Ledger object each thread uses
  Approvals,    \* approval content ids
  Named,        \* instances opened with an authority name (open_ledger)
  Signed,       \* instances opened with a receipt key (open_ledger_signed)
  AudienceOf,   \* the audience of the object each approval belongs to
  None,         \* no approval, no worker, no record
  MaxCrashes,   \* bound on process crashes
  MaxLosses,    \* bound on power losses
  MaxFaults     \* bound on OSErrors raised by the file

ASSUME LedgerConstants ==
  /\ InstOf \in [Workers -> Instances]
  /\ AudienceOf \in [Approvals -> Instances \cup {None}]
  /\ None \notin Approvals \cup Workers \cup Instances
  /\ MaxCrashes \in Nat /\ MaxLosses \in Nat /\ MaxFaults \in Nat

\* A chain head commits to the whole log behind it: SHA-384 is taken to be
\* injective, so a head is the sequence of entries that were hashed into it.
Heads == Seq(Nat \X Approvals \X Workers)

Genesis == << >>

\* LedgerEntry.
Entry == [seq : Nat, prev : Heads, aid : Approvals, by : Workers]

\* The cell that stands for bytes that do not parse as an entry.
Torn == [seq |-> -1, prev |-> Genesis, aid |-> None, by |-> None]

NoEntry == Torn

Cell == Entry \cup {Torn}

\* The user-space write buffer: at most one record, and where it will go.
Buffer == [rec : Cell, at : Nat]

Empty == [rec |-> Torn, at |-> 0]

\* The file once a buffer has been flushed to it.
Flushed(f, b) == IF b = Empty THEN f ELSE WriteAt(f, b.at, b.rec)

\* _chain_next: the head after an entry, whose body carries the previous head.
ChainNext(e) == Append(e.prev, <<e.seq, e.aid, e.by>>)

\* The head that _replay has computed before it reads record k.
HeadBefore(f, k) == IF k = 1 THEN Genesis ELSE ChainNext(f[k - 1])

\* _replay accepts a file when every record parses, carries its own position
\* and names the head of the record before it.
Replays(f) == \A k \in 1..Len(f) : f[k].seq = k - 1 /\ f[k].prev = HeadBefore(f, k)

\* Mutant: the replay checks the chain and records no id.
AidsForgotten(f) == {}

\* The ids a replay puts into _consumed.
Aids(f) == {f[k].aid : k \in 1..Len(f)}

\* Mutant: the next sequence number is off by one after a replay.
ReplayedSeqOffByOne(f) == Len(f) - 1

\* The sequence number a replay ends with: the number of records read.
ReplayedSeq(f) == Len(f)

\* Mutant: no seek before the write.
EndOfStart(f) == 0

\* Where seek(0, SEEK_END) puts the next record.
EndOf(f) == Len(f)

\* Mutant: the fsync is missing.
SyncedNot(f, d) == d

\* The durable content after an fsync of a file f whose durable content was d.
Synced(f, d) == f

VARIABLES
  log,        \* the file as reads and writes see it
  disk,       \* the content the last fsync or power loss left durable
  status,     \* instance -> "closed" | "open" | "refused"
  consumed,   \* instance -> _consumed (its keys)
  head,       \* instance -> _head
  seq,        \* instance -> _seq
  lock,       \* instance -> worker that holds _lock, or None
  buf,        \* instance -> its write buffer
  pc,         \* worker -> next step of its call
  call,       \* worker -> operation and approval of its current or last call
  entry,      \* worker -> the entry its call is appending
  result,     \* worker -> how its last call returned
  acks,       \* history: the entries returned to callers, in order
  crashes, losses, faults

file == <<log, disk>>
memory == <<consumed, head, seq>>
threads == <<pc, call, entry, result>>
counters == <<crashes, losses, faults>>
vars == <<log, disk, status, consumed, head, seq, lock, buf,
          pc, call, entry, result, acks, crashes, losses, faults>>

Ops == {"consume", "consume_object", "consume_with_receipt"}
Results == {"none", "ok", "AlreadyConsumed", "LedgerUnsigned", "WrongAudience",
            "OSError", "ValueError"}
Critical == {"seek", "flush", "fsync", "ack"}

Init ==
  /\ log = << >> /\ disk = << >>
  /\ status = [i \in Instances |-> "closed"]
  /\ consumed = [i \in Instances |-> {}]
  /\ head = [i \in Instances |-> Genesis]
  /\ seq = [i \in Instances |-> 0]
  /\ lock = [i \in Instances |-> None]
  /\ buf = [i \in Instances |-> Empty]
  /\ pc = [w \in Workers |-> "idle"]
  /\ call = [w \in Workers |-> [op |-> "consume", aid |-> None]]
  /\ entry = [w \in Workers |-> NoEntry]
  /\ result = [w \in Workers |-> "none"]
  /\ acks = << >>
  /\ crashes = 0 /\ losses = 0 /\ faults = 0

\* Mutant: the lock is not a lock.
FreeAlways(i) == TRUE

\* `with self._lock` can be entered.
Free(i) == lock[i] = None

\* Leaving the `with`, by return or by exception.
Released(i) == [lock EXCEPT ![i] = None]

\* Mutant: the membership check is missing.
SpentNever(i, a) == FALSE

\* `aid in self._consumed`.
Spent(i, a) == a \in consumed[i]

\* Mutant: the head is not advanced with the sequence number.
AdvancedHeadNot(i, e) == head[i]

AdvancedHead(i, e) == ChainNext(e)

\* Mutant: the sequence number is not advanced with the head.
AdvancedSeqNot(i) == seq[i]

AdvancedSeq(i) == seq[i] + 1

(***************************************************************************)
(* Opening and closing                                                     *)
(***************************************************************************)
\* open_ledger / open_ledger_signed: replay the file; a log that does not
\* chain raises LedgerCorrupt and no Ledger is returned.
OpenLedger(i) ==
  /\ status[i] # "open"
  /\ IF Replays(log)
       THEN /\ status' = [status EXCEPT ![i] = "open"]
            /\ consumed' = [consumed EXCEPT ![i] = Aids(log)]
            /\ head' = [head EXCEPT ![i] = HeadBefore(log, Len(log) + 1)]
            /\ seq' = [seq EXCEPT ![i] = ReplayedSeq(log)]
       ELSE /\ status' = [status EXCEPT ![i] = "refused"]
            /\ UNCHANGED memory
  /\ UNCHANGED <<file, lock, buf, threads, acks, counters>>

\* The memory of a Ledger object that no longer exists.
Forget(gone) ==
  /\ status' = [i \in Instances |-> IF i \in gone THEN "closed" ELSE status[i]]
  /\ consumed' = [i \in Instances |-> IF i \in gone THEN {} ELSE consumed[i]]
  /\ head' = [i \in Instances |-> IF i \in gone THEN Genesis ELSE head[i]]
  /\ seq' = [i \in Instances |-> IF i \in gone THEN 0 ELSE seq[i]]
  /\ lock' = [i \in Instances |-> IF i \in gone THEN None ELSE lock[i]]
  /\ buf' = [i \in Instances |-> IF i \in gone THEN Empty ELSE buf[i]]

\* Its threads end their calls with result r.
EndCalls(gone, r) ==
  LET ended == {w \in Workers : InstOf[w] \in gone /\ pc[w] # "idle"} IN
  /\ pc' = [w \in Workers |-> IF w \in ended THEN "idle" ELSE pc[w]]
  /\ entry' = [w \in Workers |-> IF w \in ended THEN NoEntry ELSE entry[w]]
  /\ result' = [w \in Workers |-> IF w \in ended THEN r ELSE result[w]]
  /\ UNCHANGED call

\* close: takes the lock, flushes what an earlier failed flush left in the
\* buffer, closes the file (if that flush fails, the buffer is dropped).
\* Threads still waiting for the lock then find the file closed.
Close(i) ==
  /\ status[i] = "open" /\ Free(i)
  /\ \/ log' = Flushed(log, buf[i]) /\ UNCHANGED faults
     \/ /\ buf[i] # Empty /\ faults < MaxFaults
        /\ faults' = faults + 1
        /\ log' \in {log, WriteAt(log, buf[i].at, Torn)}
  /\ Forget({i})
  /\ EndCalls({i}, "ValueError")
  /\ UNCHANGED <<disk, acks, crashes, losses>>

(***************************************************************************)
(* Consuming                                                               *)
(***************************************************************************)
Return(w, r) ==
  /\ pc' = [pc EXCEPT ![w] = "idle"]
  /\ entry' = [entry EXCEPT ![w] = NoEntry]
  /\ result' = [result EXCEPT ![w] = r]

\* The checks consume_object makes before consume: an unnamed ledger, and an
\* object whose audience is not this ledger (check_audience), are refused.
ObjectRefusal(i, op, a) ==
  IF op # "consume_object" THEN "none"
  ELSE IF i \notin Named THEN "LedgerUnsigned"
  ELSE IF AudienceOf[a] # i THEN "WrongAudience"
  ELSE "none"

\* A thread calls one of the three consume operations.
Call(w, op, a) ==
  LET refusal == ObjectRefusal(InstOf[w], op, a) IN
  /\ pc[w] = "idle" /\ status[InstOf[w]] = "open"
  /\ call' = [call EXCEPT ![w] = [op |-> op, aid |-> a]]
  /\ IF refusal # "none" THEN Return(w, refusal)
     ELSE /\ pc' = [pc EXCEPT ![w] = "lock"]
          /\ result' = [result EXCEPT ![w] = "none"]
          /\ UNCHANGED entry
  /\ UNCHANGED <<file, status, memory, lock, buf, acks, counters>>

\* The lock is taken.  consume_with_receipt first needs the receipt key; an id
\* already in _consumed loses; otherwise the entry is built from the memory.
Acquire(w) ==
  LET i == InstOf[w]
      a == call[w].aid IN
  /\ pc[w] = "lock" /\ Free(i)
  /\ IF call[w].op = "consume_with_receipt" /\ i \notin Signed
       THEN Return(w, "LedgerUnsigned") /\ UNCHANGED lock
     ELSE IF Spent(i, a)
       THEN Return(w, "AlreadyConsumed") /\ UNCHANGED lock
     ELSE /\ lock' = [lock EXCEPT ![i] = w]
          /\ pc' = [pc EXCEPT ![w] = "seek"]
          /\ entry' = [entry EXCEPT ![w] =
                         [seq |-> seq[i], prev |-> head[i], aid |-> a, by |-> w]]
          /\ UNCHANGED result
  /\ UNCHANGED <<file, status, memory, buf, call, acks, counters>>

\* seek(0, SEEK_END) first flushes a record that an earlier failed flush left
\* behind; then write() puts the new record into the buffer.
SeekWrite(w) ==
  LET i == InstOf[w] IN
  /\ pc[w] = "seek"
  /\ log' = Flushed(log, buf[i])
  /\ buf' = [buf EXCEPT ![i] = [rec |-> entry[w], at |-> EndOf(log')]]
  /\ pc' = [pc EXCEPT ![w] = "flush"]
  /\ UNCHANGED <<disk, status, memory, lock, call, entry, result, acks, counters>>

\* flush: the record reaches the page cache at the position seek found.
Flush(w) ==
  LET i == InstOf[w] IN
  /\ pc[w] = "flush"
  /\ log' = Flushed(log, buf[i])
  /\ buf' = [buf EXCEPT ![i] = Empty]
  /\ pc' = [pc EXCEPT ![w] = "fsync"]
  /\ UNCHANGED <<disk, status, memory, lock, call, entry, result, acks, counters>>

\* Mutant: flush and fsync in a retry loop whose exit condition is wrong.
FsyncRetried(w) ==
  /\ pc[w] = "fsync"
  /\ disk' = Synced(log, disk)
  /\ pc' = [pc EXCEPT ![w] = "flush"]
  /\ UNCHANGED <<log, status, memory, lock, buf, call, entry, result, acks, counters>>

\* os.fsync: everything written to the file so far becomes durable.
Fsync(w) ==
  /\ pc[w] = "fsync"
  /\ disk' = Synced(log, disk)
  /\ pc' = [pc EXCEPT ![w] = "ack"]
  /\ UNCHANGED <<log, status, memory, lock, buf, call, entry, result, acks, counters>>

\* _consumed, _head and _seq are updated, the lock is released, the entry (and
\* the receipt signed over its position) is returned to the caller.
Ack(w) ==
  LET i == InstOf[w] IN
  /\ pc[w] = "ack"
  /\ consumed' = [consumed EXCEPT ![i] = @ \cup {entry[w].aid}]
  /\ head' = [head EXCEPT ![i] = AdvancedHead(i, entry[w])]
  /\ seq' = [seq EXCEPT ![i] = AdvancedSeq(i)]
  /\ lock' = Released(i)
  /\ acks' = Append(acks, entry[w])
  /\ Return(w, "ok")
  /\ UNCHANGED <<file, status, buf, call, counters>>

(***************************************************************************)
(* Failures                                                                *)
(***************************************************************************)
\* seek, flush or fsync raises OSError; the `with` releases the lock and the
\* memory is as it was.  A flush that fails keeps its record in the buffer and
\* may have written part of it; a failed fsync leaves the record in the cache.
Fault(w) ==
  LET i == InstOf[w]
      unflushed == pc[w] = "flush" \/ (pc[w] = "seek" /\ buf[i] # Empty) IN
  /\ faults < MaxFaults
  /\ unflushed \/ pc[w] = "fsync"
  /\ log' \in {log} \cup (IF unflushed THEN {WriteAt(log, buf[i].at, Torn)} ELSE {})
  /\ lock' = Released(i)
  /\ faults' = faults + 1
  /\ Return(w, "OSError")
  /\ UNCHANGED <<disk, status, memory, buf, call, acks, crashes, losses>>

\* A process dies: its buffers and memory are gone, the page cache is not.
ProcessCrash(i) ==
  /\ status[i] = "open" /\ crashes < MaxCrashes
  /\ crashes' = crashes + 1
  /\ Forget({i})
  /\ EndCalls({i}, "none")
  /\ UNCHANGED <<file, acks, losses, faults>>

\* The machine dies: what was not fsynced may be lost, or torn.
PowerLoss ==
  /\ losses < MaxLosses
  /\ losses' = losses + 1
  /\ log' \in AfterPowerLoss(disk, log, Torn)
  /\ disk' = log'
  /\ Forget(Instances)
  /\ EndCalls(Instances, "none")
  /\ UNCHANGED <<acks, crashes, faults>>

Step(w) == Acquire(w) \/ SeekWrite(w) \/ Flush(w) \/ Fsync(w) \/ Ack(w)

Next ==
  \/ \E i \in Instances : OpenLedger(i) \/ Close(i) \/ ProcessCrash(i)
  \/ \E w \in Workers : \E op \in Ops, a \in Approvals : Call(w, op, a)
  \/ \E w \in Workers : Step(w) \/ Fault(w)
  \/ PowerLoss

Spec == Init /\ [][Next]_vars

\* A thread that holds the lock keeps running: nothing in a consume blocks once
\* the lock is taken.
Fairness == \A w \in Workers : WF_vars(SeekWrite(w) \/ Flush(w) \/ Fsync(w) \/ Ack(w))

FairSpec == Spec /\ Fairness

(***************************************************************************)
(* Properties                                                              *)
(***************************************************************************)
\* Types: positions, heads and file cells stay what consume and _replay compute
\* with, and a call in progress has the approval and the entry it needs.
TypeOK ==
  /\ log \in Seq(Cell) /\ disk \in Seq(Cell)
  /\ status \in [Instances -> {"closed", "open", "refused"}]
  /\ consumed \in [Instances -> SUBSET Approvals]
  /\ head \in [Instances -> Heads]
  /\ seq \in [Instances -> Nat]
  /\ lock \in [Instances -> Workers \cup {None}]
  /\ buf \in [Instances -> Buffer]
  /\ pc \in [Workers -> {"idle", "lock"} \cup Critical]
  /\ call \in [Workers -> [op : Ops, aid : Approvals \cup {None}]]
  /\ entry \in [Workers -> Cell]
  /\ result \in [Workers -> Results]
  /\ acks \in Seq(Entry)
  /\ crashes \in 0..MaxCrashes /\ losses \in 0..MaxLosses /\ faults \in 0..MaxFaults
  /\ \A w \in Workers : /\ pc[w] # "idle" => call[w].aid \in Approvals
                        /\ pc[w] \in Critical => entry[w] \in Entry

\* The file never shrinks below what is durable, nor below a buffer's position:
\* what type correctness needs of the file.
Bounded == /\ Len(disk) <= Len(log)
           /\ \A i \in Instances : buf[i].at <= Len(log)

\* One Ledger object on the path: the discipline the module's lock provides.
SingleWriter == \A i, j \in Instances : i = j

\* No approval is ever returned as consumed to two callers, whatever crashes,
\* power losses, I/O errors and reopenings come between the two consumes.
ExactlyOnce ==
  \A j, k \in 1..Len(acks) : acks[j].aid = acks[k].aid => j = k

\* Persist-before-ack: the entry a caller was given is on the disk, unchanged,
\* from the moment consume returns and through every later failure.
PersistBeforeAck ==
  \A j \in 1..Len(acks) : \E k \in 1..Len(disk) : disk[k] = acks[j]

\* The positions the ledger hands out (and signs into consume receipts) only go
\* forward, across restarts too, so no two receipts share one.
ForwardOnly ==
  \A j, k \in 1..Len(acks) : j < k => acks[j].seq < acks[k].seq

\* Without an I/O error and without a power loss the file always replays: no
\* interleaving of threads and no process crash leaves a log that the next
\* open refuses as LedgerCorrupt.
CleanLogReplays == faults = 0 /\ losses = 0 => Replays(log)

\* A race has a winner: as long as nothing fails, an id is refused with
\* AlreadyConsumed only when some caller was given its entry.
RefusedMeansSpent ==
  faults = 0 /\ losses = 0 /\ crashes = 0 =>
    \A w \in Workers : result[w] = "AlreadyConsumed" =>
      \E k \in 1..Len(acks) : acks[k].aid = call[w].aid

\* No step alters or drops a record that an fsync has made durable.
DurableKept == [][\A k \in 1..Len(disk) : k <= Len(log') /\ log'[k] = disk[k]]_vars

\* Every consume that took the lock gives it back, by returning or by raising.
LockReleased == \A i \in Instances : lock[i] # None ~> lock[i] = None

\* The acknowledged consumes implement the abstract single-use set.
AckedAids == [k \in 1..Len(acks) |-> acks[k].aid]
Abstract == INSTANCE SingleUse WITH spent <- AckedAids
ImplementsSingleUse == Abstract!Spec
(***************************************************************************)
(* The inductive invariant behind ExactlyOnce, PersistBeforeAck and        *)
(* ForwardOnly when the path has one Ledger object.                        *)
(***************************************************************************)
\* A thread in a call has an open ledger; inside the critical section it holds
\* the lock.
LockInv ==
  \A w \in Workers : /\ pc[w] # "idle" => status[InstOf[w]] = "open"
                     /\ pc[w] \in Critical => lock[InstOf[w]] = w

\* Durable records are the start of the file, and no buffered record is about to
\* be written over one.
FileInv ==
  /\ \A k \in 1..Len(disk) : log[k] = disk[k]
  /\ \A i \in Instances : buf[i] # Empty => Len(disk) <= buf[i].at

\* How far the append of the thread inside the critical section has come.
PendingInv ==
  \A w \in Workers :
    /\ pc[w] \in Critical => /\ entry[w].aid \notin consumed[InstOf[w]]
                             /\ entry[w].seq = seq[InstOf[w]]
    /\ pc[w] = "flush" => buf[InstOf[w]].rec = entry[w]
    /\ pc[w] \in {"fsync", "ack"} => buf[InstOf[w]] = Empty
    /\ pc[w] = "fsync" => \E k \in 1..Len(log) : log[k] = entry[w]
    /\ pc[w] = "ack" => \E k \in 1..Len(disk) : disk[k] = entry[w]

\* An open ledger remembers every acknowledged consume and is past its position.
MemoryInv ==
  \A i \in Instances : status[i] = "open" =>
    \A j \in 1..Len(acks) : acks[j].aid \in consumed[i] /\ acks[j].seq < seq[i]

SafeInv == LockInv /\ FileInv /\ PendingInv /\ MemoryInv
             /\ PersistBeforeAck /\ ExactlyOnce /\ ForwardOnly

(* No refusal without a cause: an open refuses no log that was written       *)
(* without a fault (Ledger._replay), and a consume refuses no id that was    *)
(* not returned to somebody before (AlreadyConsumed).                        *)
RefusesOnlyForCause ==
  /\ CleanLogReplays
  /\ RefusedMeansSpent
==============================================================================
