------------------------- MODULE ConsumeLedgerProofs -------------------------
(***************************************************************************)
(* Type correctness and single use of the consume ledger, for any number   *)
(* of threads, approvals, crashes, power losses and I/O errors.            *)
(***************************************************************************)
EXTENDS ConsumeLedger, TLAPS

(***************************************************************************)
(* Types                                                                   *)
(***************************************************************************)
LEMMA TornType == /\ Torn \in Cell /\ NoEntry \in Cell /\ Torn \notin Entry
                  /\ Genesis \in Heads /\ Empty \in Buffer /\ Empty.at = 0
  BY DEF Torn, NoEntry, Genesis, Heads, Entry, Cell, Empty, Buffer

LEMMA ChainNextType == ASSUME NEW e \in Entry PROVE ChainNext(e) \in Heads
  BY DEF ChainNext, Entry, Heads

\* A write at or before the end of a file yields a file that is no shorter.
LEMMA WriteAtType ==
  ASSUME NEW f \in Seq(Cell), NEW p \in Nat, NEW r \in Cell, p <= Len(f)
  PROVE  /\ WriteAt(f, p, r) \in Seq(Cell)
         /\ Len(WriteAt(f, p, r)) \in Len(f)..(Len(f) + 1)
         /\ p < Len(WriteAt(f, p, r))
         /\ \A k \in 1..p : WriteAt(f, p, r)[k] = f[k]
         /\ WriteAt(f, p, r)[p + 1] = r
  BY DEF WriteAt

\* The same for the torn record a failed flush may leave.
LEMMA TornWriteType ==
  ASSUME NEW f \in Seq(Cell), NEW p \in Nat, p <= Len(f),
         NEW g \in {f, WriteAt(f, p, Torn)}
  PROVE  /\ g \in Seq(Cell) /\ Len(g) \in Nat /\ Len(f) <= Len(g)
         /\ \A k \in 1..p : g[k] = f[k]
  <1>1. /\ WriteAt(f, p, Torn) \in Seq(Cell)
        /\ Len(WriteAt(f, p, Torn)) \in Len(f)..(Len(f) + 1)
        /\ \A k \in 1..p : WriteAt(f, p, Torn)[k] = f[k]
    BY WriteAtType, TornType
  <1> QED BY <1>1

LEMMA FlushedType ==
  ASSUME NEW f \in Seq(Cell), NEW b \in Buffer, b.at <= Len(f)
  PROVE  /\ Flushed(f, b) \in Seq(Cell)
         /\ Len(Flushed(f, b)) \in Nat
         /\ Len(f) <= Len(Flushed(f, b))
         /\ \A k \in 1..b.at : Flushed(f, b)[k] = f[k]
  <1>1. b.at \in Nat /\ b.rec \in Cell
    BY DEF Buffer
  <1>2. CASE b = Empty
    BY <1>1, <1>2 DEF Flushed
  <1>3. CASE b # Empty
    <2>1. Flushed(f, b) = WriteAt(f, b.at, b.rec)
      BY <1>3 DEF Flushed
    <2>2. /\ WriteAt(f, b.at, b.rec) \in Seq(Cell)
          /\ Len(WriteAt(f, b.at, b.rec)) \in Len(f)..(Len(f) + 1)
          /\ \A k \in 1..b.at : WriteAt(f, b.at, b.rec)[k] = f[k]
      BY <1>1, WriteAtType
    <2> QED BY <2>1, <2>2
  <1> QED BY <1>2, <1>3

\* A log that replays holds entries only, and each names an approval.
LEMMA ReplaysType ==
  ASSUME NEW f \in Seq(Cell), Replays(f)
  PROVE  /\ \A k \in 1..Len(f) : f[k] \in Entry
         /\ Aids(f) \in SUBSET Approvals
         /\ HeadBefore(f, Len(f) + 1) \in Heads
  <1>1. ASSUME NEW k \in 1..Len(f) PROVE f[k] \in Entry
    <2>1. f[k] \in Cell /\ f[k].seq = k - 1
      BY DEF Replays
    <2>2. f[k] # Torn
      BY <2>1 DEF Torn
    <2> QED BY <2>1, <2>2 DEF Cell
  <1>2. Aids(f) \in SUBSET Approvals
    BY <1>1 DEF Aids, Entry
  <1>3. HeadBefore(f, Len(f) + 1) \in Heads
    <2>1. CASE Len(f) = 0
      BY <2>1, TornType DEF HeadBefore
    <2>2. CASE Len(f) # 0
      <3>1. Len(f) \in 1..Len(f) /\ Len(f) + 1 # 1 /\ (Len(f) + 1) - 1 = Len(f)
        BY <2>2
      <3>2. ChainNext(f[Len(f)]) \in Heads
        BY <3>1, <1>1, ChainNextType
      <3> QED BY <3>1, <3>2 DEF HeadBefore
    <2> QED BY <2>1, <2>2
  <1> QED BY <1>1, <1>2, <1>3

\* Whatever a power loss leaves is a file that keeps every durable record, when
\* the durable records are a prefix of the cached ones.
LEMMA PowerLossType ==
  ASSUME NEW d \in Seq(Cell), NEW c \in Seq(Cell), Len(d) <= Len(c),
         NEW f \in AfterPowerLoss(d, c, Torn)
  PROVE  /\ f \in Seq(Cell) /\ Len(f) \in Len(d)..Len(c)
         /\ (\A k \in 1..Len(d) : c[k] = d[k]) => \A k \in 1..Len(d) : f[k] = d[k]
  <1>1. PICK n \in Len(d)..Len(c) : \E kept \in [1..n -> BOOLEAN] :
          f = [k \in 1..n |-> IF kept[k] THEN c[k] ELSE IF k <= Len(d) THEN d[k] ELSE Torn]
    BY DEF AfterPowerLoss
  <1>2. PICK kept \in [1..n -> BOOLEAN] :
          f = [k \in 1..n |-> IF kept[k] THEN c[k] ELSE IF k <= Len(d) THEN d[k] ELSE Torn]
    BY <1>1
  <1>3. n \in Nat /\ Len(d) \in Nat /\ Len(c) \in Nat /\ n <= Len(c) /\ Len(d) <= n
    BY <1>1
  <1>4. \A k \in 1..n : (IF kept[k] THEN c[k] ELSE IF k <= Len(d) THEN d[k] ELSE Torn) \in Cell
    BY <1>3, TornType
  <1>5. f \in Seq(Cell) /\ Len(f) = n
    BY <1>2, <1>3, <1>4
  <1> QED BY <1>2, <1>3, <1>5

TypeInv == TypeOK /\ Bounded

\* The typed pieces of TypeInv that the steps below use one at a time.
LEMMA InitTypes == Init => TypeInv
  BY TornType, LedgerConstants DEF Init, TypeInv, TypeOK, Bounded, Critical, Ops, Results

\* A thread inside a call has an approval, and inside the lock an entry.
LEMMA CallTyped ==
  ASSUME TypeInv, NEW w \in Workers
  PROVE  /\ InstOf[w] \in Instances
         /\ pc[w] # "idle" => call[w].aid \in Approvals
         /\ pc[w] \in {"seek", "flush", "fsync", "ack"} => entry[w] \in Entry
  <1>1. InstOf[w] \in Instances
    BY LedgerConstants
  <1>2. \A v \in Workers : /\ pc[v] # "idle" => call[v].aid \in Approvals
                           /\ pc[v] \in Critical => entry[v] \in Entry
    BY DEF TypeInv, TypeOK
  <1>3. pc[w] # "idle" => call[w].aid \in Approvals
    BY <1>2
  <1>4. pc[w] \in {"seek", "flush", "fsync", "ack"} => entry[w] \in Entry
    BY <1>2 DEF Critical
  <1> QED BY <1>1, <1>3, <1>4

LEMMA OpenTypes ==
  ASSUME TypeInv, NEW i \in Instances, OpenLedger(i) PROVE TypeInv'
  <1>1. CASE Replays(log)
    <2>1. Aids(log) \in SUBSET Approvals /\ HeadBefore(log, Len(log) + 1) \in Heads
      BY <1>1, ReplaysType DEF TypeInv, TypeOK
    <2>2. ReplayedSeq(log) \in Nat
      BY DEF ReplayedSeq, TypeInv, TypeOK
    <2> QED BY <1>1, <2>1, <2>2
            DEF OpenLedger, TypeInv, TypeOK, Bounded, file, threads, counters
  <1>2. CASE ~Replays(log)
    BY <1>2 DEF OpenLedger, TypeInv, TypeOK, Bounded, file, threads, counters, memory
  <1> QED BY <1>1, <1>2

LEMMA ForgetTypes ==
  ASSUME TypeInv, NEW gone \in SUBSET Instances, NEW r \in Results,
         Forget(gone), EndCalls(gone, r)
  PROVE  /\ status' \in [Instances -> {"closed", "open", "refused"}]
         /\ consumed' \in [Instances -> SUBSET Approvals]
         /\ head' \in [Instances -> Heads]
         /\ seq' \in [Instances -> Nat]
         /\ lock' \in [Instances -> Workers \cup {None}]
         /\ buf' \in [Instances -> Buffer]
         /\ \A i \in Instances : buf'[i] = buf[i] \/ buf'[i].at = 0
         /\ \A i \in gone : buf'[i].at = 0
         /\ pc' \in [Workers -> {"idle", "lock"} \cup Critical]
         /\ entry' \in [Workers -> Cell]
         /\ result' \in [Workers -> Results]
         /\ call' = call
         /\ \A w \in Workers : /\ pc'[w] # "idle" => call'[w].aid \in Approvals
                               /\ pc'[w] \in Critical => entry'[w] \in Entry
  <1>1. /\ status' \in [Instances -> {"closed", "open", "refused"}]
        /\ consumed' \in [Instances -> SUBSET Approvals]
        /\ head' \in [Instances -> Heads]
        /\ seq' \in [Instances -> Nat]
        /\ lock' \in [Instances -> Workers \cup {None}]
    BY TornType DEF TypeInv, TypeOK, Forget
  <1>2. /\ buf' \in [Instances -> Buffer]
        /\ \A i \in Instances : buf'[i] = buf[i] \/ buf'[i].at = 0
        /\ \A i \in gone : buf'[i].at = 0
    BY TornType DEF TypeInv, TypeOK, Forget
  <1>3. /\ pc' \in [Workers -> {"idle", "lock"} \cup Critical]
        /\ entry' \in [Workers -> Cell]
        /\ result' \in [Workers -> Results]
        /\ call' = call
    BY TornType DEF TypeInv, TypeOK, EndCalls
  <1>4. \A w \in Workers : /\ pc'[w] # "idle" => call'[w].aid \in Approvals
                           /\ pc'[w] \in Critical => entry'[w] \in Entry
    BY DEF TypeInv, TypeOK, EndCalls, Critical
  <1> QED BY <1>1, <1>2, <1>3, <1>4

LEMMA CloseTypes ==
  ASSUME TypeInv, NEW i \in Instances, Close(i) PROVE TypeInv'
  <1> USE DEF TypeInv
  <1>1. log \in Seq(Cell) /\ buf[i] \in Buffer /\ buf[i].at \in Nat /\ buf[i].at <= Len(log)
    BY DEF TypeOK, Bounded, Buffer
  <1>2. log' \in Seq(Cell) /\ Len(log) <= Len(log') /\ Len(log') \in Nat
    <2>1. CASE log' = Flushed(log, buf[i])
      BY <2>1, <1>1, FlushedType
    <2>2. CASE log' \in {log, WriteAt(log, buf[i].at, Torn)}
      BY <2>2, <1>1, TornWriteType
    <2> QED BY <2>1, <2>2 DEF Close
  <1>3. faults' \in 0..MaxFaults
    BY LedgerConstants DEF Close, TypeOK
  <1>4. Forget({i}) /\ EndCalls({i}, "ValueError") /\ UNCHANGED <<disk, acks, crashes, losses>>
    BY DEF Close
  <1>5. "ValueError" \in Results /\ {i} \in SUBSET Instances
    BY DEF Results
  <1>6. TypeOK'
    BY <1>2, <1>3, <1>4, <1>5, ForgetTypes DEF TypeOK
  <1>7. \A j \in Instances : buf'[j] = buf[j] \/ buf'[j].at = 0
    BY <1>4, <1>5, ForgetTypes
  <1>8. Bounded'
    <2>1. ASSUME NEW j \in Instances PROVE buf'[j].at <= Len(log')
      <3>1. buf[j].at \in Nat /\ buf[j].at <= Len(log) /\ Len(log) \in Nat
        BY <1>1 DEF Bounded, TypeOK, Buffer
      <3> QED BY <3>1, <1>2, <1>7
    <2>2. Len(disk') <= Len(log')
      BY <1>2, <1>4, <1>1 DEF Bounded, TypeOK
    <2> QED BY <2>1, <2>2 DEF Bounded
  <1> QED BY <1>6, <1>8

LEMMA CallTypes ==
  ASSUME TypeInv, NEW w \in Workers, NEW op \in Ops, NEW a \in Approvals, Call(w, op, a)
  PROVE  TypeInv'
  <1>1. ObjectRefusal(InstOf[w], op, a) \in Results
    BY DEF ObjectRefusal, Results
  <1>2. "none" \in Results /\ [op |-> op, aid |-> a] \in [op : Ops, aid : Approvals \cup {None}]
    BY DEF Results
  <1>3. /\ pc' \in [Workers -> {"idle", "lock"} \cup Critical]
        /\ result' \in [Workers -> Results]
        /\ entry' \in [Workers -> Cell]
    <2>1. \E s \in {"idle", "lock"}, r \in Results, e \in {entry, [entry EXCEPT ![w] = NoEntry]} :
            pc' = [pc EXCEPT ![w] = s] /\ result' = [result EXCEPT ![w] = r] /\ entry' = e
      BY <1>1, <1>2 DEF Call, Return
    <2>2. /\ pc \in [Workers -> {"idle", "lock"} \cup Critical]
          /\ result \in [Workers -> Results]
          /\ entry \in [Workers -> Cell]
      BY DEF TypeInv, TypeOK
    <2> QED BY <2>1, <2>2, TornType
  <1>4. call' \in [Workers -> [op : Ops, aid : Approvals \cup {None}]]
    BY <1>2 DEF Call, TypeInv, TypeOK
  <1>5. \A v \in Workers : /\ pc'[v] # "idle" => call'[v].aid \in Approvals
                           /\ pc'[v] \in Critical => entry'[v] \in Entry
    BY DEF Call, Return, TypeInv, TypeOK, Critical
  <1> QED BY <1>3, <1>4, <1>5 DEF Call, TypeInv, TypeOK, Bounded, file, memory, counters

LEMMA AcquireTypes ==
  ASSUME TypeInv, NEW w \in Workers, Acquire(w) PROVE TypeInv'
  <1> DEFINE i == InstOf[w]
             e == [seq |-> seq[i], prev |-> head[i], aid |-> call[w].aid, by |-> w]
  <1>1. i \in Instances /\ pc[w] = "lock" /\ call[w].aid \in Approvals
    <2>1. pc[w] = "lock"
      BY DEF Acquire
    <2> QED BY <2>1, CallTyped
  <1>2. e \in Entry /\ e \in Cell
    BY <1>1 DEF TypeInv, TypeOK, Entry, Cell
  <1>3. UNCHANGED <<log, disk, status, consumed, head, seq, buf, call, acks, crashes, losses, faults>>
    BY DEF Acquire, file, memory, counters
  <1>4. CASE /\ lock' = [lock EXCEPT ![i] = w]
             /\ pc' = [pc EXCEPT ![w] = "seek"]
             /\ entry' = [entry EXCEPT ![w] = e]
             /\ UNCHANGED result
    BY <1>1, <1>2, <1>3, <1>4 DEF TypeInv, TypeOK, Bounded, Critical
  <1>5. CASE \E r \in Results : Return(w, r) /\ UNCHANGED lock
    BY <1>1, <1>3, <1>5, TornType DEF Return, TypeInv, TypeOK, Bounded, Critical
  <1> QED BY <1>4, <1>5 DEF Acquire, Results

LEMMA SeekWriteTypes ==
  ASSUME TypeInv, NEW w \in Workers, SeekWrite(w) PROVE TypeInv'
  <1> DEFINE i == InstOf[w]
  <1>1. i \in Instances /\ entry[w] \in Entry
    <2>1. pc[w] = "seek"
      BY DEF SeekWrite
    <2> QED BY <2>1, CallTyped
  <1>2. log \in Seq(Cell) /\ buf[i] \in Buffer /\ buf[i].at <= Len(log)
    BY <1>1 DEF TypeInv, TypeOK, Bounded
  <1>3. log' \in Seq(Cell) /\ Len(log') \in Nat /\ Len(log) <= Len(log')
    BY <1>2, FlushedType DEF SeekWrite
  <1>4. buf' = [buf EXCEPT ![i] = [rec |-> entry[w], at |-> Len(log')]]
    BY DEF SeekWrite, EndOf
  <1>5. [rec |-> entry[w], at |-> Len(log')] \in Buffer
    BY <1>1, <1>3 DEF Buffer, Cell
  <1>6. TypeOK'
    BY <1>1, <1>3, <1>4, <1>5 DEF SeekWrite, TypeInv, TypeOK, Critical, memory, counters
  <1>7. Bounded'
    BY <1>1, <1>3, <1>4 DEF SeekWrite, TypeInv, TypeOK, Bounded, Buffer
  <1> QED BY <1>6, <1>7 DEF TypeInv

LEMMA FlushTypes ==
  ASSUME TypeInv, NEW w \in Workers, Flush(w) PROVE TypeInv'
  <1> DEFINE i == InstOf[w]
  <1>1. i \in Instances
    BY LedgerConstants
  <1>2. log \in Seq(Cell) /\ buf[i] \in Buffer /\ buf[i].at <= Len(log)
    BY <1>1 DEF TypeInv, TypeOK, Bounded
  <1>3. log' \in Seq(Cell) /\ Len(log') \in Nat /\ Len(log) <= Len(log')
    BY <1>2, FlushedType DEF Flush
  <1>6. TypeOK'
    BY <1>1, <1>3, TornType DEF Flush, TypeInv, TypeOK, Critical, memory, counters
  <1>7. Bounded'
    BY <1>1, <1>3, TornType DEF Flush, TypeInv, TypeOK, Bounded, Buffer
  <1> QED BY <1>6, <1>7 DEF TypeInv

LEMMA FsyncTypes ==
  ASSUME TypeInv, NEW w \in Workers, Fsync(w) PROVE TypeInv'
  BY DEF Fsync, Synced, TypeInv, TypeOK, Bounded, Critical, memory, counters

LEMMA AckTypes ==
  ASSUME TypeInv, NEW w \in Workers, Ack(w) PROVE TypeInv'
  <1> DEFINE i == InstOf[w]
  <1>1. i \in Instances /\ entry[w] \in Entry /\ entry[w].aid \in Approvals
    <2>1. pc[w] = "ack"
      BY DEF Ack
    <2> QED BY <2>1, CallTyped DEF Entry
  <1>2. ChainNext(entry[w]) \in Heads
    BY <1>1, ChainNextType
  <1>3. acks' \in Seq(Entry)
    BY <1>1 DEF Ack, TypeInv, TypeOK
  <1>4. /\ consumed' \in [Instances -> SUBSET Approvals]
        /\ head' \in [Instances -> Heads]
        /\ seq' \in [Instances -> Nat]
        /\ lock' \in [Instances -> Workers \cup {None}]
    BY <1>1, <1>2 DEF Ack, AdvancedHead, AdvancedSeq, Released, TypeInv, TypeOK
  <1>5. /\ pc' \in [Workers -> {"idle", "lock"} \cup Critical]
        /\ entry' \in [Workers -> Cell]
        /\ result' \in [Workers -> Results]
        /\ \A v \in Workers : /\ pc'[v] # "idle" => call[v].aid \in Approvals
                              /\ pc'[v] \in Critical => entry'[v] \in Entry
    BY TornType DEF Ack, Return, TypeInv, TypeOK, Critical, Results
  <1> QED BY <1>3, <1>4, <1>5 DEF Ack, TypeInv, TypeOK, Bounded, file, counters

LEMMA FaultTypes ==
  ASSUME TypeInv, NEW w \in Workers, Fault(w) PROVE TypeInv'
  <1> DEFINE i == InstOf[w]
  <1>1. i \in Instances
    BY LedgerConstants
  <1>2. log \in Seq(Cell) /\ buf[i].at \in Nat /\ buf[i].at <= Len(log)
    BY <1>1 DEF TypeInv, TypeOK, Bounded, Buffer
  <1>3. log' \in Seq(Cell) /\ Len(log') \in Nat /\ Len(log) <= Len(log')
    <2>1. log' = log \/ log' = WriteAt(log, buf[i].at, Torn)
      BY DEF Fault
    <2> QED BY <2>1, <1>2, TornWriteType
  <1>4. /\ pc' \in [Workers -> {"idle", "lock"} \cup Critical]
        /\ entry' \in [Workers -> Cell]
        /\ result' \in [Workers -> Results]
        /\ \A v \in Workers : /\ pc'[v] # "idle" => call[v].aid \in Approvals
                              /\ pc'[v] \in Critical => entry'[v] \in Entry
    BY TornType DEF Fault, Return, TypeInv, TypeOK, Critical, Results
  <1>5. lock' \in [Instances -> Workers \cup {None}] /\ faults' \in 0..MaxFaults
    BY <1>1, LedgerConstants DEF Fault, Released, TypeInv, TypeOK
  <1>6. UNCHANGED <<disk, status, consumed, head, seq, buf, call, acks, crashes, losses>>
    BY DEF Fault, memory
  <1>7. TypeOK'
    BY <1>3, <1>4, <1>5, <1>6 DEF TypeInv, TypeOK
  <1>8. Bounded'
    BY <1>3, <1>6 DEF TypeInv, TypeOK, Bounded, Buffer
  <1> QED BY <1>7, <1>8 DEF TypeInv

LEMMA CrashTypes ==
  ASSUME TypeInv, NEW i \in Instances, ProcessCrash(i) PROVE TypeInv'
  <1>1. "none" \in Results /\ {i} \in SUBSET Instances
    BY DEF Results
  <1>2. Forget({i}) /\ EndCalls({i}, "none") /\ UNCHANGED <<log, disk, acks, losses, faults>>
    BY DEF ProcessCrash, file
  <1>3. crashes' \in 0..MaxCrashes
    BY LedgerConstants DEF ProcessCrash, TypeInv, TypeOK
  <1>4. TypeOK'
    BY <1>1, <1>2, <1>3, ForgetTypes DEF TypeInv, TypeOK
  <1>5. \A j \in Instances : buf'[j] = buf[j] \/ buf'[j].at = 0
    BY <1>1, <1>2, ForgetTypes
  <1>6. Bounded'
    <2>1. ASSUME NEW j \in Instances PROVE buf'[j].at <= Len(log')
      <3>1. buf[j].at <= Len(log) /\ Len(log) \in Nat
        BY DEF Bounded, TypeInv, TypeOK
      <3> QED BY <3>1, <1>2, <1>5
    <2> QED BY <2>1, <1>2 DEF Bounded, TypeInv
  <1> QED BY <1>4, <1>6 DEF TypeInv

LEMMA PowerLossTypes ==
  ASSUME TypeInv, PowerLoss PROVE TypeInv'
  <1>1. "none" \in Results /\ Instances \in SUBSET Instances
    BY DEF Results
  <1>2. Forget(Instances) /\ EndCalls(Instances, "none") /\ UNCHANGED <<acks, crashes, faults>>
    BY DEF PowerLoss
  <1>3. log' \in Seq(Cell) /\ disk' = log'
    BY PowerLossType DEF PowerLoss, TypeInv, TypeOK, Bounded
  <1>4. losses' \in 0..MaxLosses
    BY LedgerConstants DEF PowerLoss, TypeInv, TypeOK
  <1>5. TypeOK'
    BY <1>1, <1>2, <1>3, <1>4, ForgetTypes DEF TypeInv, TypeOK
  <1>6. \A i \in Instances : buf'[i].at = 0
    BY <1>1, <1>2, ForgetTypes
  <1>7. Bounded'
    BY <1>3, <1>6 DEF Bounded
  <1> QED BY <1>5, <1>7 DEF TypeInv

LEMMA StepTypes == ASSUME TypeInv, [Next]_vars PROVE TypeInv'
  <1>1. CASE UNCHANGED vars
    BY <1>1 DEF vars, TypeInv, TypeOK, Bounded
  <1>2. ASSUME NEW i \in Instances, OpenLedger(i) \/ Close(i) \/ ProcessCrash(i) PROVE TypeInv'
    BY <1>2, OpenTypes, CloseTypes, CrashTypes
  <1>3. ASSUME NEW w \in Workers, NEW op \in Ops, NEW a \in Approvals, Call(w, op, a) PROVE TypeInv'
    BY <1>3, CallTypes
  <1>4. ASSUME NEW w \in Workers, Step(w) \/ Fault(w) PROVE TypeInv'
    BY <1>4, AcquireTypes, SeekWriteTypes, FlushTypes, FsyncTypes, AckTypes, FaultTypes DEF Step
  <1> QED BY <1>1, <1>2, <1>3, <1>4, PowerLossTypes DEF Next

\* Type correctness: every variable keeps its type in every behaviour, for any
\* number of instances on the path.
THEOREM TypeCorrect == Spec => []TypeOK
  <1>1. TypeInv /\ [Next]_vars => TypeInv'
    BY StepTypes
  <1>2. TypeInv => TypeOK
    BY DEF TypeInv
  <1> QED BY <1>1, <1>2, InitTypes, PTL DEF Spec

(***************************************************************************)
(* Single use                                                              *)
(***************************************************************************)
\* The lock admits one thread, and there is one lock.
LEMMA Alone ==
  ASSUME SingleWriter, TypeInv, LockInv, NEW v \in Workers, NEW w \in Workers,
         pc[v] \in Critical, lock[InstOf[w]] = w \/ pc[w] \in Critical
  PROVE  v = w
  <1>1. InstOf[v] = InstOf[w]
    BY CallTyped DEF SingleWriter
  <1>2. lock[InstOf[v]] = v /\ lock[InstOf[w]] = w
    BY DEF LockInv
  <1> QED BY <1>1, <1>2

\* With the lock free, no thread is inside the critical section.
LEMMA Nobody ==
  ASSUME SingleWriter, TypeInv, LockInv, NEW i \in Instances, lock[i] = None,
         NEW v \in Workers
  PROVE  pc[v] \notin Critical
  <1>1. InstOf[v] = i
    BY CallTyped DEF SingleWriter
  <1>2. v # None
    BY LedgerConstants
  <1> QED BY <1>1, <1>2 DEF LockInv

LEMMA InitSafe == Init => SafeInv
  BY DEF Init, SafeInv, LockInv, FileInv, PendingInv, MemoryInv, PersistBeforeAck,
         ExactlyOnce, ForwardOnly, Critical

\* An acknowledged entry is in the log it is replayed from, at its position.
LEMMA ReplayedAcks ==
  ASSUME TypeInv, FileInv, PersistBeforeAck, Replays(log), NEW j \in 1..Len(acks)
  PROVE  acks[j].aid \in Aids(log) /\ acks[j].seq < Len(log)
  <1>1. PICK k \in 1..Len(disk) : disk[k] = acks[j]
    BY DEF PersistBeforeAck
  <1>2. log[k] = acks[j] /\ k \in 1..Len(log) /\ k - 1 < Len(log)
    BY <1>1 DEF FileInv, TypeInv, TypeOK, Bounded
  <1>3. acks[j].seq = k - 1
    BY <1>2 DEF Replays
  <1> QED BY <1>2, <1>3 DEF Aids

LEMMA OpenSafe ==
  ASSUME SingleWriter, TypeInv, SafeInv, NEW i \in Instances, OpenLedger(i)
  PROVE  SafeInv'
  <1>1. UNCHANGED <<log, disk, lock, buf, pc, call, entry, acks>> /\ status[i] # "open"
    BY DEF OpenLedger, file, threads
  <1>2. \A w \in Workers : pc[w] = "idle"
    BY <1>1, CallTyped DEF SingleWriter, SafeInv, LockInv
  <1>3. LockInv' /\ FileInv' /\ PersistBeforeAck' /\ ExactlyOnce' /\ ForwardOnly'
    BY <1>1, <1>2 DEF SafeInv, LockInv, FileInv, PersistBeforeAck, ExactlyOnce, ForwardOnly, Critical
  <1>4. PendingInv'
    BY <1>1, <1>2 DEF PendingInv, Critical
  <1>5. MemoryInv'
    <2>1. CASE Replays(log)
      <3>1. \A j \in 1..Len(acks) : acks[j].aid \in Aids(log) /\ acks[j].seq < Len(log)
        BY <2>1, ReplayedAcks DEF SafeInv
      <3>2. consumed'[i] = Aids(log) /\ seq'[i] = Len(log)
        BY <2>1 DEF OpenLedger, ReplayedSeq, TypeInv, TypeOK
      <3> QED BY <3>1, <3>2, <1>1 DEF MemoryInv, SingleWriter
    <2>2. CASE ~Replays(log)
      <3>1. status'[i] = "refused"
        BY <2>2 DEF OpenLedger, TypeInv, TypeOK
      <3> QED BY <3>1 DEF MemoryInv, SingleWriter
    <2> QED BY <2>1, <2>2
  <1> QED BY <1>3, <1>4, <1>5 DEF SafeInv

\* What a Ledger object that disappears leaves behind.
LEMMA GoneSafe ==
  ASSUME SingleWriter, TypeInv, SafeInv, NEW i \in Instances,
         NEW r, Forget({i}), EndCalls({i}, r), UNCHANGED acks
  PROVE  /\ \A w \in Workers : pc'[w] = "idle"
         /\ \A j \in Instances : buf'[j] = Empty /\ status'[j] = "closed"
         /\ ExactlyOnce' /\ ForwardOnly'
  <1>1. \A w \in Workers : InstOf[w] \in {i}
    BY CallTyped DEF SingleWriter
  <1>2. \A w \in Workers : pc'[w] = "idle"
    BY <1>1 DEF EndCalls
  <1>3. \A j \in Instances : buf'[j] = Empty /\ status'[j] = "closed"
    BY DEF Forget, SingleWriter
  <1> QED BY <1>2, <1>3 DEF SafeInv, ExactlyOnce, ForwardOnly

LEMMA GoneInv ==
  ASSUME \A w \in Workers : pc'[w] = "idle",
         \A j \in Instances : buf'[j] = Empty /\ status'[j] = "closed",
         \A k \in 1..Len(disk') : log'[k] = disk'[k],
         PersistBeforeAck', ExactlyOnce', ForwardOnly'
  PROVE  SafeInv'
  BY DEF SafeInv, LockInv, FileInv, PendingInv, MemoryInv, Critical

LEMMA CloseSafe ==
  ASSUME SingleWriter, TypeInv, SafeInv, NEW i \in Instances, Close(i)
  PROVE  SafeInv' /\ \A k \in 1..Len(disk) : k <= Len(log') /\ log'[k] = disk[k]
  <1>1. Forget({i}) /\ EndCalls({i}, "ValueError") /\ UNCHANGED acks /\ disk' = disk
    BY DEF Close
  <1>2. log \in Seq(Cell) /\ buf[i] \in Buffer /\ buf[i].at \in Nat /\ buf[i].at <= Len(log)
    BY DEF TypeInv, TypeOK, Bounded, Buffer
  <1>3. /\ \A k \in 1..Len(disk) : log[k] = disk[k]
        /\ buf[i] # Empty => Len(disk) <= buf[i].at
        /\ Len(disk) <= Len(log) /\ Len(disk) \in Nat
    BY DEF SafeInv, FileInv, TypeInv, TypeOK, Bounded
  <1>4. \A k \in 1..Len(disk) : k <= Len(log') /\ log'[k] = disk[k]
    <2>1. CASE buf[i] = Empty
      <3>1. log' = log
        BY <2>1 DEF Close, Flushed
      <3> QED BY <3>1, <1>2, <1>3
    <2>2. CASE buf[i] # Empty /\ log' = Flushed(log, buf[i])
      <3>1. Len(log) <= Len(log') /\ Len(log') \in Nat /\ \A k \in 1..buf[i].at : log'[k] = log[k]
        BY <2>2, <1>2, FlushedType
      <3> QED BY <3>1, <2>2, <1>2, <1>3
    <2>3. CASE buf[i] # Empty /\ log' \in {log, WriteAt(log, buf[i].at, Torn)}
      <3>1. Len(log) <= Len(log') /\ Len(log') \in Nat /\ \A k \in 1..buf[i].at : log'[k] = log[k]
        BY <2>3, <1>2, TornWriteType
      <3> QED BY <3>1, <2>3, <1>2, <1>3
    <2> QED BY <2>1, <2>2, <2>3 DEF Close
  <1>5. PersistBeforeAck'
    BY <1>1 DEF SafeInv, PersistBeforeAck
  <1> QED BY <1>1, <1>4, <1>5, GoneSafe, GoneInv

LEMMA CrashSafe ==
  ASSUME SingleWriter, TypeInv, SafeInv, NEW i \in Instances, ProcessCrash(i)
  PROVE  SafeInv'
  <1>1. Forget({i}) /\ EndCalls({i}, "none") /\ UNCHANGED <<log, disk, acks>>
    BY DEF ProcessCrash, file
  <1>2. PersistBeforeAck' /\ \A k \in 1..Len(disk') : log'[k] = disk'[k]
    BY <1>1 DEF SafeInv, FileInv, PersistBeforeAck
  <1> QED BY <1>1, <1>2, GoneSafe, GoneInv

LEMMA PowerLossSafe ==
  ASSUME SingleWriter, TypeInv, SafeInv, PowerLoss
  PROVE  SafeInv' /\ \A k \in 1..Len(disk) : k <= Len(log') /\ log'[k] = disk[k]
  <1>1. /\ log' \in AfterPowerLoss(disk, log, Torn) /\ disk' = log'
        /\ Forget(Instances) /\ EndCalls(Instances, "none") /\ UNCHANGED acks
    BY DEF PowerLoss
  <1>2. /\ log \in Seq(Cell) /\ disk \in Seq(Cell) /\ Len(disk) <= Len(log)
        /\ \A k \in 1..Len(disk) : log[k] = disk[k]
    BY DEF TypeInv, TypeOK, Bounded, SafeInv, FileInv
  <1>3. Len(log') \in Len(disk)..Len(log) /\ \A k \in 1..Len(disk) : log'[k] = disk[k]
    BY <1>1, <1>2, PowerLossType
  <1>4. Len(disk) \in Nat /\ \A k \in 1..Len(disk) : k <= Len(log') /\ k \in 1..Len(log')
    BY <1>2, <1>3
  <1>5. PersistBeforeAck'
    <2> SUFFICES ASSUME NEW j \in 1..Len(acks) PROVE \E k \in 1..Len(log') : log'[k] = acks[j]
      BY <1>1 DEF PersistBeforeAck
    <2>1. PICK k \in 1..Len(disk) : disk[k] = acks[j]
      BY DEF SafeInv, PersistBeforeAck
    <2> QED BY <2>1, <1>3, <1>4
  <1>6. \A w \in Workers : pc'[w] = "idle"
    BY <1>1, CallTyped DEF EndCalls
  <1>7. \A j \in Instances : buf'[j] = Empty /\ status'[j] = "closed"
    BY <1>1 DEF Forget
  <1>8. ExactlyOnce' /\ ForwardOnly'
    BY <1>1 DEF SafeInv, ExactlyOnce, ForwardOnly
  <1>9. \A k \in 1..Len(disk') : log'[k] = disk'[k]
    BY <1>1
  <1> QED BY <1>3, <1>4, <1>5, <1>6, <1>7, <1>8, <1>9, GoneInv

LEMMA CallSafe ==
  ASSUME SingleWriter, TypeInv, SafeInv,
         NEW w \in Workers, NEW op \in Ops, NEW a \in Approvals, Call(w, op, a)
  PROVE  SafeInv'
  <1>1. /\ UNCHANGED <<log, disk, status, consumed, head, seq, lock, buf, acks>>
        /\ pc[w] = "idle" /\ status[InstOf[w]] = "open"
    BY DEF Call, file, memory
  <1>2. pc'[w] \in {"idle", "lock"} /\ \A v \in Workers \ {w} : pc'[v] = pc[v] /\ entry'[v] = entry[v]
    BY DEF Call, Return, TypeInv, TypeOK
  <1>3. \A v \in Workers : pc'[v] \in Critical => v # w
    BY <1>2 DEF Critical
  <1>4. LockInv'
    BY <1>1, <1>2, <1>3 DEF SafeInv, LockInv
  <1>5. PendingInv'
    <2> SUFFICES ASSUME NEW v \in Workers
                 PROVE  /\ pc'[v] \in Critical => /\ entry'[v].aid \notin consumed[InstOf[v]]
                                                  /\ entry'[v].seq = seq[InstOf[v]]
                        /\ pc'[v] = "flush" => buf[InstOf[v]].rec = entry'[v]
                        /\ pc'[v] \in {"fsync", "ack"} => buf[InstOf[v]] = Empty
                        /\ pc'[v] = "fsync" => \E k \in 1..Len(log) : log[k] = entry'[v]
                        /\ pc'[v] = "ack" => \E k \in 1..Len(disk) : disk[k] = entry'[v]
      BY <1>1 DEF PendingInv
    <2>1. CASE v = w
      BY <2>1, <1>2 DEF Critical
    <2>2. CASE v # w
      BY <2>2, <1>2 DEF SafeInv, PendingInv
    <2> QED BY <2>1, <2>2
  <1> QED BY <1>1, <1>4, <1>5
          DEF SafeInv, FileInv, MemoryInv, PersistBeforeAck, ExactlyOnce, ForwardOnly

\* After a step, PendingInv and LockInv need only be shown of the one thread
\* that is inside.
LEMMA OnlyOne ==
  ASSUME NEW w \in Workers, \A v \in Workers : pc'[v] \in Critical => v = w,
         \A v \in Workers : pc'[v] # "idle" => status'[InstOf[v]] = "open",
         pc'[w] \in Critical => /\ lock'[InstOf[w]] = w
                                /\ entry'[w].aid \notin consumed'[InstOf[w]]
                                /\ entry'[w].seq = seq'[InstOf[w]],
         pc'[w] = "flush" => buf'[InstOf[w]].rec = entry'[w],
         pc'[w] \in {"fsync", "ack"} => buf'[InstOf[w]] = Empty,
         pc'[w] = "fsync" => \E k \in 1..Len(log') : log'[k] = entry'[w],
         pc'[w] = "ack" => \E k \in 1..Len(disk') : disk'[k] = entry'[w]
  PROVE  LockInv' /\ PendingInv'
  <1>1. LockInv'
    BY DEF LockInv
  <1>2. PendingInv'
    <2> SUFFICES ASSUME NEW v \in Workers
                 PROVE  /\ pc'[v] \in Critical => /\ entry'[v].aid \notin consumed'[InstOf[v]]
                                                  /\ entry'[v].seq = seq'[InstOf[v]]
                        /\ pc'[v] = "flush" => buf'[InstOf[v]].rec = entry'[v]
                        /\ pc'[v] \in {"fsync", "ack"} => buf'[InstOf[v]] = Empty
                        /\ pc'[v] = "fsync" => \E k \in 1..Len(log') : log'[k] = entry'[v]
                        /\ pc'[v] = "ack" => \E k \in 1..Len(disk') : disk'[k] = entry'[v]
      BY DEF PendingInv
    <2>1. CASE v = w
      BY <2>1
    <2>2. CASE v # w
      BY <2>2 DEF Critical
    <2> QED BY <2>1, <2>2
  <1> QED BY <1>1, <1>2

\* What is known of the thread that takes a step inside the critical section.
LEMMA Inside ==
  ASSUME SingleWriter, TypeInv, SafeInv, NEW w \in Workers, pc[w] \in Critical
  PROVE  /\ InstOf[w] \in Instances /\ \A i \in Instances : i = InstOf[w]
         /\ \A v \in Workers : pc[v] \in Critical => v = w
         /\ lock[InstOf[w]] = w /\ status[InstOf[w]] = "open"
         /\ entry[w] \in Entry
         /\ entry[w].aid \notin consumed[InstOf[w]] /\ entry[w].seq = seq[InstOf[w]]
         /\ log \in Seq(Cell) /\ disk \in Seq(Cell) /\ Len(disk) <= Len(log)
         /\ buf[InstOf[w]] \in Buffer /\ buf[InstOf[w]].at \in Nat
         /\ buf[InstOf[w]].at <= Len(log)
         /\ buf[InstOf[w]] # Empty => Len(disk) <= buf[InstOf[w]].at
         /\ \A k \in 1..Len(disk) : log[k] = disk[k]
  <1>1. InstOf[w] \in Instances /\ \A i \in Instances : i = InstOf[w]
    BY CallTyped DEF SingleWriter
  <1>2. \A v \in Workers : pc[v] \in Critical => v = w
    BY Alone DEF SafeInv
  <1>3. lock[InstOf[w]] = w /\ status[InstOf[w]] = "open"
    BY DEF SafeInv, LockInv, Critical
  <1>4. entry[w].aid \notin consumed[InstOf[w]] /\ entry[w].seq = seq[InstOf[w]]
    BY DEF SafeInv, PendingInv
  <1>5. entry[w] \in Entry
    BY CallTyped DEF Critical
  <1>6. /\ log \in Seq(Cell) /\ disk \in Seq(Cell) /\ Len(disk) <= Len(log)
        /\ buf[InstOf[w]] \in Buffer /\ buf[InstOf[w]].at \in Nat
        /\ buf[InstOf[w]].at <= Len(log)
    BY <1>1 DEF TypeInv, TypeOK, Bounded, Buffer
  <1>7. /\ buf[InstOf[w]] # Empty => Len(disk) <= buf[InstOf[w]].at
        /\ \A k \in 1..Len(disk) : log[k] = disk[k]
    BY <1>1 DEF SafeInv, FileInv
  <1> QED BY <1>1, <1>2, <1>3, <1>4, <1>5, <1>6, <1>7

LEMMA AcquireSafe ==
  ASSUME SingleWriter, TypeInv, SafeInv, NEW w \in Workers, Acquire(w)
  PROVE  SafeInv'
  <1> DEFINE i == InstOf[w]
  <1>1. /\ UNCHANGED <<log, disk, status, consumed, head, seq, buf, acks>>
        /\ pc[w] = "lock" /\ lock[i] = None /\ i \in Instances
    BY CallTyped DEF Acquire, Free, file, memory
  <1>2. \A v \in Workers : pc[v] \notin Critical
    BY <1>1, Nobody DEF SafeInv
  <1>3. FileInv' /\ MemoryInv' /\ PersistBeforeAck' /\ ExactlyOnce' /\ ForwardOnly'
    BY <1>1 DEF SafeInv, FileInv, MemoryInv, PersistBeforeAck, ExactlyOnce, ForwardOnly
  <1>4. CASE \E r \in Results : Return(w, r) /\ UNCHANGED lock
    <2>1. \A v \in Workers : pc'[v] \notin Critical /\ (pc'[v] # "idle" => pc[v] # "idle")
      BY <1>2, <1>4 DEF Return, TypeInv, TypeOK, Critical
    <2>2. LockInv' /\ PendingInv'
      BY <1>1, <2>1 DEF SafeInv, LockInv, PendingInv, Critical
    <2> QED BY <1>3, <2>2 DEF SafeInv
  <1>5. CASE /\ ~Spent(i, call[w].aid)
             /\ lock' = [lock EXCEPT ![i] = w]
             /\ pc' = [pc EXCEPT ![w] = "seek"]
             /\ entry' = [entry EXCEPT ![w] =
                  [seq |-> seq[i], prev |-> head[i], aid |-> call[w].aid, by |-> w]]
    <2>1. /\ pc'[w] = "seek" /\ lock'[i] = w
          /\ entry'[w].aid = call[w].aid /\ entry'[w].seq = seq[i]
          /\ \A v \in Workers : pc'[v] \in Critical => v = w
      BY <1>1, <1>2, <1>5 DEF TypeInv, TypeOK
    <2>2. entry'[w].aid \notin consumed'[i] /\ entry'[w].seq = seq'[i]
      BY <2>1, <1>1, <1>5 DEF Spent
    <2>3. \A v \in Workers : pc'[v] # "idle" => status'[InstOf[v]] = "open"
      <3>1. \A v \in Workers : pc'[v] # "idle" => pc[v] # "idle"
        BY <1>1, <1>5 DEF TypeInv, TypeOK
      <3> QED BY <1>1, <3>1 DEF SafeInv, LockInv
    <2>4. LockInv' /\ PendingInv'
      <3>1. pc'[w] # "flush" /\ pc'[w] \notin {"fsync", "ack"}
        BY <2>1
      <3> QED BY <2>1, <2>2, <2>3, <3>1, OnlyOne
    <2> QED BY <1>3, <2>4 DEF SafeInv
  <1> QED BY <1>4, <1>5 DEF Acquire, Results

LEMMA SeekWriteSafe ==
  ASSUME SingleWriter, TypeInv, SafeInv, NEW w \in Workers, SeekWrite(w)
  PROVE  SafeInv' /\ \A k \in 1..Len(disk) : k <= Len(log') /\ log'[k] = disk[k]
  <1> DEFINE i == InstOf[w]
  <1>1. /\ pc[w] = "seek" /\ pc[w] \in Critical
        /\ UNCHANGED <<disk, status, consumed, head, seq, lock, entry, acks>>
        /\ log' = Flushed(log, buf[i])
        /\ buf' = [buf EXCEPT ![i] = [rec |-> entry[w], at |-> Len(log')]]
        /\ pc' = [pc EXCEPT ![w] = "flush"]
    BY DEF SeekWrite, EndOf, memory, Critical
  <1>2. /\ Len(log) <= Len(log') /\ Len(log') \in Nat
        /\ \A k \in 1..Len(disk) : k <= Len(log') /\ log'[k] = disk[k]
    <2>1. Len(log) <= Len(log') /\ Len(log') \in Nat /\ \A k \in 1..buf[i].at : log'[k] = log[k]
      BY <1>1, Inside, FlushedType
    <2>2. CASE buf[i] = Empty
      BY <2>1, <2>2, <1>1, Inside DEF Flushed
    <2>3. CASE buf[i] # Empty
      BY <2>1, <2>3, <1>1, Inside
    <2> QED BY <2>1, <2>2, <2>3
  <1>3. /\ pc'[w] = "flush" /\ \A v \in Workers : pc'[v] \in Critical => v = w
        /\ \A v \in Workers : pc'[v] # "idle" => status'[InstOf[v]] = "open"
    BY <1>1, Inside DEF TypeInv, TypeOK, SafeInv, LockInv
  <1>4. buf'[i].rec = entry[w] /\ buf'[i].at = Len(log')
    BY <1>1, Inside DEF TypeInv, TypeOK
  <1>5. LockInv' /\ PendingInv'
    <2>1. /\ lock'[i] = w
          /\ entry'[w].aid \notin consumed'[i] /\ entry'[w].seq = seq'[i]
          /\ buf'[i].rec = entry'[w]
      BY <1>1, <1>4, Inside
    <2>2. pc'[w] \notin {"fsync", "ack"}
      BY <1>3
    <2> QED BY <1>3, <2>1, <2>2, OnlyOne
  <1>6. FileInv'
    <2>1. Len(disk') <= buf'[i].at
      BY <1>1, <1>2, <1>4, Inside
    <2>2. \A j \in Instances : j = i
      BY <1>1, Inside
    <2> QED BY <1>1, <1>2, <2>1, <2>2 DEF FileInv
  <1>7. MemoryInv' /\ PersistBeforeAck' /\ ExactlyOnce' /\ ForwardOnly'
    BY <1>1 DEF SafeInv, MemoryInv, PersistBeforeAck, ExactlyOnce, ForwardOnly
  <1> QED BY <1>2, <1>5, <1>6, <1>7 DEF SafeInv

LEMMA FlushSafe ==
  ASSUME SingleWriter, TypeInv, SafeInv, NEW w \in Workers, Flush(w)
  PROVE  SafeInv' /\ \A k \in 1..Len(disk) : k <= Len(log') /\ log'[k] = disk[k]
  <1> DEFINE i == InstOf[w]
  <1>1. /\ pc[w] = "flush" /\ pc[w] \in Critical
        /\ UNCHANGED <<disk, status, consumed, head, seq, lock, entry, acks>>
        /\ log' = Flushed(log, buf[i])
        /\ buf' = [buf EXCEPT ![i] = Empty]
        /\ pc' = [pc EXCEPT ![w] = "fsync"]
    BY DEF Flush, memory, Critical
  <1>2. buf[i].rec = entry[w] /\ buf[i] # Empty /\ buf[i].rec \in Cell
    <2>1. buf[i].rec = entry[w]
      BY <1>1 DEF SafeInv, PendingInv
    <2>2. entry[w] # Torn /\ entry[w] \in Cell
      BY <1>1, Inside, TornType DEF Cell
    <2> QED BY <2>1, <2>2 DEF Empty
  <1>3. log' = WriteAt(log, buf[i].at, buf[i].rec)
    BY <1>1, <1>2 DEF Flushed
  <1>4. /\ Len(log') \in Len(log)..(Len(log) + 1) /\ buf[i].at < Len(log')
        /\ \A k \in 1..buf[i].at : log'[k] = log[k]
        /\ log'[buf[i].at + 1] = entry[w]
    <2>1. log \in Seq(Cell) /\ buf[i].at \in Nat /\ buf[i].at <= Len(log)
      BY <1>1, Inside
    <2>2. /\ Len(WriteAt(log, buf[i].at, buf[i].rec)) \in Len(log)..(Len(log) + 1)
          /\ buf[i].at < Len(WriteAt(log, buf[i].at, buf[i].rec))
          /\ \A k \in 1..buf[i].at : WriteAt(log, buf[i].at, buf[i].rec)[k] = log[k]
          /\ WriteAt(log, buf[i].at, buf[i].rec)[buf[i].at + 1] = buf[i].rec
      BY <2>1, <1>2, WriteAtType
    <2> QED BY <2>2, <1>2, <1>3
  <1>5. \A k \in 1..Len(disk) : k <= Len(log') /\ log'[k] = disk[k]
    BY <1>1, <1>2, <1>4, Inside
  <1>6. \E k \in 1..Len(log') : log'[k] = entry[w]
    BY <1>1, <1>4, Inside
  <1>7. /\ pc'[w] = "fsync" /\ \A v \in Workers : pc'[v] \in Critical => v = w
        /\ \A v \in Workers : pc'[v] # "idle" => status'[InstOf[v]] = "open"
    BY <1>1, Inside DEF TypeInv, TypeOK, SafeInv, LockInv
  <1>8. buf'[i] = Empty
    BY <1>1, Inside DEF TypeInv, TypeOK
  <1>9. LockInv' /\ PendingInv'
    <2>1. /\ lock'[i] = w
          /\ entry'[w].aid \notin consumed'[i] /\ entry'[w].seq = seq'[i]
          /\ \E k \in 1..Len(log') : log'[k] = entry'[w]
      BY <1>1, <1>6, Inside
    <2>2. pc'[w] # "flush" /\ pc'[w] # "ack"
      BY <1>7
    <2> QED BY <1>7, <1>8, <2>1, <2>2, OnlyOne
  <1>10. FileInv'
    <2>1. \A j \in Instances : j = i
      BY <1>1, Inside
    <2> QED BY <1>1, <1>5, <1>8, <2>1 DEF FileInv
  <1>11. MemoryInv' /\ PersistBeforeAck' /\ ExactlyOnce' /\ ForwardOnly'
    BY <1>1 DEF SafeInv, MemoryInv, PersistBeforeAck, ExactlyOnce, ForwardOnly
  <1> QED BY <1>5, <1>9, <1>10, <1>11 DEF SafeInv

LEMMA FsyncSafe ==
  ASSUME SingleWriter, TypeInv, SafeInv, NEW w \in Workers, Fsync(w)
  PROVE  SafeInv'
  <1> DEFINE i == InstOf[w]
  <1>1. /\ pc[w] = "fsync" /\ pc[w] \in Critical
        /\ UNCHANGED <<log, status, consumed, head, seq, lock, buf, entry, acks>>
        /\ disk' = log
        /\ pc' = [pc EXCEPT ![w] = "ack"]
    BY DEF Fsync, Synced, memory, Critical
  <1>2. buf[i] = Empty /\ \E k \in 1..Len(log) : log[k] = entry[w]
    BY <1>1 DEF SafeInv, PendingInv
  <1>3. /\ pc'[w] = "ack" /\ \A v \in Workers : pc'[v] \in Critical => v = w
        /\ \A v \in Workers : pc'[v] # "idle" => status'[InstOf[v]] = "open"
    BY <1>1, Inside DEF TypeInv, TypeOK, SafeInv, LockInv
  <1>4. LockInv' /\ PendingInv'
    <2>1. /\ lock'[i] = w
          /\ entry'[w].aid \notin consumed'[i] /\ entry'[w].seq = seq'[i]
          /\ buf'[i] = Empty /\ \E k \in 1..Len(disk') : disk'[k] = entry'[w]
      BY <1>1, <1>2, Inside
    <2>2. pc'[w] # "flush" /\ pc'[w] # "fsync"
      BY <1>3
    <2> QED BY <1>3, <2>1, <2>2, OnlyOne
  <1>5. FileInv'
    <2>1. \A j \in Instances : j = i
      BY <1>1, Inside
    <2> QED BY <1>1, <1>2, <2>1 DEF FileInv
  <1>6. PersistBeforeAck'
    <2> SUFFICES ASSUME NEW j \in 1..Len(acks) PROVE \E k \in 1..Len(log) : log[k] = acks[j]
      BY <1>1 DEF PersistBeforeAck
    <2>1. PICK k \in 1..Len(disk) : disk[k] = acks[j]
      BY DEF SafeInv, PersistBeforeAck
    <2>2. k \in 1..Len(log) /\ log[k] = disk[k]
      BY <1>1, Inside
    <2> QED BY <2>1, <2>2
  <1>7. MemoryInv' /\ ExactlyOnce' /\ ForwardOnly'
    BY <1>1 DEF SafeInv, MemoryInv, ExactlyOnce, ForwardOnly
  <1> QED BY <1>4, <1>5, <1>6, <1>7 DEF SafeInv

LEMMA AckSafe ==
  ASSUME SingleWriter, TypeInv, SafeInv, NEW w \in Workers, Ack(w)
  PROVE  SafeInv'
  <1> DEFINE i == InstOf[w]
  <1>1. /\ pc[w] = "ack" /\ pc[w] \in Critical
        /\ UNCHANGED <<log, disk, status, buf>>
        /\ consumed' = [consumed EXCEPT ![i] = @ \cup {entry[w].aid}]
        /\ seq' = [seq EXCEPT ![i] = seq[i] + 1]
        /\ acks' = Append(acks, entry[w])
        /\ pc' = [pc EXCEPT ![w] = "idle"]
    BY DEF Ack, Return, AdvancedSeq, file, Critical
  <1>2. /\ acks \in Seq(Entry) /\ Len(acks') = Len(acks) + 1 /\ Len(acks) \in Nat
        /\ acks'[Len(acks) + 1] = entry[w]
        /\ \A j \in 1..Len(acks) : acks'[j] = acks[j]
        /\ \A j \in 1..Len(acks) : acks[j].seq \in Nat
    <2>1. acks \in Seq(Entry) /\ entry[w] \in Entry
      BY <1>1, Inside DEF TypeInv, TypeOK
    <2>2. \A j \in 1..Len(acks) : acks[j] \in Entry
      BY <2>1
    <2> QED BY <2>1, <2>2, <1>1 DEF Entry
  <1>3. \A j \in 1..Len(acks) : acks[j].aid \in consumed[i] /\ acks[j].seq < seq[i]
    BY <1>1, Inside DEF SafeInv, MemoryInv
  <1>4. \A j \in 1..Len(acks) : acks[j].aid # entry[w].aid /\ acks[j].seq < entry[w].seq
    BY <1>1, <1>3, Inside
  <1>5. ExactlyOnce'
    <2> SUFFICES ASSUME NEW j \in 1..(Len(acks) + 1), NEW k \in 1..(Len(acks) + 1),
                        acks'[j].aid = acks'[k].aid
                 PROVE  j = k
      BY <1>2 DEF ExactlyOnce
    <2>1. CASE j \in 1..Len(acks) /\ k \in 1..Len(acks)
      BY <2>1, <1>2 DEF SafeInv, ExactlyOnce
    <2>2. CASE j = Len(acks) + 1 \/ k = Len(acks) + 1
      BY <2>2, <1>2, <1>4
    <2> QED BY <2>1, <2>2, <1>2
  <1>6. ForwardOnly'
    <2> SUFFICES ASSUME NEW j \in 1..(Len(acks) + 1), NEW k \in 1..(Len(acks) + 1), j < k
                 PROVE  acks'[j].seq < acks'[k].seq
      BY <1>2 DEF ForwardOnly
    <2>1. CASE k \in 1..Len(acks)
      BY <2>1, <1>2 DEF SafeInv, ForwardOnly
    <2>2. CASE k = Len(acks) + 1
      BY <2>2, <1>2, <1>4
    <2> QED BY <2>1, <2>2, <1>2
  <1>7. PersistBeforeAck'
    <2> SUFFICES ASSUME NEW j \in 1..(Len(acks) + 1)
                 PROVE  \E k \in 1..Len(disk) : disk[k] = acks'[j]
      BY <1>1, <1>2 DEF PersistBeforeAck
    <2>1. CASE j \in 1..Len(acks)
      BY <2>1, <1>2 DEF SafeInv, PersistBeforeAck
    <2>2. CASE j = Len(acks) + 1
      BY <2>2, <1>1, <1>2 DEF SafeInv, PendingInv
    <2> QED BY <2>1, <2>2, <1>2
  <1>8. MemoryInv'
    <2>1. consumed'[i] = consumed[i] \cup {entry[w].aid} /\ seq'[i] = seq[i] + 1 /\ seq[i] \in Nat
      BY <1>1, Inside DEF TypeInv, TypeOK
    <2>2. \A j \in Instances : j = i
      BY <1>1, Inside
    <2>3. ASSUME NEW j \in 1..(Len(acks) + 1)
          PROVE  acks'[j].aid \in consumed'[i] /\ acks'[j].seq < seq'[i]
      <3>1. CASE j \in 1..Len(acks)
        BY <3>1, <2>1, <1>2, <1>3
      <3>2. CASE j = Len(acks) + 1
        BY <3>2, <2>1, <1>1, <1>2, Inside
      <3> QED BY <3>1, <3>2, <1>2
    <2> QED BY <2>2, <2>3, <1>2 DEF MemoryInv
  <1>9. \A v \in Workers : pc'[v] \notin Critical /\ (pc'[v] # "idle" => pc[v] # "idle")
    BY <1>1, Inside DEF TypeInv, TypeOK, Critical
  <1>10. LockInv' /\ PendingInv'
    BY <1>1, <1>9 DEF SafeInv, LockInv, PendingInv, Critical
  <1>11. FileInv'
    BY <1>1 DEF SafeInv, FileInv
  <1> QED BY <1>5, <1>6, <1>7, <1>8, <1>10, <1>11 DEF SafeInv

LEMMA FaultSafe ==
  ASSUME SingleWriter, TypeInv, SafeInv, NEW w \in Workers, Fault(w)
  PROVE  SafeInv' /\ \A k \in 1..Len(disk) : k <= Len(log') /\ log'[k] = disk[k]
  <1> DEFINE i == InstOf[w]
             unflushed == pc[w] = "flush" \/ (pc[w] = "seek" /\ buf[i] # Empty)
  <1>1. /\ pc[w] \in Critical
        /\ UNCHANGED <<disk, status, consumed, head, seq, buf, acks>>
        /\ log' \in {log, WriteAt(log, buf[i].at, Torn)}
        /\ log' # log => unflushed
        /\ pc' = [pc EXCEPT ![w] = "idle"]
    BY DEF Fault, Return, memory, Critical
  <1>2. unflushed => buf[i] # Empty
    <2>1. ASSUME pc[w] = "flush" PROVE buf[i] # Empty
      <3>1. buf[i].rec = entry[w]
        BY <2>1 DEF SafeInv, PendingInv
      <3>2. entry[w] # Torn
        BY <1>1, Inside, TornType
      <3> QED BY <3>1, <3>2 DEF Empty
    <2> QED BY <2>1
  <1>3. Len(log) <= Len(log') /\ Len(log') \in Nat /\ \A k \in 1..buf[i].at : log'[k] = log[k]
    BY <1>1, Inside, TornWriteType
  <1>4. \A k \in 1..Len(disk) : k <= Len(log') /\ log'[k] = disk[k]
    <2>1. CASE log' = log
      BY <2>1, <1>1, <1>3, Inside
    <2>2. CASE log' # log
      BY <2>2, <1>1, <1>2, <1>3, Inside
    <2> QED BY <2>1, <2>2
  <1>5. \A v \in Workers : pc'[v] \notin Critical /\ (pc'[v] # "idle" => pc[v] # "idle")
    BY <1>1, Inside DEF TypeInv, TypeOK, Critical
  <1>6. LockInv' /\ PendingInv'
    BY <1>1, <1>5 DEF SafeInv, LockInv, PendingInv, Critical
  <1>7. FileInv'
    BY <1>1, <1>4 DEF SafeInv, FileInv
  <1>8. MemoryInv' /\ PersistBeforeAck' /\ ExactlyOnce' /\ ForwardOnly'
    BY <1>1 DEF SafeInv, MemoryInv, PersistBeforeAck, ExactlyOnce, ForwardOnly
  <1> QED BY <1>4, <1>6, <1>7, <1>8 DEF SafeInv

\* Under one Ledger object per path, every step keeps the inductive invariant.
LEMMA StepSafe ==
  ASSUME SingleWriter, TypeInv, SafeInv, [Next]_vars PROVE SafeInv'
  <1>1. CASE UNCHANGED vars
    BY <1>1 DEF vars, SafeInv, LockInv, FileInv, PendingInv, MemoryInv, PersistBeforeAck,
                ExactlyOnce, ForwardOnly
  <1>2. ASSUME NEW i \in Instances, OpenLedger(i) \/ Close(i) \/ ProcessCrash(i) PROVE SafeInv'
    BY <1>2, OpenSafe, CloseSafe, CrashSafe
  <1>3. ASSUME NEW w \in Workers, NEW op \in Ops, NEW a \in Approvals, Call(w, op, a) PROVE SafeInv'
    BY <1>3, CallSafe
  <1>4. ASSUME NEW w \in Workers, Step(w) \/ Fault(w) PROVE SafeInv'
    BY <1>4, AcquireSafe, SeekWriteSafe, FlushSafe, FsyncSafe, AckSafe, FaultSafe DEF Step
  <1> QED BY <1>1, <1>2, <1>3, <1>4, PowerLossSafe DEF Next

Invariants == TypeInv /\ SafeInv

LEMMA InvariantsHold == ASSUME SingleWriter PROVE Spec => []Invariants
  <1>1. Init => Invariants
    BY InitTypes, InitSafe DEF Invariants
  <1>2. Invariants /\ [Next]_vars => Invariants'
    BY StepTypes, StepSafe DEF Invariants
  <1> QED BY <1>1, <1>2, PTL DEF Spec

\* No approval is acknowledged twice on a path that has one Ledger object, with
\* any number of threads, crashes, power losses and I/O errors.
THEOREM SpentOnce == ASSUME SingleWriter PROVE Spec => []ExactlyOnce
  <1>1. Invariants => ExactlyOnce
    BY DEF Invariants, SafeInv
  <1> QED BY <1>1, InvariantsHold, PTL

\* What consume returned is on the disk and stays there.
THEOREM AckedIsDurable == ASSUME SingleWriter PROVE Spec => []PersistBeforeAck
  <1>1. Invariants => PersistBeforeAck
    BY DEF Invariants, SafeInv
  <1> QED BY <1>1, InvariantsHold, PTL

\* The positions in consume receipts strictly increase, across restarts too.
THEOREM PositionsGoForward == ASSUME SingleWriter PROVE Spec => []ForwardOnly
  <1>1. Invariants => ForwardOnly
    BY DEF Invariants, SafeInv
  <1> QED BY <1>1, InvariantsHold, PTL

\* No step overwrites or drops a durable record.
THEOREM DurableRecordsStay == ASSUME SingleWriter PROVE Spec => DurableKept
  <1> DEFINE Kept == \A k \in 1..Len(disk) : k <= Len(log') /\ log'[k] = disk[k]
  <1>1. Invariants /\ [Next]_vars => Kept
    <2> SUFFICES ASSUME TypeInv, SafeInv, [Next]_vars PROVE Kept
      BY DEF Invariants
    <2>1. CASE log' = log
      BY <2>1 DEF TypeInv, TypeOK, Bounded, SafeInv, FileInv
    <2>2. ASSUME NEW i \in Instances, OpenLedger(i) \/ Close(i) \/ ProcessCrash(i) PROVE Kept
      <3>1. CASE Close(i)
        BY <3>1, CloseSafe
      <3>2. CASE OpenLedger(i) \/ ProcessCrash(i)
        BY <3>2, <2>1 DEF OpenLedger, ProcessCrash, file
      <3> QED BY <2>2, <3>1, <3>2
    <2>3. ASSUME NEW w \in Workers, NEW op \in Ops, NEW a \in Approvals, Call(w, op, a) PROVE Kept
      BY <2>3, <2>1 DEF Call, file
    <2>4. ASSUME NEW w \in Workers, Step(w) \/ Fault(w) PROVE Kept
      <3>1. CASE SeekWrite(w) \/ Flush(w) \/ Fault(w)
        BY <3>1, SeekWriteSafe, FlushSafe, FaultSafe
      <3>2. CASE Acquire(w) \/ Fsync(w) \/ Ack(w)
        BY <3>2, <2>1 DEF Acquire, Fsync, Ack, file
      <3> QED BY <2>4, <3>1, <3>2 DEF Step
    <2>5. CASE PowerLoss
      BY <2>5, PowerLossSafe
    <2>6. CASE UNCHANGED vars
      BY <2>6, <2>1 DEF vars
    <2> QED BY <2>2, <2>3, <2>4, <2>5, <2>6 DEF Next
  <1>2. Kept => [Kept]_vars
    OBVIOUS
  <1> QED BY <1>1, <1>2, InvariantsHold, PTL DEF Spec, DurableKept

(***************************************************************************)
(* Refusals                                                                *)
(***************************************************************************)
\* The ids whose entry was returned to some caller.
Granted == {acks[j].aid : j \in 1..Len(acks)}

\* No thread has an entry in the file that its memory does not know yet.
Settled == \A w \in Workers : pc[w] \notin {"fsync", "ack"}

\* The memory of i is what a replay of the file would make it.
InStep(i) ==
  seq[i] = Len(log) /\ head[i] = HeadBefore(log, Len(log) + 1) /\ consumed[i] = Aids(log)

\* Before the first fault and the first power loss: the file replays, memory and
\* file agree except for the entry that is between them, and the buffer is used
\* between the write and the flush only.
CleanInv ==
  faults = 0 /\ losses = 0 =>
    /\ Replays(log)
    /\ \A i \in Instances : status[i] = "open" /\ Settled => InStep(i)
    /\ \A i \in Instances : (\A w \in Workers : pc[w] # "flush") => buf[i] = Empty
    /\ \A w \in Workers :
         /\ pc[w] \in {"seek", "flush"} => entry[w].prev = head[InstOf[w]]
         /\ pc[w] = "flush" => buf[InstOf[w]].at = Len(log)
         /\ pc[w] \in {"fsync", "ack"} =>
              /\ Len(log) = seq[InstOf[w]] + 1 /\ log[Len(log)] = entry[w]
              /\ Aids(log) = consumed[InstOf[w]] \cup {entry[w].aid}

\* Before the first failure of any kind: what the memory or the file holds was
\* returned to some caller, except for the entry that is between them.
GrantInv ==
  faults = 0 /\ losses = 0 /\ crashes = 0 =>
    /\ \A i \in Instances : consumed[i] \subseteq Granted
    /\ Settled => Aids(log) \subseteq Granted
    /\ \A w \in Workers : result[w] = "AlreadyConsumed" => call[w].aid \in Granted

\* One record that fits the chain keeps a file replayable, and adds its id.
LEMMA AppendReplays ==
  ASSUME NEW f \in Seq(Cell), Replays(f), NEW e \in Entry,
         e.seq = Len(f), e.prev = HeadBefore(f, Len(f) + 1)
  PROVE  Replays(Append(f, e)) /\ Aids(Append(f, e)) = Aids(f) \cup {e.aid}
  <1> DEFINE g == Append(f, e)
             n == Len(f)
  <1>1. /\ n \in Nat /\ Len(g) = n + 1 /\ g[n + 1] = e
        /\ \A k \in 1..n : g[k] = f[k]
    BY DEF Cell
  <1> HIDE DEF g, n
  <1>2. ASSUME NEW k \in 1..Len(g)
        PROVE  g[k].seq = k - 1 /\ g[k].prev = HeadBefore(g, k)
    <2>1. k \in Nat \ {0} /\ k <= n + 1 /\ (k # 1 => k - 1 \in 1..n)
      BY <1>1, <1>2
    <2>2. HeadBefore(g, k) = HeadBefore(f, k)
      BY <1>1, <2>1 DEF HeadBefore
    <2>3. CASE k = n + 1
      BY <1>1, <2>2, <2>3 DEF n
    <2>4. CASE k # n + 1
      <3>1. k \in 1..n /\ g[k] = f[k]
        BY <1>1, <2>1, <2>4
      <3>2. f[k].seq = k - 1 /\ f[k].prev = HeadBefore(f, k)
        BY <3>1 DEF Replays, n
      <3> QED BY <2>2, <3>1, <3>2
    <2> QED BY <2>3, <2>4
  <1>3. Replays(g)
    BY <1>2 DEF Replays
  <1>4. Aids(g) = Aids(f) \cup {e.aid}
    <2>1. ASSUME NEW a \in Aids(g) PROVE a \in Aids(f) \cup {e.aid}
      <3>1. PICK k \in 1..Len(g) : a = g[k].aid
        BY DEF Aids
      <3>2. k = n + 1 \/ k \in 1..n
        BY <1>1, <3>1
      <3> QED BY <1>1, <3>1, <3>2 DEF Aids, n
    <2>2. ASSUME NEW a \in Aids(f) PROVE a \in Aids(g)
      <3>1. PICK k \in 1..n : a = f[k].aid
        BY DEF Aids, n
      <3>2. k \in 1..Len(g) /\ g[k] = f[k]
        BY <1>1, <3>1
      <3> QED BY <3>1, <3>2 DEF Aids
    <2>3. e.aid \in Aids(g)
      <3>1. n + 1 \in 1..Len(g)
        BY <1>1
      <3> QED BY <1>1, <3>1 DEF Aids
    <2> QED BY <2>1, <2>2, <2>3
  <1> QED BY <1>3, <1>4 DEF g

CauseInv == CleanInv /\ GrantInv

LEMMA InitCause == Init => CauseInv
  BY TornType DEF Init, CauseInv, CleanInv, GrantInv, Replays, Aids

\* With no call in progress the memory of an open ledger is the file's.
LEMMA OpenCause ==
  ASSUME SingleWriter, TypeInv, SafeInv, CauseInv, NEW i \in Instances, OpenLedger(i)
  PROVE  CauseInv'
  <1>1. /\ UNCHANGED <<log, lock, buf, pc, call, entry, result, acks, crashes, losses, faults>>
        /\ status[i] # "open"
    BY DEF OpenLedger, file, threads, counters
  <1>2. \A w \in Workers : pc[w] = "idle"
    BY <1>1, CallTyped DEF SingleWriter, SafeInv, LockInv
  <1>3. CASE Replays(log)
    <2>1. consumed'[i] = Aids(log) /\ seq'[i] = Len(log) /\ head'[i] = HeadBefore(log, Len(log) + 1)
      BY <1>3 DEF OpenLedger, ReplayedSeq, TypeInv, TypeOK
    <2>2. CleanInv'
      <3>1. \A j \in Instances : InStep(j)'
        BY <1>1, <2>1 DEF InStep, SingleWriter
      <3> QED BY <1>1, <1>2, <3>1 DEF CauseInv, CleanInv
    <2>3. GrantInv'
      <3>1. Settled /\ Granted' = Granted
        BY <1>1, <1>2 DEF Settled, Granted
      <3>2. \A j \in Instances : consumed'[j] = Aids(log)
        BY <2>1 DEF SingleWriter
      <3> QED BY <1>1, <3>1, <3>2 DEF CauseInv, GrantInv
    <2> QED BY <2>2, <2>3 DEF CauseInv
  <1>4. CASE ~Replays(log)
    BY <1>1, <1>4 DEF CauseInv, CleanInv, GrantInv, OpenLedger, memory, InStep, Settled, Granted,
                      SingleWriter, TypeInv, TypeOK
  <1> QED BY <1>3, <1>4

\* A Ledger object that disappears leaves the file as it was, when nothing was
\* waiting in its buffer.
LEMMA GoneCause ==
  ASSUME SingleWriter, TypeInv, SafeInv, CauseInv, NEW i \in Instances, NEW r,
         Forget({i}), EndCalls({i}, r), r # "AlreadyConsumed", UNCHANGED acks,
         faults' = 0 /\ losses' = 0 => faults = 0 /\ losses = 0 /\ log' = log,
         crashes' = 0 => crashes = 0 /\ Settled
  PROVE  CauseInv'
  <1>1. /\ \A w \in Workers : pc'[w] = "idle"
        /\ \A j \in Instances : buf'[j] = Empty /\ status'[j] = "closed"
    BY GoneSafe
  <1>2. CleanInv'
    BY <1>1 DEF CauseInv, CleanInv
  <1>3. ASSUME faults' = 0, losses' = 0, crashes' = 0
        PROVE  /\ \A j \in Instances : \A a \in consumed'[j] : a \in Granted'
               /\ \A a \in Aids(log') : a \in Granted'
               /\ \A w \in Workers : result'[w] = "AlreadyConsumed" => call'[w].aid \in Granted'
    <2>1. /\ faults = 0 /\ losses = 0 /\ crashes = 0 /\ log' = log
          /\ Granted' = Granted
      BY <1>3 DEF Granted
    <2>2. /\ \A j \in Instances : \A a \in consumed[j] : a \in Granted
          /\ \A a \in Aids(log) : a \in Granted
          /\ \A w \in Workers : result[w] = "AlreadyConsumed" => call[w].aid \in Granted
      BY <1>3, <2>1 DEF CauseInv, GrantInv
    <2>3. \A w \in Workers : call'[w] = call[w] /\ (result'[w] = result[w] \/ result'[w] = r)
      BY DEF EndCalls
    <2>4. \A j \in Instances : consumed'[j] = {}
      BY DEF Forget, SingleWriter
    <2> QED BY <2>1, <2>2, <2>3, <2>4
  <1> QED BY <1>2, <1>3 DEF CauseInv, GrantInv

LEMMA CloseCause ==
  ASSUME SingleWriter, TypeInv, SafeInv, CauseInv, NEW i \in Instances, Close(i)
  PROVE  CauseInv'
  <1>1. /\ Forget({i}) /\ EndCalls({i}, "ValueError") /\ UNCHANGED <<acks, crashes, losses>>
        /\ lock[i] = None
    BY DEF Close, Free
  <1>2. \A w \in Workers : pc[w] \notin Critical
    BY <1>1, Nobody DEF SafeInv
  <1>3. Settled /\ \A w \in Workers : pc[w] # "flush"
    BY <1>2 DEF Settled, Critical
  <1>4. ASSUME faults' = 0, losses' = 0 PROVE faults = 0 /\ losses = 0 /\ log' = log
    <2>1. log' = Flushed(log, buf[i]) /\ faults = 0 /\ losses = 0
      BY <1>1, <1>4 DEF Close, TypeInv, TypeOK
    <2>2. buf[i] = Empty
      BY <1>3, <2>1 DEF CauseInv, CleanInv
    <2> QED BY <2>1, <2>2 DEF Flushed
  <1> QED BY <1>1, <1>3, <1>4, GoneCause

LEMMA CrashCause ==
  ASSUME SingleWriter, TypeInv, SafeInv, CauseInv, NEW i \in Instances, ProcessCrash(i)
  PROVE  CauseInv'
  <1>1. Forget({i}) /\ EndCalls({i}, "none") /\ UNCHANGED <<log, acks, losses, faults>>
    BY DEF ProcessCrash, file
  <1>2. crashes' # 0
    BY DEF ProcessCrash, TypeInv, TypeOK
  <1> QED BY <1>1, <1>2, GoneCause

\* Faults and power losses end the claims: nothing is left to keep.
LEMMA FailureCause ==
  ASSUME TypeInv, PowerLoss \/ \E w \in Workers : Fault(w) PROVE CauseInv'
  <1>1. faults' # 0 \/ losses' # 0
    BY DEF PowerLoss, Fault, TypeInv, TypeOK
  <1> QED BY <1>1 DEF CauseInv, CleanInv, GrantInv

LEMMA CallCause ==
  ASSUME TypeInv, CauseInv, NEW w \in Workers, NEW op \in Ops, NEW a \in Approvals, Call(w, op, a)
  PROVE  CauseInv'
  <1>1. /\ UNCHANGED <<log, status, consumed, head, seq, buf, acks, crashes, losses, faults>>
        /\ pc[w] = "idle"
    BY DEF Call, file, memory, counters
  <1>2. /\ pc'[w] \in {"idle", "lock"} /\ result'[w] # "AlreadyConsumed"
        /\ \A v \in Workers \ {w} : /\ pc'[v] = pc[v] /\ entry'[v] = entry[v]
                                    /\ result'[v] = result[v] /\ call'[v] = call[v]
    BY DEF Call, Return, ObjectRefusal, TypeInv, TypeOK
  <1>3. /\ Settled' <=> Settled
        /\ (\A v \in Workers : pc'[v] # "flush") <=> (\A v \in Workers : pc[v] # "flush")
        /\ Granted' = Granted
        /\ \A j \in Instances : InStep(j)' <=> InStep(j)
    BY <1>1, <1>2 DEF Settled, Granted, InStep
  <1>4. CleanInv'
    <2> SUFFICES ASSUME faults = 0, losses = 0, NEW v \in Workers
                 PROVE  /\ pc'[v] \in {"seek", "flush"} => entry'[v].prev = head[InstOf[v]]
                        /\ pc'[v] = "flush" => buf[InstOf[v]].at = Len(log)
                        /\ pc'[v] \in {"fsync", "ack"} =>
                             /\ Len(log) = seq[InstOf[v]] + 1 /\ log[Len(log)] = entry'[v]
                             /\ Aids(log) = consumed[InstOf[v]] \cup {entry'[v].aid}
      BY <1>1, <1>3 DEF CauseInv, CleanInv
    <2>1. CASE v = w
      BY <1>2, <2>1
    <2>2. CASE v # w
      BY <1>2, <2>2 DEF CauseInv, CleanInv
    <2> QED BY <2>1, <2>2
  <1>5. GrantInv'
    BY <1>1, <1>2, <1>3 DEF CauseInv, GrantInv
  <1> QED BY <1>4, <1>5 DEF CauseInv

\* What is known, before any failure, of the one thread inside the lock.
LEMMA InsideClean ==
  ASSUME CauseInv, NEW w \in Workers, pc[w] \in Critical, faults = 0, losses = 0
  PROVE  /\ Replays(log)
         /\ pc[w] \in {"seek", "flush"} => entry[w].prev = head[InstOf[w]]
         /\ pc[w] = "flush" => buf[InstOf[w]].at = Len(log)
         /\ pc[w] \in {"fsync", "ack"} =>
              /\ Len(log) = seq[InstOf[w]] + 1 /\ log[Len(log)] = entry[w]
              /\ Aids(log) = consumed[InstOf[w]] \cup {entry[w].aid}
  BY DEF CauseInv, CleanInv

\* After a step inside the lock, CleanInv need only be shown of the one thread
\* that is inside and of the one instance.
LEMMA OnlyOneClean ==
  ASSUME NEW w \in Workers, \A v \in Workers : pc'[v] \in Critical => v = w,
         \A i \in Instances : i = InstOf[w],
         faults' = 0 /\ losses' = 0 =>
           /\ Replays(log')
           /\ status'[InstOf[w]] = "open" /\ pc'[w] \notin {"fsync", "ack"} => InStep(InstOf[w])'
           /\ pc'[w] # "flush" => buf'[InstOf[w]] = Empty
           /\ pc'[w] \in {"seek", "flush"} => entry'[w].prev = head'[InstOf[w]]
           /\ pc'[w] = "flush" => buf'[InstOf[w]].at = Len(log')
           /\ pc'[w] \in {"fsync", "ack"} =>
                /\ Len(log') = seq'[InstOf[w]] + 1 /\ log'[Len(log')] = entry'[w]
                /\ Aids(log') = consumed'[InstOf[w]] \cup {entry'[w].aid}
  PROVE  CleanInv'
  <1> SUFFICES ASSUME faults' = 0, losses' = 0
               PROVE  /\ Replays(log')
                      /\ \A i \in Instances : status'[i] = "open" /\ Settled' => InStep(i)'
                      /\ \A i \in Instances : (\A v \in Workers : pc'[v] # "flush") => buf'[i] = Empty
                      /\ \A v \in Workers :
                           /\ pc'[v] \in {"seek", "flush"} => entry'[v].prev = head'[InstOf[v]]
                           /\ pc'[v] = "flush" => buf'[InstOf[v]].at = Len(log')
                           /\ pc'[v] \in {"fsync", "ack"} =>
                                /\ Len(log') = seq'[InstOf[v]] + 1 /\ log'[Len(log')] = entry'[v]
                                /\ Aids(log') = consumed'[InstOf[v]] \cup {entry'[v].aid}
    BY DEF CleanInv
  <1>1. ASSUME NEW v \in Workers, v # w
        PROVE  pc'[v] \notin {"seek", "flush", "fsync", "ack"}
    BY <1>1 DEF Critical
  <1>2. ASSUME NEW i \in Instances, status'[i] = "open", Settled' PROVE InStep(i)'
    <2>1. pc'[w] \notin {"fsync", "ack"} /\ i = InstOf[w]
      BY <1>2 DEF Settled
    <2> QED BY <1>2, <2>1
  <1> QED BY <1>1, <1>2

LEMMA AcquireCause ==
  ASSUME SingleWriter, TypeInv, SafeInv, CauseInv, NEW w \in Workers, Acquire(w)
  PROVE  CauseInv'
  <1> DEFINE i == InstOf[w]
  <1>1. /\ UNCHANGED <<log, status, consumed, head, seq, buf, call, acks, crashes, losses, faults>>
        /\ pc[w] = "lock" /\ lock[i] = None /\ i \in Instances
    BY CallTyped DEF Acquire, Free, file, memory, counters
  <1>2. \A v \in Workers : pc[v] \notin Critical
    BY <1>1, Nobody DEF SafeInv
  <1>3. Settled /\ (\A v \in Workers : pc[v] # "flush") /\ Granted' = Granted
    BY <1>1, <1>2 DEF Settled, Critical, Granted
  <1>4. InStep(i)' <=> InStep(i)
    BY <1>1 DEF InStep
  <1>5. /\ \A v \in Workers : pc'[v] \in Critical => v = w
        /\ pc'[w] \in {"idle", "seek"} /\ (pc'[w] = "seek" => entry'[w].prev = head[i])
    BY <1>1, <1>2 DEF Acquire, Return, TypeInv, TypeOK, Critical
  <1>6. CleanInv'
    <2>1. \A j \in Instances : j = i
      BY <1>1 DEF SingleWriter
    <2>2. ASSUME faults = 0, losses = 0
          PROVE  Replays(log) /\ (status[i] = "open" => InStep(i)) /\ buf[i] = Empty
      BY <1>1, <1>3, <2>2 DEF CauseInv, CleanInv
    <2> QED BY <1>1, <1>4, <1>5, <2>1, <2>2, OnlyOneClean
  <1>7. GrantInv'
    <2>1. ASSUME faults = 0, losses = 0, crashes = 0, NEW v \in Workers,
                 result'[v] = "AlreadyConsumed"
          PROVE  call[v].aid \in Granted
      <3>1. /\ consumed[i] \subseteq Granted
            /\ result[v] = "AlreadyConsumed" => call[v].aid \in Granted
        BY <1>1, <2>1 DEF CauseInv, GrantInv
      <3>2. result'[v] = result[v] \/ (v = w /\ Spent(i, call[w].aid))
        BY <2>1 DEF Acquire, Return, TypeInv, TypeOK
      <3> QED BY <2>1, <3>1, <3>2 DEF Spent
    <2> QED BY <1>1, <1>3, <2>1 DEF CauseInv, GrantInv
  <1> QED BY <1>6, <1>7 DEF CauseInv

LEMMA SeekWriteCause ==
  ASSUME SingleWriter, TypeInv, SafeInv, CauseInv, NEW w \in Workers, SeekWrite(w)
  PROVE  CauseInv'
  <1> DEFINE i == InstOf[w]
  <1>1. /\ pc[w] = "seek" /\ pc[w] \in Critical
        /\ UNCHANGED <<status, consumed, head, seq, call, entry, result, acks, crashes, losses, faults>>
        /\ log' = Flushed(log, buf[i])
        /\ buf' = [buf EXCEPT ![i] = [rec |-> entry[w], at |-> Len(log')]]
        /\ pc' = [pc EXCEPT ![w] = "flush"]
    BY DEF SeekWrite, EndOf, memory, counters, Critical
  <1>2. /\ i \in Instances /\ \A j \in Instances : j = i
        /\ \A v \in Workers : pc[v] \in Critical => v = w
    BY <1>1, Inside
  <1>3. Settled /\ Settled' /\ \A v \in Workers : pc[v] # "flush"
    BY <1>1, <1>2 DEF Settled, Critical, TypeInv, TypeOK
  <1>4. ASSUME faults = 0, losses = 0 PROVE log' = log
    <2>1. buf[i] = Empty
      BY <1>2, <1>3, <1>4 DEF CauseInv, CleanInv
    <2> QED BY <1>1, <2>1 DEF Flushed
  <1>5. /\ pc'[w] = "flush" /\ buf'[i].at = Len(log')
        /\ \A v \in Workers : pc'[v] \in Critical => v = w
    BY <1>1, <1>2 DEF TypeInv, TypeOK
  <1>6. CleanInv'
    <2>1. ASSUME faults = 0, losses = 0
          PROVE  Replays(log) /\ (status[i] = "open" => InStep(i)) /\ entry[w].prev = head[i]
      BY <1>1, <1>2, <1>3, <2>1 DEF CauseInv, CleanInv
    <2>2. ASSUME faults = 0, losses = 0 PROVE InStep(i)' <=> InStep(i)
      BY <1>1, <1>4, <2>2 DEF InStep
    <2> QED BY <1>1, <1>2, <1>4, <1>5, <2>1, <2>2, OnlyOneClean
  <1>7. GrantInv'
    BY <1>1, <1>3, <1>4 DEF CauseInv, GrantInv, Granted
  <1> QED BY <1>6, <1>7 DEF CauseInv

LEMMA FlushCause ==
  ASSUME SingleWriter, TypeInv, SafeInv, CauseInv, NEW w \in Workers, Flush(w)
  PROVE  CauseInv'
  <1> DEFINE i == InstOf[w]
  <1>1. /\ pc[w] = "flush" /\ pc[w] \in Critical
        /\ UNCHANGED <<status, consumed, head, seq, call, entry, result, acks, crashes, losses, faults>>
        /\ log' = Flushed(log, buf[i])
        /\ buf' = [buf EXCEPT ![i] = Empty]
        /\ pc' = [pc EXCEPT ![w] = "fsync"]
    BY DEF Flush, memory, counters, Critical
  <1>2. /\ i \in Instances /\ \A j \in Instances : j = i
        /\ \A v \in Workers : pc[v] \in Critical => v = w
        /\ entry[w] \in Entry /\ entry[w].seq = seq[i] /\ log \in Seq(Cell)
        /\ status[i] = "open"
    BY <1>1, Inside
  <1>3. Settled /\ ~Settled'
    BY <1>1, <1>2 DEF Settled, Critical, TypeInv, TypeOK
  <1>4. buf[i].rec = entry[w] /\ buf[i] # Empty
    <2>1. buf[i].rec = entry[w]
      BY <1>1 DEF SafeInv, PendingInv
    <2>2. entry[w] # Torn
      BY <1>2, TornType
    <2> QED BY <2>1, <2>2 DEF Empty
  <1>5. ASSUME faults = 0, losses = 0
        PROVE  /\ Replays(log') /\ Len(log') = seq[i] + 1 /\ log'[Len(log')] = entry[w]
               /\ Aids(log') = consumed[i] \cup {entry[w].aid}
    <2>1. Replays(log) /\ InStep(i) /\ entry[w].prev = head[i] /\ buf[i].at = Len(log)
      BY <1>1, <1>2, <1>3, <1>5 DEF CauseInv, CleanInv
    <2>2. log' = Append(log, entry[w])
      BY <1>1, <1>4, <2>1 DEF Flushed, WriteAt
    <2>3. Len(log') = Len(log) + 1 /\ log'[Len(log) + 1] = entry[w] /\ entry[w] \in Cell
      BY <1>2, <2>2 DEF Cell
    <2>4. /\ entry[w].seq = Len(log) /\ entry[w].prev = HeadBefore(log, Len(log) + 1)
          /\ seq[i] = Len(log) /\ consumed[i] = Aids(log)
      BY <1>2, <2>1 DEF InStep
    <2>5. Replays(log') /\ Aids(log') = Aids(log) \cup {entry[w].aid}
      BY <1>2, <2>1, <2>2, <2>4, AppendReplays
    <2> QED BY <2>3, <2>4, <2>5
  <1>6. /\ pc'[w] = "fsync" /\ buf'[i] = Empty
        /\ \A v \in Workers : pc'[v] \in Critical => v = w
    BY <1>1, <1>2 DEF TypeInv, TypeOK
  <1>7. CleanInv'
    <2>1. pc'[w] \in {"fsync", "ack"} /\ pc'[w] # "flush" /\ pc'[w] \notin {"seek", "flush"}
      BY <1>6
    <2> QED BY <1>1, <1>2, <1>5, <1>6, <2>1, OnlyOneClean
  <1>8. GrantInv'
    BY <1>1, <1>3 DEF CauseInv, GrantInv, Granted
  <1> QED BY <1>7, <1>8 DEF CauseInv

LEMMA FsyncCause ==
  ASSUME SingleWriter, TypeInv, SafeInv, CauseInv, NEW w \in Workers, Fsync(w)
  PROVE  CauseInv'
  <1> DEFINE i == InstOf[w]
  <1>1. /\ pc[w] = "fsync" /\ pc[w] \in Critical
        /\ UNCHANGED <<log, status, buf, consumed, head, seq, call, entry, result, acks,
                       crashes, losses, faults>>
        /\ pc' = [pc EXCEPT ![w] = "ack"]
    BY DEF Fsync, memory, counters, Critical
  <1>2. /\ i \in Instances /\ \A j \in Instances : j = i
        /\ \A v \in Workers : pc[v] \in Critical => v = w
        /\ buf[i] = Empty
    BY <1>1, Inside DEF SafeInv, PendingInv
  <1>3. pc'[w] = "ack" /\ ~Settled' /\ \A v \in Workers : pc'[v] \in Critical => v = w
    BY <1>1, <1>2 DEF Settled, TypeInv, TypeOK
  <1>4. CleanInv'
    <2>1. pc'[w] \in {"fsync", "ack"} /\ pc'[w] # "flush" /\ pc'[w] \notin {"seek", "flush"}
          /\ pc[w] \in {"fsync", "ack"}
      BY <1>1, <1>3
    <2> QED BY <1>1, <1>2, <1>3, <2>1, InsideClean, OnlyOneClean
  <1>5. GrantInv'
    BY <1>1, <1>3 DEF CauseInv, GrantInv, Granted
  <1> QED BY <1>4, <1>5 DEF CauseInv

LEMMA AckCause ==
  ASSUME SingleWriter, TypeInv, SafeInv, CauseInv, NEW w \in Workers, Ack(w)
  PROVE  CauseInv'
  <1> DEFINE i == InstOf[w]
  <1>1. /\ pc[w] = "ack" /\ pc[w] \in Critical
        /\ UNCHANGED <<log, status, buf, call, crashes, losses, faults>>
        /\ consumed' = [consumed EXCEPT ![i] = consumed[i] \cup {entry[w].aid}]
        /\ head' = [head EXCEPT ![i] = ChainNext(entry[w])]
        /\ seq' = [seq EXCEPT ![i] = seq[i] + 1]
        /\ acks' = Append(acks, entry[w])
        /\ Return(w, "ok")
    BY DEF Ack, AdvancedHead, AdvancedSeq, file, counters, Critical
  <1>2. /\ i \in Instances /\ \A j \in Instances : j = i
        /\ \A v \in Workers : pc[v] \in Critical => v = w
        /\ entry[w] \in Entry /\ log \in Seq(Cell)
    BY <1>1, Inside
  <1>3. /\ buf[i] = Empty /\ pc'[w] = "idle"
        /\ consumed'[i] = consumed[i] \cup {entry[w].aid} /\ head'[i] = ChainNext(entry[w])
        /\ seq'[i] = seq[i] + 1
        /\ \A v \in Workers : pc'[v] \in Critical => v = w
    BY <1>1, <1>2 DEF SafeInv, PendingInv, Return, TypeInv, TypeOK
  <1>4. ASSUME faults = 0, losses = 0
        PROVE  /\ Replays(log) /\ Len(log) = seq[i] + 1 /\ log[Len(log)] = entry[w]
               /\ Aids(log) = consumed[i] \cup {entry[w].aid}
    BY <1>1, <1>4, InsideClean
  <1>5. CleanInv'
    <2>1. ASSUME faults = 0, losses = 0 PROVE InStep(i)'
      <3>1. seq'[i] = Len(log') /\ consumed'[i] = Aids(log')
        BY <1>1, <1>3, <1>4, <2>1
      <3>2. HeadBefore(log', Len(log') + 1) = ChainNext(log'[Len(log')])
        <4>1. Len(log') \in Nat \ {0}
          BY <1>1, <1>2, <1>4, <2>1 DEF TypeInv, TypeOK
        <4>2. Len(log') + 1 # 1 /\ (Len(log') + 1) - 1 = Len(log')
          BY <4>1
        <4> QED BY <4>2 DEF HeadBefore
      <3> QED BY <1>1, <1>3, <1>4, <2>1, <3>1, <3>2 DEF InStep
    <2>2. pc'[w] \notin {"fsync", "ack"} /\ pc'[w] # "flush" /\ pc'[w] \notin {"seek", "flush"}
      BY <1>3
    <2> QED BY <1>1, <1>2, <1>3, <1>4, <2>1, <2>2, OnlyOneClean
  <1>6. Granted' = Granted \cup {entry[w].aid}
    <2>1. /\ acks \in Seq(Entry) /\ Len(acks) \in Nat /\ Len(acks') = Len(acks) + 1
          /\ acks'[Len(acks) + 1] = entry[w]
          /\ \A j \in 1..Len(acks) : acks'[j] = acks[j]
      BY <1>1, <1>2 DEF TypeInv, TypeOK
    <2>2. ASSUME NEW a \in Granted' PROVE a \in Granted \cup {entry[w].aid}
      <3>1. PICK j \in 1..Len(acks') : a = acks'[j].aid
        BY DEF Granted
      <3>2. j = Len(acks) + 1 \/ j \in 1..Len(acks)
        BY <2>1, <3>1
      <3> QED BY <2>1, <3>1, <3>2 DEF Granted
    <2>3. ASSUME NEW a \in Granted PROVE a \in Granted'
      <3>1. PICK j \in 1..Len(acks) : a = acks[j].aid
        BY DEF Granted
      <3>2. j \in 1..Len(acks') /\ acks'[j] = acks[j]
        BY <2>1, <3>1
      <3> QED BY <3>1, <3>2 DEF Granted
    <2>4. entry[w].aid \in Granted'
      <3>1. Len(acks) + 1 \in 1..Len(acks')
        BY <2>1
      <3> QED BY <2>1, <3>1 DEF Granted
    <2> QED BY <2>2, <2>3, <2>4
  <1>7. GrantInv'
    <2> SUFFICES ASSUME faults = 0, losses = 0, crashes = 0
                 PROVE  /\ \A j \in Instances : consumed'[j] \subseteq Granted'
                        /\ Aids(log) \subseteq Granted'
                        /\ \A v \in Workers : result'[v] = "AlreadyConsumed" => call[v].aid \in Granted'
      BY <1>1 DEF GrantInv
    <2>1. /\ consumed[i] \subseteq Granted
          /\ \A v \in Workers : result[v] = "AlreadyConsumed" => call[v].aid \in Granted
      BY <1>2 DEF CauseInv, GrantInv
    <2>2. \A v \in Workers : result'[v] = result[v] \/ result'[v] = "ok"
      BY <1>1 DEF Return, TypeInv, TypeOK
    <2> QED BY <1>2, <1>3, <1>4, <1>6, <2>1, <2>2
  <1> QED BY <1>5, <1>7 DEF CauseInv

LEMMA StepCause ==
  ASSUME SingleWriter, TypeInv, SafeInv, CauseInv, [Next]_vars PROVE CauseInv'
  <1>1. CASE UNCHANGED vars
    BY <1>1 DEF vars, CauseInv, CleanInv, GrantInv, Settled, InStep, Granted
  <1>2. ASSUME NEW i \in Instances, OpenLedger(i) \/ Close(i) \/ ProcessCrash(i) PROVE CauseInv'
    BY <1>2, OpenCause, CloseCause, CrashCause
  <1>3. ASSUME NEW w \in Workers, NEW op \in Ops, NEW a \in Approvals, Call(w, op, a) PROVE CauseInv'
    BY <1>3, CallCause
  <1>4. ASSUME NEW w \in Workers, Step(w) \/ Fault(w) PROVE CauseInv'
    BY <1>4, AcquireCause, SeekWriteCause, FlushCause, FsyncCause, AckCause, FailureCause DEF Step
  <1> QED BY <1>1, <1>2, <1>3, <1>4, FailureCause DEF Next

\* No refusal without a cause: an open refuses only a file that a fault or a
\* power loss has been at, and, while nothing has failed at all, consume refuses
\* only an id that it has returned to somebody.
THEOREM RefusalsHaveCause == ASSUME SingleWriter PROVE Spec => []RefusesOnlyForCause
  <1>1. Init => Invariants /\ CauseInv
    BY InitTypes, InitSafe, InitCause DEF Invariants
  <1>2. Invariants /\ CauseInv /\ [Next]_vars => (Invariants /\ CauseInv)'
    BY StepTypes, StepSafe, StepCause DEF Invariants
  <1>3. CauseInv => RefusesOnlyForCause
    BY DEF CauseInv, CleanInv, GrantInv, Granted, RefusesOnlyForCause, CleanLogReplays,
           RefusedMeansSpent
  <1> QED BY <1>1, <1>2, <1>3, PTL DEF Spec

LEMMA SeqIsFunction ==
  ASSUME NEW S, NEW t \in Seq(S) PROVE t = [k \in 1..Len(t) |-> t[k]]
  OBVIOUS

\* Append adds one element at the end and keeps the others.
LEMMA AppendElements ==
  ASSUME NEW S, NEW s \in Seq(S), NEW x \in S
  PROVE  /\ Append(s, x) \in Seq(S) /\ Len(Append(s, x)) = Len(s) + 1 /\ Len(s) \in Nat
         /\ Append(s, x) = [k \in 1..(Len(s) + 1) |-> Append(s, x)[k]]
         /\ \A k \in 1..Len(s) : Append(s, x)[k] = s[k]
         /\ Append(s, x)[Len(s) + 1] = x
  <1>1. /\ Append(s, x) \in Seq(S) /\ Len(Append(s, x)) = Len(s) + 1 /\ Len(s) \in Nat
        /\ \A k \in 1..Len(s) : Append(s, x)[k] = s[k]
        /\ Append(s, x)[Len(s) + 1] = x
    OBVIOUS
  <1>2. Append(s, x) = [k \in 1..Len(Append(s, x)) |-> Append(s, x)[k]]
    BY <1>1, SeqIsFunction
  <1> QED BY <1>1, <1>2

\* Only the return of a winning consume extends the history.
LEMMA AcksGrow ==
  ASSUME [Next]_vars, acks' # acks PROVE \E w \in Workers : Ack(w)
  BY DEF Next, vars, OpenLedger, Close, ProcessCrash, Call, Step, Acquire, SeekWrite, Flush,
         Fsync, Fault, PowerLoss

\* The ledger implements the abstract single-use set: every acknowledged consume
\* is a spend of an approval never spent before, every other step a stutter.
THEOREM LedgerImplementsSingleUse == ASSUME SingleWriter PROVE Spec => ImplementsSingleUse
  <1>1. Init => Abstract!Init
    BY DEF Init, Abstract!Init, AckedAids
  <1>2. Invariants /\ [Next]_vars => [Abstract!Next]_AckedAids
    <2> SUFFICES ASSUME TypeInv, SafeInv, [Next]_vars, acks' # acks PROVE Abstract!Next
      BY DEF Invariants, AckedAids
    <2>1. PICK w \in Workers : Ack(w)
      BY AcksGrow
    <2>2. /\ pc[w] \in Critical /\ acks' = Append(acks, entry[w])
          /\ acks \in Seq(Entry) /\ status[InstOf[w]] = "open"
          /\ entry[w] \in Entry /\ entry[w].aid \in Approvals
          /\ entry[w].aid \notin consumed[InstOf[w]] /\ InstOf[w] \in Instances
      <3>1. pc[w] \in Critical /\ acks' = Append(acks, entry[w])
        BY <2>1 DEF Ack, Critical
      <3> QED BY <3>1, Inside DEF TypeInv, TypeOK, Entry
    <2>3. /\ Len(acks) \in Nat /\ Len(acks') = Len(acks) + 1
          /\ acks'[Len(acks) + 1] = entry[w]
          /\ \A j \in 1..Len(acks) : acks'[j] = acks[j] /\ acks[j].aid \in Approvals
      <3>1. \A j \in 1..Len(acks) : acks[j] \in Entry
        BY <2>2
      <3> QED BY <2>2, <3>1 DEF Entry
    <2>4. AckedAids \in Seq(Approvals) /\ Len(AckedAids) = Len(acks) /\ DOMAIN AckedAids = 1..Len(acks)
      BY <2>3 DEF AckedAids
    <2>5. AckedAids' = Append(AckedAids, entry[w].aid)
      <3>1. AckedAids' = [k \in 1..(Len(acks) + 1) |-> acks'[k].aid]
        BY <2>3 DEF AckedAids
      <3>2. \A k \in 1..Len(acks) : AckedAids[k] = acks[k].aid
        BY DEF AckedAids
      <3> DEFINE A == Append(AckedAids, entry[w].aid)
      <3>3. /\ A = [k \in 1..(Len(AckedAids) + 1) |-> A[k]]
            /\ \A k \in 1..Len(AckedAids) : A[k] = AckedAids[k]
            /\ A[Len(AckedAids) + 1] = entry[w].aid
        <4>1. entry[w].aid \in Approvals
          BY <2>2
        <4> QED BY <4>1, <2>4, AppendElements
      <3>4. A = [k \in 1..(Len(acks) + 1) |-> A[k]]
        BY <3>3, <2>4
      <3>5. \A k \in 1..(Len(acks) + 1) : A[k] = acks'[k].aid
        BY <2>3, <2>4, <3>2, <3>3
      <3> QED BY <3>1, <3>4, <3>5
    <2>6. entry[w].aid \notin Abstract!SpentSet
      <3>1. \A j \in 1..Len(acks) : acks[j].aid \in consumed[InstOf[w]]
        BY <2>2 DEF SafeInv, MemoryInv
      <3> QED BY <3>1, <2>2, <2>4 DEF Abstract!SpentSet, AckedAids
    <2> QED BY <2>2, <2>5, <2>6 DEF Abstract!Next, Abstract!Spend
  <1> QED BY <1>1, <1>2, InvariantsHold, PTL DEF Spec, ImplementsSingleUse, Abstract!Spec
==============================================================================
