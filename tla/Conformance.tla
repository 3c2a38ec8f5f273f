----------------------------- MODULE Conformance -----------------------------
(***************************************************************************)
(* How the implementations are graded.  The conformance adapter reads one  *)
(* request after another and drives a fresh stream guard, delivery         *)
(* tracker, approval ledger or auditor through the events of the request;  *)
(* the state oracles (tools/*_state_oracle.py) hold the tables it is       *)
(* graded by, on one script for each row.  Here every short script is      *)
(* driven, over two objects at once.  The portability harness runs one     *)
(* case through three framework hooks and compares what they show.  Last,  *)
(* the thread-local SHAKE cursor that lets adapters sign in threads.       *)
(*                                                                         *)
(* A digest is what it was taken over; a receipt's head is the receipt.    *)
(***************************************************************************)
EXTENDS Integers, FiniteSets, SequencesExt

CONSTANTS
  CaseObjects,     \* streams, or delivered objects, of one script
  MaxScript,       \* bound on the events of one request
  MaxCases,        \* bound on the requests of one adapter process
  GraphSize,       \* nodes of a graph to linearise
  Pools,           \* threads that sign at the same time
  Seeds,           \* what they absorb, positive numbers
  BLOCKS,          \* octets squeezed when a seed is absorbed
  MaxRead,         \* bound on one read
  MaxDrawn         \* bound on the octets a thread reads

ASSUME ConformanceConstants ==
  /\ {MaxScript, MaxCases, GraphSize, MaxRead, MaxDrawn} \subseteq Nat
  /\ Seeds \subseteq Nat \ {0} /\ BLOCKS \in Nat \ {0}

VARIABLES
  op,              \* the request being handled, "idle" between requests
  script,          \* its events so far
  subject,         \* the object under test
  verdict,         \* error of the last event, "" when it was accepted
  answer,          \* the last request with the answer it got
  cases,           \* requests begun
  kcase, outcomes, \* the portability case, and what each hook made of it
  cursor, drawn    \* per thread: the SHAKE state; the seed it absorbed and the octets it got

gradedvars == <<op, script, subject, verdict, answer, cases>>
portvars   == <<kcase, outcomes>>
shakevars  == <<cursor, drawn>>
confvars   == <<gradedvars, portvars, shakevars>>

CO == INSTANCE CausalOrder WITH NodeIds <- 1..GraphSize, MaxPosition <- 0, MaxNodes <- GraphSize,
        Overlap <- FALSE, Frames <- {}, nodes <- << >>, parent <- << >>

------------------------------------------------------------------------------
(* Events.  An open comes authorised (write under a write ceiling) or not    *)
(* (destructive under read-only); a commit with the digest of the chunks or  *)
(* with another; a consume with the approved content id or another, before   *)
(* or after not_after.                                                       *)

StreamEvents == [ev : {"open", "open_refused", "chunk", "checkpoint", "commit", "commit_other", "expire"},
                 obj : CaseObjects]
DeliveryEvents == [ev : {"update"}, obj : CaseObjects, stage : 0..3]
ConsumeEvents == [ev : {"consume"}, bound : BOOLEAN, late : BOOLEAN]

EventsOf == [stream |-> StreamEvents, delivery |-> DeliveryEvents, approval |-> ConsumeEvents]

Unseen == -1
FreshSubject == [stream |-> [o \in CaseObjects |-> "idle"], delivery |-> [o \in CaseObjects |-> Unseen],
                 approval |-> 0]

Result(error, after) == [error |-> error, after |-> after]

------------------------------------------------------------------------------
(* What the implementation does with one event *)

\* streaming.Guard
GuardEvent(states, e) ==
  LET s == states[e.obj]
      refuse(kind) == Result(kind, states)
      move(to) == Result("", [states EXCEPT ![e.obj] = to])
  IN IF s # (IF e.ev \in {"open", "open_refused"} THEN "idle" ELSE "open") THEN refuse("StreamStateError")
     ELSE CASE e.ev = "open"                    -> move("open")
            [] e.ev = "open_refused"            -> refuse("EffectNotAuthorized")
            [] e.ev \in {"chunk", "checkpoint"} -> Result("", states)
            [] e.ev = "commit"                  -> move("committed")
            [] e.ev = "commit_other"            -> refuse("StreamDigestMismatch")
            [] e.ev = "expire"                  -> move("abandoned")

\* delivery.Tracker.advance
AdvanceEvent(stages, e) ==
  IF e.stage < stages[e.obj] THEN Result("StageOutOfOrder", stages)
  ELSE Result("", [stages EXCEPT ![e.obj] = e.stage])

\* Mutant: the ledger is asked before the expiry.
ConsumeEventLedgerFirst(len, e) ==
  IF ~e.bound THEN Result("ApprovalMismatch", len)
  ELSE IF len > 0 THEN Result("AlreadyConsumed", len)
  ELSE IF e.late THEN Result("ApprovalExpired", len)
  ELSE Result("", len + 1)

\* approval.consume_approval: the binding, the expiry, then the ledger.
ConsumeEvent(len, e) ==
  IF ~e.bound THEN Result("ApprovalMismatch", len)
  ELSE IF e.late THEN Result("ApprovalExpired", len)
  ELSE IF len > 0 THEN Result("AlreadyConsumed", len)
  ELSE Result("", len + 1)

HandleEvent(machine, state, e) ==
  CASE machine = "stream"   -> GuardEvent(state, e)
    [] machine = "delivery" -> AdvanceEvent(state, e)
    [] machine = "approval" -> ConsumeEvent(state, e)

\* What is reported: the state of the last event's object, the ledger's length.
Report(machine, state, events) ==
  IF machine = "approval" THEN state
  ELSE IF events = << >> THEN (IF machine = "stream" THEN "idle" ELSE 0)
  ELSE state[Last(events).obj]

------------------------------------------------------------------------------
(* The oracle tables: from, event, error, to *)

StreamTable ==
  {<<"idle", "open", "", "open">>, <<"idle", "open_refused", "EffectNotAuthorized", "idle">>,
   <<"open", "chunk", "", "open">>, <<"open", "checkpoint", "", "open">>,
   <<"open", "commit", "", "committed">>, <<"open", "commit_other", "StreamDigestMismatch", "open">>,
   <<"open", "expire", "", "abandoned">>}
    \cup {<<"open", "open", "StreamStateError", "open">>}
    \cup {<<x[1], x[2], "StreamStateError", x[1]>> :
            x \in {"committed", "abandoned"} \X {"open", "chunk", "checkpoint", "commit", "expire"}}
    \cup {<<"idle", e, "StreamStateError", "idle">> : e \in {"chunk", "checkpoint", "commit", "expire"}}

\* An unseen object may report any stage; going on, even by a skip, and repeating
\* are accepted; going back is refused.
DeliveryTable ==
  {<<Unseen, n, "", n>> : n \in 0..3}
    \cup {<<x[1], x[2], IF x[2] < x[1] THEN "StageOutOfOrder" ELSE "", IF x[2] < x[1] THEN x[1] ELSE x[2]>>
            : x \in (0..3) \X (0..3)}

ApprovalTable ==
  {<<0, "bound", "", 1>>, <<1, "bound", "AlreadyConsumed", 1>>,
   <<0, "bound_late", "ApprovalExpired", 0>>, <<1, "bound_late", "ApprovalExpired", 1>>,
   <<0, "other", "ApprovalMismatch", 0>>, <<1, "other", "ApprovalMismatch", 1>>,
   <<0, "other_late", "ApprovalMismatch", 0>>, <<1, "other_late", "ApprovalMismatch", 1>>}

\* A pair the stream table does not list is a StreamStateError.
Row(table, from, ev) ==
  LET rows == {r \in table : r[1] = from /\ r[2] = ev}
  IN IF rows = {} THEN <<from, ev, "StreamStateError", from>> ELSE CHOOSE r \in rows : TRUE

EventName(e) ==
  CASE e.ev = "consume" -> IF e.late THEN (IF e.bound THEN "bound_late" ELSE "other_late")
                           ELSE IF e.bound THEN "bound" ELSE "other"
    [] e.ev = "update"  -> e.stage
    [] OTHER            -> e.ev

Table == [stream |-> StreamTable, delivery |-> DeliveryTable, approval |-> ApprovalTable]

\* The error and the state in which the rows of a script leave an object; the events
\* of another object pass it by.
Followed(machine, start, obj, events) ==
  LET follow[i \in 0..Len(events)] ==
        IF i = 0 THEN <<"", start>>
        ELSE IF machine # "approval" /\ events[i].obj # obj THEN follow[i - 1]
        ELSE LET r == Row(Table[machine], follow[i - 1][2], EventName(events[i])) IN <<r[3], r[4]>>
  IN follow[Len(events)]

StartOf(machine) == IF machine = "stream" THEN "idle" ELSE IF machine = "delivery" THEN Unseen ELSE 0
SubjectOf(machine, e) == IF machine = "approval" THEN "approval" ELSE e.obj
Graded(machine, events) ==
  Followed(machine, StartOf(machine), SubjectOf(machine, Last(events)), events)

------------------------------------------------------------------------------
(* The adapter's requests: an unknown event ends the request with an error,  *)
(* the object under test is made for the request and thrown away after it.   *)

NoAnswer == [op |-> "none", events |-> << >>, out |-> << >>]

\* Mutant: the ledger file of the last case is used again.
BeginRequestKept(machine) ==
  /\ op = "idle" /\ cases < MaxCases
  /\ op' = machine /\ script' = << >> /\ verdict' = "" /\ cases' = cases + 1
  /\ subject' = IF answer.op = machine THEN subject ELSE FreshSubject[machine]
  /\ answer' = NoAnswer /\ UNCHANGED <<portvars, shakevars>>

BeginRequest(machine) ==
  /\ op = "idle" /\ cases < MaxCases
  /\ op' = machine /\ script' = << >> /\ verdict' = "" /\ cases' = cases + 1
  /\ subject' = FreshSubject[machine]
  /\ answer' = NoAnswer /\ UNCHANGED <<portvars, shakevars>>

Drive(e) ==
  /\ op # "idle" /\ Len(script) < MaxScript
  /\ LET r == HandleEvent(op, subject, e) IN verdict' = r.error /\ subject' = r.after
  /\ script' = Append(script, e)
  /\ UNCHANGED <<op, answer, cases, portvars, shakevars>>

Answer(out) ==
  /\ op # "idle"
  /\ answer' = [op |-> op, events |-> script, out |-> out]
  /\ op' = "idle" /\ script' = << >> /\ verdict' = ""
  /\ UNCHANGED <<subject, cases, portvars, shakevars>>

AnswerReport == Answer(<<verdict, Report(op, subject, script)>>)
AnswerUnknownEvent == Answer(<<"unknown event">>)
AnswerSkipped ==
  /\ op = "idle" /\ cases < MaxCases /\ cases' = cases + 1
  /\ answer' = [op |-> "unknown", events |-> << >>, out |-> <<"skipped">>]
  /\ UNCHANGED <<op, script, subject, verdict, portvars, shakevars>>

------------------------------------------------------------------------------
(* reconcile.state: one event on fresh state *)

Genesis == <<>>
NextTo(rs) == IF rs = << >> THEN Genesis ELSE <<Last(rs)>>
GradedReceipts(prevs, objs) == [prev : prevs, obj : objs, seq : 0..1]

\* Chains of up to two receipts, the second linked to the first or to genesis.
Firsts == GradedReceipts({Genesis}, {"a"})
Seconds(r) == GradedReceipts({Genesis, <<r>>}, {"b"})
Chains == {<<r>> : r \in Firsts} \cup UNION {{<<r, s>> : s \in Seconds(r)} : r \in Firsts}
Extras == GradedReceipts({Genesis}, {"a", "x"})
NoExtra == [prev |-> Genesis, obj |-> "none", seq |-> 0]

Linked(links, i) == links[i].seq = i - 1 /\ links[i].prev = NextTo(SubSeq(links, 1, i - 1))

\* Mutant: the chain is verified, its receipts are not shown to the auditor.
AddChainUnobserved(links, corrupt, extra) ==
  IF \E i \in DOMAIN links : ~Linked(links, i) THEN "ChainBroken"
  ELSE IF corrupt # 0 THEN "ReceiptUnsigned" ELSE ""

\* audit.verify_chain receipt by receipt, link before signature; then every receipt
\* and the extra one are shown to a fresh auditor.
AddChain(links, corrupt, extra) ==
  LET bad == {i \in DOMAIN links : ~Linked(links, i) \/ i = corrupt}
      shown == links \o (IF extra = NoExtra THEN << >> ELSE <<extra>>)
      fork == \E i, j \in DOMAIN shown : shown[i].seq = shown[j].seq /\ shown[i].obj # shown[j].obj
      first == CHOOSE k \in bad : \A l \in bad : k <= l
  IN IF bad # {} THEN (IF ~Linked(links, first) THEN "ChainBroken" ELSE "ReceiptUnsigned")
     ELSE IF fork THEN "Equivocation" ELSE ""

GradedGraphs ==
  {[i \in 1..GraphSize |-> [id |-> i, causes |-> SetToSeq(f[i]), position |-> 0]]
     : f \in [1..GraphSize -> SUBSET (1..GraphSize)]}

Linearize(ns) == IF CO!Reconcile(ns) = CO!Violation THEN "CausalViolation" ELSE ""
VerifyOrder(ns, claimed) ==
  LET r == CO!VerifyReconcileOrder(claimed, ns) IN IF r = "verified" THEN "" ELSE r

\* The oracle's own linearisation: the least id whose causes are all emitted.
ReconcileOrder(ns) ==
  LET emitted[k \in 0..Len(ns)] ==
        IF k = 0 THEN << >>
        ELSE LET done == ToSet(emitted[k - 1])
                 ready == {i \in DOMAIN ns : ns[i].id \notin done /\ ToSet(ns[i].causes) \subseteq done}
             IN Append(emitted[k - 1], ns[CHOOSE i \in ready : \A j \in ready : ns[i].id <= ns[j].id].id)
  IN emitted[Len(ns)]

\* Nothing outlives such a request, so one is enough for each behaviour.
ReconcileRequest(event, input, out) ==
  /\ op = "idle" /\ cases = 0 /\ cases' = 1
  /\ answer' = [op |-> event, events |-> input, out |-> out]
  /\ UNCHANGED <<op, script, subject, verdict, portvars, shakevars>>

ReconcileState ==
  \/ \E links \in Chains, corrupt \in 0..2, extra \in Extras \cup {NoExtra} :
       /\ corrupt <= Len(links)
       /\ ReconcileRequest("add-chain", <<links, corrupt, extra>>, AddChain(links, corrupt, extra))
  \/ \E ns \in GradedGraphs : ReconcileRequest("linearize", ns, Linearize(ns))
  \/ \E ns \in GradedGraphs, claimed \in [1..GraphSize -> 1..GraphSize] :
       /\ ToSet(claimed) = 1..GraphSize
       /\ ReconcileRequest("verify", <<ns, claimed>>, VerifyOrder(ns, claimed))

------------------------------------------------------------------------------
(* Portability: one case through the hooks of ADK, A2A and MCP *)

NoClass == -1
Hooks == {"adk", "a2a", "mcp"}
GovernanceCases == [declared : NoClass..3, grant : NoClass..3, broken : BOOLEAN]

\* The kit's default for a variable-effect kind is the most severe class.
KitEffect(declared) == IF declared = NoClass THEN 3 ELSE declared

RecordEntry(effect, causes) == [effect |-> effect, causes |-> causes]
\* Sign, verify what was signed, append to the session's chain.
CaptureAndRecord(records, effect) ==
  Append(records, RecordEntry(effect, IF records = << >> THEN << >> ELSE <<Len(records)>>))

\* What a hook shows its framework: what it raised or returned, what it recorded.
Shown(raised, returned, records) == [raised |-> raised, returned |-> returned, records |-> records]
Uncovered(c) == c.grant # NoClass /\ KitEffect(c.declared) > c.grant
Recorded(c) == CaptureAndRecord(<< >>, KitEffect(c.declared))

\* Mutant: the grant is asked first, a refused call leaves no record.
AdkHookUnrecorded(c) ==
  IF Uncovered(c) THEN Shown("", "EffectNotAuthorized", << >>)
  ELSE IF c.broken THEN Shown("E_SIGN_FAILED", "", << >>)
  ELSE Shown("", "", Recorded(c))

\* ADK: a refusal is the dictionary that takes the place of the tool's result.
AdkHook(c) ==
  IF c.broken THEN Shown("E_SIGN_FAILED", "", << >>)
  ELSE IF Uncovered(c) THEN Shown("", "EffectNotAuthorized", Recorded(c))
  ELSE Shown("", "", Recorded(c))

\* A2A: a refusal is the policy error itself.
A2aHook(c) ==
  IF c.broken THEN Shown("E_SIGN_FAILED", "", << >>)
  ELSE IF Uncovered(c) THEN Shown("EffectNotAuthorized", "", Recorded(c))
  ELSE Shown("", "", Recorded(c))

\* MCP: a refusal is an error result; a call that went on records its result too; what
\* is raised comes out of the session's task group.
McpHook(c) ==
  IF c.broken THEN Shown(<<"group", "E_SIGN_FAILED">>, "", << >>)
  ELSE IF Uncovered(c) THEN Shown("", "EffectNotAuthorized", Recorded(c))
  ELSE Shown("", "", CaptureAndRecord(Recorded(c), KitEffect(c.declared)))

UnwrapTaskGroupError(e) == e[2]

\* One form for the three: the effect of the first record, the core's error, whether
\* the call was refused ("" when nothing was granted) and by which name.
NormalizedOutcome(s, core, denied, kind) ==
  [verified |-> IF s.records = << >> THEN NoClass ELSE s.records[1].effect,
   core |-> core, denied |-> denied, kind |-> kind]
GateVerdict(c, kind) == IF c.grant = NoClass THEN "" ELSE IF kind = "" THEN "no" ELSE "yes"

RunK1(c) ==
  LET s == AdkHook(c)
  IN IF s.raised # "" THEN NormalizedOutcome(s, s.raised, "", "")
     ELSE NormalizedOutcome(s, "", GateVerdict(c, s.returned), s.returned)

RunK2(c) ==
  LET s == A2aHook(c)
  IN CASE s.raised = "EffectNotAuthorized" -> NormalizedOutcome(s, "", "yes", s.raised)
       [] s.raised = ""                    -> NormalizedOutcome(s, "", GateVerdict(c, ""), "")
       [] OTHER                            -> NormalizedOutcome(s, s.raised, "", "")

RunK3(c) ==
  LET s == McpHook(c)
  IN IF s.records = << >> THEN NormalizedOutcome(s, UnwrapTaskGroupError(s.raised), "", "")
     ELSE NormalizedOutcome(s, "", GateVerdict(c, s.returned), s.returned)

\* Two captures of one session without a grant: a call and its result.
Ungated == [declared |-> NoClass, grant |-> NoClass, broken |-> FALSE]
RunK1Chain == CaptureAndRecord(AdkHook(Ungated).records, KitEffect(NoClass))
RunK2Chain == CaptureAndRecord(A2aHook(Ungated).records, KitEffect(NoClass))
RunK3Chain == McpHook(Ungated).records

RunCase(h) ==
  /\ h \notin DOMAIN outcomes
  /\ outcomes' = [k \in DOMAIN outcomes \cup {h} |->
                    IF k # h THEN outcomes[k]
                    ELSE CASE h = "adk" -> RunK1(kcase) [] h = "a2a" -> RunK2(kcase) [] h = "mcp" -> RunK3(kcase)]
  /\ UNCHANGED <<kcase, gradedvars, shakevars>>

\* The corpus: effect and refusal from the case alone.
ExpectedOutcome(c) ==
  LET effect == IF c.declared = NoClass THEN 3 ELSE c.declared
      denied == c.grant # NoClass /\ c.grant < effect
  IN IF c.broken THEN [verified |-> NoClass, core |-> "E_SIGN_FAILED", denied |-> "", kind |-> ""]
     ELSE [verified |-> effect, core |-> "",
           denied |-> IF c.grant = NoClass THEN "" ELSE IF denied THEN "yes" ELSE "no",
           kind |-> IF denied THEN "EffectNotAuthorized" ELSE ""]

------------------------------------------------------------------------------
(* Thread-local SHAKE: an octet is its seed and its place in the output *)

Squeeze(seed, n) == [i \in 1..n |-> <<seed, i>>]
FreshCursor == [seed |-> 0, index |-> 0, len |-> 0]

\* Mutant: the cursor of the process-wide instance.
AbsorbShared(t, seed) ==
  /\ cursor' = [u \in Pools |-> [seed |-> seed, index |-> 0, len |-> BLOCKS]]
  /\ drawn' = [drawn EXCEPT ![t] = [seed |-> seed, octets |-> << >>]]
  /\ UNCHANGED <<gradedvars, portvars>>

Absorb(t, seed) ==
  /\ cursor' = [cursor EXCEPT ![t] = [seed |-> seed, index |-> 0, len |-> BLOCKS]]
  /\ drawn' = [drawn EXCEPT ![t] = [seed |-> seed, octets |-> << >>]]
  /\ UNCHANGED <<gradedvars, portvars>>

\* The buffer is squeezed again, twice as long, until the read fits.
Doubled(len, need) ==
  LET grown[k \in 0..need] ==
        IF k = 0 THEN len ELSE IF grown[k - 1] < need THEN 2 * grown[k - 1] ELSE grown[k - 1]
  IN grown[need]

Read(t, n) ==
  /\ cursor[t].seed # 0 /\ Len(drawn[t].octets) + n <= MaxDrawn
  /\ LET c == cursor[t]
         len == Doubled(c.len, c.index + n)
         buf == Squeeze(c.seed, len)
     IN /\ drawn' = [drawn EXCEPT ![t].octets = @ \o SubSeq(buf, c.index + 1, c.index + n)]
        /\ cursor' = [cursor EXCEPT ![t] = [c EXCEPT !.index = @ + n, !.len = len]]
  /\ UNCHANGED <<gradedvars, portvars>>

------------------------------------------------------------------------------
ConfInit ==
  /\ op = "idle" /\ script = << >> /\ subject = 0 /\ verdict = "" /\ answer = NoAnswer /\ cases = 0
  /\ kcase \in GovernanceCases /\ outcomes = << >>
  /\ cursor = [t \in Pools |-> FreshCursor] /\ drawn = [t \in Pools |-> [seed |-> 0, octets |-> << >>]]

GradedNext ==
  \/ \E machine \in DOMAIN EventsOf : BeginRequest(machine)
  \/ op # "idle" /\ \E e \in EventsOf[op] : Drive(e)
  \/ AnswerReport \/ AnswerUnknownEvent \/ AnswerSkipped
PortNext == \E h \in Hooks : RunCase(h)
ShakeNext == \E t \in Pools : (\E seed \in Seeds : Absorb(t, seed)) \/ \E n \in 1..MaxRead : Read(t, n)

ConfNext == GradedNext \/ ReconcileState \/ PortNext \/ ShakeNext
ConfSpec == ConfInit /\ [][ConfNext]_confvars

------------------------------------------------------------------------------
\* Every answer the adapter gives to a stream, delivery or approval script is the one
\* the oracle's table gives, row after row: the error of the last event and the state
\* after it, whatever the refused events before it, the events of the other object in
\* between and the requests the same process answered before.
AnswersFollowTheTables ==
  answer.op \in DOMAIN EventsOf /\ answer.events # << >> /\ Len(answer.out) = 2 =>
    answer.out = Graded(answer.op, answer.events)

\* A chain with one fault is refused by the name the table has for it, one with several
\* is refused, one with none is taken; a graph is linearised exactly when it has no
\* cycle, and the only order verified is the one the oracle finds by its own search.
ReconcileFollowsItsTable ==
  LET acyclic(ns) == CO!Acyclic(CO!CausesOf(ns))
  IN /\ answer.op = "add-chain" =>
          LET links == answer.events[1]
              extra == answer.events[3]
              broken == \E i \in DOMAIN links : ~Linked(links, i)
              faults == {f \in {"ChainBroken", "ReceiptUnsigned", "Equivocation"} :
                           \/ f = "ChainBroken" /\ broken
                           \/ f = "ReceiptUnsigned" /\ answer.events[2] # 0
                           \/ f = "Equivocation" /\ \E i \in DOMAIN links :
                                links[i].seq = extra.seq /\ extra \in Extras /\ links[i].obj # extra.obj}
          IN (answer.out = "" <=> faults = {}) /\ (Cardinality(faults) = 1 => answer.out \in faults)
     /\ answer.op = "linearize" => (answer.out = "") = acyclic(answer.events)
     /\ answer.op = "verify" =>
          LET ns == answer.events[1]
          IN IF acyclic(ns) THEN (answer.out = "") = (answer.events[2] = ReconcileOrder(ns))
             ELSE answer.out = "CausalViolation"

\* The three framework hooks make the same of one case: the same effect signed, the
\* same refusal by the same name although one raises it and two return it, the same
\* core failure with nothing recorded; a second capture cites the first.
SameInEveryFramework ==
  /\ \A h \in DOMAIN outcomes : outcomes[h] = ExpectedOutcome(kcase)
  /\ RunK1Chain = RunK2Chain /\ RunK2Chain = RunK3Chain /\ Last(RunK3Chain).causes = <<1>>

\* What a thread reads from the hash it absorbed its seed into is the output for that
\* seed, each octet once and in order, however threads interleave and however often
\* the buffer had to grow.
ThreadReadsItsOwnHash ==
  \A t \in Pools : drawn[t].octets = Squeeze(drawn[t].seed, Len(drawn[t].octets))

(* Independent statements of one behaviour agree: the adapter with the       *)
(* oracles' tables, the three hooks with each other, and a hash read by      *)
(* several threads with the hash read by one (adapter.py, harness.py,        *)
(* _dilithium_thread_safety.py).                                             *)
ConformsToTables ==
  /\ AnswersFollowTheTables
  /\ ReconcileFollowsItsTable
  /\ SameInEveryFramework
  /\ ThreadReadsItsOwnHash
==============================================================================
