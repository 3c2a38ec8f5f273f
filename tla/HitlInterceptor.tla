--------------------------- MODULE HitlInterceptor ---------------------------
(***************************************************************************)
(* The human-in-the-loop interceptor (ecosystem/naalp-hitl): an effecting  *)
(* action is paused, a human decides, the returned approval is verified,   *)
(* consumed in the consume ledger, and only then is the action executed.   *)
(* Every refusal is written to a durable log before it is raised.          *)
(*                                                                         *)
(* Threads share one interceptor.  A human may answer with any approval in *)
(* circulation, fresh or used before.  The ledger is the promise of module *)
(* SingleUse, with what its failures leave behind (module ConsumeLedger):  *)
(* a consume that raises may or may not be found consumed after a restart. *)
(***************************************************************************)
EXTENDS Integers, Sequences, FiniteSets

CONSTANTS
  Workers,         \* threads that call intercept
  HitlActions,     \* pending actions; an action stands for its args content id
  Effect,          \* action -> effect class, 0..3
  HitlApprovals,   \* approval records in circulation
  Terms,           \* approval -> what it says and whether the approver signed it
  Threshold,       \* effect class from which approval is required
  NonRepudiation,  \* effect class from which a refusal is also signed
  None,
  MaxCalls,        \* bound on intercept calls
  MaxHitlTime,     \* bound on the clock
  MaxBack,         \* bound on backward steps of the wall clock
  MaxCrashes,      \* bound on power losses
  MaxFaults        \* bound on I/O errors

Classes == 0..3
Reasons == {"ApprovalDenied", "AudienceMismatch", "BadSignature", "ApprovalMismatch",
            "ApprovalExpired", "ApprovalRequired", "AlreadyConsumed"}
Outcomes == {"DENIED", "HELD", "UNVERIFIABLE"}

\* ApprovalRecord.  "here" is this interceptor's audience, "" names none.
Term == [approves : HitlActions, grant : Nat, audience : {"here", "elsewhere", ""},
         not_after : Nat, signed : BOOLEAN]

ASSUME HitlConstants ==
  /\ Effect \in [HitlActions -> Classes]
  /\ Terms \in [HitlApprovals -> Term]
  /\ Threshold \in Nat /\ NonRepudiation \in Nat
  /\ None \notin HitlApprovals \cup HitlActions
  /\ MaxCalls \in Nat /\ MaxHitlTime \in Nat /\ MaxBack \in Nat
  /\ MaxCrashes \in Nat /\ MaxFaults \in Nat

VARIABLES
  hitlTime,                      \* the interceptor's clock
  consumed,                      \* approvals the running ledger knows to be consumed
  durable,                       \* approvals its log holds
  rlog,                          \* the refusal log: entries and torn line fragments
  pc, act, rec, reason, number,  \* thread -> step, action, approval, refusal, call number
  executed,                      \* history: executions, each with its approval and verification time
  refused,                       \* history: refusals raised to callers
  again,                         \* history: thread -> its approval had been DENIED for its action before
  calls, back, crashes, faults

thread == <<pc, act, rec, reason, number, again>>
bounds == <<calls, back, crashes, faults>>
hitlvars == <<hitlTime, consumed, durable, rlog, pc, act, rec, reason, number, executed, refused,
          again, calls, back, crashes, faults>>

Torn == [call |-> 0, action |-> None, reason |-> "torn"]

HitlInit ==
  /\ hitlTime = 0
  /\ consumed = {} /\ durable = {}
  /\ rlog = << >>
  /\ pc = [w \in Workers |-> "idle"]
  /\ act = [w \in Workers |-> None] /\ rec = act
  /\ reason = [w \in Workers |-> "none"]
  /\ number = [w \in Workers |-> 0]
  /\ executed = << >> /\ refused = {}
  /\ again = [w \in Workers |-> FALSE]
  /\ calls = 0 /\ back = 0 /\ crashes = 0 /\ faults = 0

RequiresApproval(a) == Effect[a] >= Threshold
RequiresNonRepudiation(a) == Effect[a] >= NonRepudiation

\* Mutant: the arguments the approval binds are not compared.
RefusalUnbound(p, a, t) ==
  IF Terms[p].audience \notin {"", "here"} THEN "AudienceMismatch"
  ELSE IF ~Terms[p].signed THEN "BadSignature"
  ELSE IF t > Terms[p].not_after THEN "ApprovalExpired"
  ELSE IF Terms[p].grant > 3 \/ Effect[a] > Terms[p].grant THEN "ApprovalRequired"
  ELSE "none"

\* Mutant: the comparison with not_after is turned around.
RefusalReversed(p, a, t) ==
  IF Terms[p].audience \notin {"", "here"} THEN "AudienceMismatch"
  ELSE IF ~Terms[p].signed THEN "BadSignature"
  ELSE IF Terms[p].approves # a THEN "ApprovalMismatch"
  ELSE IF t < Terms[p].not_after THEN "ApprovalExpired"
  ELSE IF Terms[p].grant > 3 \/ Effect[a] > Terms[p].grant THEN "ApprovalRequired"
  ELSE "none"

\* verify_audience, verify_approval and the effect ceiling, in the code's order.
Refusal(p, a, t) ==
  IF Terms[p].audience \notin {"", "here"} THEN "AudienceMismatch"
  ELSE IF ~Terms[p].signed THEN "BadSignature"
  ELSE IF Terms[p].approves # a THEN "ApprovalMismatch"
  ELSE IF t > Terms[p].not_after THEN "ApprovalExpired"
  ELSE IF Terms[p].grant > 3 \/ Effect[a] > Terms[p].grant THEN "ApprovalRequired"
  ELSE "none"

\* Mutant: only the kinds raised by verify_approval are mapped.
OutcomePartial(r) ==
  CASE r = "BadSignature" -> "UNVERIFIABLE"
    [] r \in {"ApprovalMismatch", "ApprovalExpired", "ApprovalDenied"} -> "DENIED"
    [] OTHER -> "none"

\* refusal_outcome_for_reason.
Outcome(r) ==
  CASE r = "ApprovalRequired" -> "HELD"
    [] r = "BadSignature" -> "UNVERIFIABLE"
    [] OTHER -> "DENIED"

(***************************************************************************)
(* One intercept call                                                      *)
(***************************************************************************)
Goto(w, step) == pc' = [pc EXCEPT ![w] = step]

Refuse(w, r) == Goto(w, "log") /\ reason' = [reason EXCEPT ![w] = r]

\* Below the threshold the action runs at once; otherwise the thread waits for
\* the human.
Intercept(w, a) ==
  /\ pc[w] = "idle" /\ calls < MaxCalls
  /\ calls' = calls + 1
  /\ number' = [number EXCEPT ![w] = calls']
  /\ act' = [act EXCEPT ![w] = a]
  /\ rec' = [rec EXCEPT ![w] = None]
  /\ reason' = [reason EXCEPT ![w] = "none"]
  /\ again' = [again EXCEPT ![w] = FALSE]
  /\ Goto(w, IF RequiresApproval(a) THEN "human" ELSE "execute")
  /\ UNCHANGED <<hitlTime, consumed, durable, rlog, executed, refused, back, crashes, faults>>

HumanDeclines(w) ==
  /\ pc[w] = "human"
  /\ Refuse(w, "ApprovalDenied")
  /\ UNCHANGED <<hitlTime, again, consumed, durable, rlog, act, rec, number, executed, refused, bounds>>

\* The human's answer is verified at the interceptor's clock.
HumanApproves(w, p) ==
  LET r == Refusal(p, act[w], hitlTime) IN
  /\ pc[w] = "human"
  /\ rec' = [rec EXCEPT ![w] = p]
  /\ again' = [again EXCEPT ![w] = \E d \in refused : /\ d.action = act[w] /\ d.approval = p
                                                      /\ d.outcome = "DENIED"]
  /\ IF r = "none" THEN Goto(w, "consume") /\ UNCHANGED reason ELSE Refuse(w, r)
  /\ UNCHANGED <<hitlTime, consumed, durable, rlog, act, number, executed, refused, bounds>>

\* Mutant: the ledger is asked nothing.
SpentNever(p) == FALSE

Spent(p) == p \in consumed

\* ledger.consume: AlreadyConsumed, or consumed and durable.
Consume(w) ==
  /\ pc[w] = "consume"
  /\ IF Spent(rec[w])
       THEN Refuse(w, "AlreadyConsumed") /\ UNCHANGED <<consumed, durable>>
       ELSE /\ consumed' = consumed \cup {rec[w]}
            /\ durable' = durable \cup {rec[w]}
            /\ Goto(w, "execute")
            /\ UNCHANGED reason
  /\ UNCHANGED <<hitlTime, again, rlog, act, rec, number, executed, refused, bounds>>

\* ledger.consume raises OSError, which is no ApprovalError: it propagates past
\* the refusal log.  The approval may be found in the ledger's log later.
ConsumeFails(w) ==
  /\ pc[w] = "consume" /\ ~Spent(rec[w])
  /\ faults < MaxFaults /\ faults' = faults + 1
  /\ durable' \in {durable, durable \cup {rec[w]}}
  /\ Goto(w, "idle")
  /\ UNCHANGED <<hitlTime, again, consumed, rlog, act, rec, reason, number, executed, refused,
                 calls, back, crashes>>

Execute(w) ==
  /\ pc[w] = "execute"
  /\ executed' = Append(executed, [action |-> act[w], approval |-> rec[w]])
  /\ Goto(w, "idle")
  /\ UNCHANGED <<hitlTime, again, consumed, durable, rlog, act, rec, reason, number, refused, bounds>>

Raised(w) == [call |-> number[w], action |-> act[w], approval |-> rec[w], reason |-> reason[w],
              outcome |-> IF RequiresNonRepudiation(act[w]) THEN Outcome(reason[w]) ELSE "none"]

EntryOf(w) == [call |-> number[w], action |-> act[w], reason |-> reason[w]]

\* _on_refusal, first layer: RefusalLog.record writes and fsyncs the entry.
LogRefusal(w) ==
  /\ pc[w] = "log"
  /\ rlog' = Append(rlog, EntryOf(w))
  /\ Goto(w, "raise")
  /\ UNCHANGED <<hitlTime, again, consumed, durable, act, rec, reason, number, executed, refused, bounds>>

\* Second layer: the record is signed when the effect calls for it, and the error
\* is raised.
Raise(w) ==
  /\ pc[w] = "raise"
  /\ refused' = refused \cup {Raised(w)}
  /\ Goto(w, "idle")
  /\ UNCHANGED <<hitlTime, again, consumed, durable, rlog, act, rec, reason, number, executed, bounds>>

\* Mutant: the error of the log is swallowed and the refusal raised anyway.
LogFailsSwallowed(w) ==
  /\ pc[w] = "log" /\ faults < MaxFaults /\ faults' = faults + 1
  /\ Goto(w, "raise")
  /\ UNCHANGED <<hitlTime, again, consumed, durable, rlog, act, rec, reason, number, executed, refused,
                 calls, back, crashes>>

\* The refusal log raises; its error takes the place of the refusal.  Part of the
\* line may be in the file.
LogFails(w) ==
  /\ pc[w] = "log" /\ faults < MaxFaults /\ faults' = faults + 1
  /\ rlog' \in {rlog, Append(rlog, Torn)}
  /\ Goto(w, "idle")
  /\ UNCHANGED <<hitlTime, again, consumed, durable, act, rec, reason, number, executed, refused,
                 calls, back, crashes>>

(***************************************************************************)
(* The clock and failures                                                  *)
(***************************************************************************)
HitlTick ==
  /\ hitlTime < MaxHitlTime
  /\ hitlTime' = hitlTime + 1
  /\ UNCHANGED <<consumed, durable, rlog, thread, executed, refused, bounds>>

\* time.time() is the wall clock: an adjustment can set it back.
StepBack ==
  /\ hitlTime > 0 /\ back < MaxBack
  /\ back' = back + 1
  /\ hitlTime' = hitlTime - 1
  /\ UNCHANGED <<consumed, durable, rlog, thread, executed, refused, calls, crashes, faults>>

\* What the ledger knows after it has replayed its log.
Reopened(d) == d

\* The machine loses power and the process starts again; an entry being written
\* to the refusal log may be missing, torn or complete.
PowerLoss ==
  /\ crashes < MaxCrashes /\ crashes' = crashes + 1
  /\ consumed' = Reopened(durable)
  /\ LET writing == {w \in Workers : pc[w] = "log"} IN
     rlog' \in {rlog} \cup {Append(rlog, EntryOf(w)) : w \in writing}
                 \cup (IF writing = {} THEN {} ELSE {Append(rlog, Torn)})
  /\ pc' = [w \in Workers |-> "idle"]
  /\ UNCHANGED <<hitlTime, again, durable, act, rec, reason, number, executed, refused, calls, back, faults>>

HitlNext ==
  \/ \E w \in Workers :
       \/ \E a \in HitlActions : Intercept(w, a)
       \/ \E p \in HitlApprovals : HumanApproves(w, p)
       \/ HumanDeclines(w) \/ Consume(w) \/ ConsumeFails(w) \/ Execute(w)
       \/ LogRefusal(w) \/ Raise(w) \/ LogFails(w)
  \/ HitlTick \/ StepBack \/ PowerLoss

HitlSpec == HitlInit /\ [][HitlNext]_hitlvars

(***************************************************************************)
(* Properties                                                              *)
(***************************************************************************)
\* Types: a refusal has one of the named kinds, and where non-repudiation is
\* required _on_refusal signs one of the three outcomes for it.
HitlTypeOK ==
  /\ hitlTime \in 0..MaxHitlTime
  /\ consumed \subseteq HitlApprovals /\ durable \subseteq HitlApprovals
  /\ pc \in [Workers -> {"idle", "human", "consume", "execute", "log", "raise"}]
  /\ act \in [Workers -> HitlActions \cup {None}]
  /\ rec \in [Workers -> HitlApprovals \cup {None}]
  /\ reason \in [Workers -> Reasons \cup {"none"}]
  /\ number \in [Workers -> 0..MaxCalls] /\ again \in [Workers -> BOOLEAN]
  /\ rlog \in Seq([call : 1..MaxCalls, action : HitlActions, reason : Reasons] \cup {Torn})
  /\ executed \in Seq([action : HitlActions, approval : HitlApprovals \cup {None}])
  /\ refused \subseteq [call : 1..MaxCalls, action : HitlActions, approval : HitlApprovals \cup {None},
                        reason : Reasons, outcome : Outcomes \cup {"none"}]
  /\ \A r \in refused : RequiresNonRepudiation(r.action) => r.outcome \in Outcomes

\* An approval lets at most one action run, whatever threads, restarts and failed
\* consumes come between two presentations of it.
OncePerApproval ==
  \A j, k \in 1..Len(executed) :
    executed[j].approval # None /\ executed[j].approval = executed[k].approval => j = k

\* No gated action ever runs without an approval that is its own: signed, for
\* these arguments, for this audience, with an effect that covers it, and consumed.
Backed ==
  \A k \in 1..Len(executed) :
    LET a == executed[k].action
        p == executed[k].approval IN
    RequiresApproval(a) =>
      /\ p \in durable /\ p \in consumed
      /\ Terms[p].signed /\ Terms[p].approves = a
      /\ Terms[p].audience # "elsewhere" /\ Effect[a] <= Terms[p].grant

\* Whoever is told of a refusal finds its entry in the refusal log's file, after
\* every failure (record() writes and fsyncs before _on_refusal raises).
RefusalLogged ==
  \A r \in refused : \E k \in 1..Len(rlog) : rlog[k].call = r.call /\ rlog[k].reason = r.reason

\* A refusal signed as DENIED is final as long as the wall clock is not set back:
\* presented again for the same action, after any restart or failed consume, the
\* same approval never lets it run.
DeniedIsFinal == back = 0 => \A w \in Workers : pc[w] = "execute" => ~again[w]

(* An effecting action runs once per approval and under an approval of its   *)
(* own; every refusal was on the log before its caller saw it, and a denial  *)
(* stays one (HITLInterceptor.intercept, verify_and_consume, _on_refusal).   *)
ActsOnlyApproved ==
  /\ HitlTypeOK
  /\ OncePerApproval
  /\ Backed
  /\ RefusalLogged
  /\ DeniedIsFinal
==============================================================================
