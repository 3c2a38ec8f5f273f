------------------------- MODULE AuthorizationProofs -------------------------
(***************************************************************************)
(* What lets something in lets it in for a cause: the interceptor, which   *)
(* acts only under an approval of its own, admission at the point of use,  *)
(* the gates that spend an approval, and judged claims, for every set of   *)
(* threads, users, keys, approvals, objects and evidence.                  *)
(***************************************************************************)
EXTENDS MCAuthorization, SequenceTheorems, FiniteSetTheorems, WellFoundedInduction, TLAPS


(***************************************************************************)
(* The interceptor                                                         *)
(***************************************************************************)
\* The counters that the types of the specification leave out.
BoundsOK == /\ calls \in 0..MaxCalls /\ back \in 0..MaxBack
            /\ crashes \in 0..MaxCrashes /\ faults \in 0..MaxFaults

\* Approval p is signed for action a, here, with an effect that covers it.
Approves(p, a) ==
  /\ Terms[p].signed /\ Terms[p].approves = a
  /\ Terms[p].audience # "elsewhere" /\ Effect[a] <= Terms[p].grant

Logged(c, r) == \E k \in 1..Len(rlog) : rlog[k].call = c /\ rlog[k].reason = r

\* Presented for action a, approval p is refused from now on.
Blocked(p, a) ==
  \/ p \in consumed
  \/ Terms[p].audience \notin {"", "here"}
  \/ Terms[p].approves # a
  \/ hitlTime > Terms[p].not_after

\* What is known about a thread at each step of its call.
ThreadOK(w) ==
  /\ pc[w] # "idle" => act[w] \in HitlActions /\ number[w] \in 1..MaxCalls
  /\ pc[w] = "human" => rec[w] = None /\ RequiresApproval(act[w])
  /\ pc[w] = "consume" => rec[w] \in HitlApprovals /\ Approves(rec[w], act[w])
  /\ pc[w] = "execute" /\ rec[w] = None => ~RequiresApproval(act[w])
  /\ pc[w] = "execute" /\ rec[w] # None => Approves(rec[w], act[w]) /\ rec[w] \in consumed
  /\ pc[w] \in {"log", "raise"} => reason[w] \in Reasons
  /\ pc[w] = "raise" => Logged(number[w], reason[w])

\* What a thread on its way to a refusal knows, and what one that presents a
\* denied approval again cannot reach.
DenialOK(w) ==
  back = 0 =>
    /\ pc[w] \in {"log", "raise"} /\ rec[w] # None /\ Outcome(reason[w]) = "DENIED"
         => Blocked(rec[w], act[w])
    /\ pc[w] = "consume" /\ again[w] => rec[w] \in consumed
    /\ pc[w] = "execute" => ~again[w]

\* Two threads about to execute hold different approvals, not yet used by an
\* execution.
HeldOnce ==
  /\ \A v, w \in Workers :
       pc[v] = "execute" /\ pc[w] = "execute" /\ rec[v] = rec[w] /\ rec[v] # None => v = w
  /\ \A w \in Workers : pc[w] = "execute" /\ rec[w] # None =>
       \A k \in 1..Len(executed) : executed[k].approval # rec[w]

ExecutedIsSpent ==
  \A k \in 1..Len(executed) : executed[k].approval # None => executed[k].approval \in consumed

DenialsStand ==
  back = 0 => \A d \in refused : d.outcome = "DENIED" /\ d.approval # None
                                   => Blocked(d.approval, d.action)

HitlInv ==
  /\ HitlTypeOK /\ BoundsOK
  /\ consumed \subseteq durable
  /\ \A w \in Workers : ThreadOK(w) /\ DenialOK(w)
  /\ HeldOnce /\ ExecutedIsSpent /\ OncePerApproval /\ Backed
  /\ RefusalLogged
  /\ DenialsStand

(***************************************************************************)
(* Operators                                                               *)
(***************************************************************************)
\* verify_approval's outcome is a refusal kind or none; none means that the
\* approval covers the action.
LEMMA RefusalTells ==
  ASSUME NEW p \in HitlApprovals, NEW a \in HitlActions, NEW t \in Nat
  PROVE  /\ Refusal(p, a, t) \in Reasons \cup {"none"}
         /\ Refusal(p, a, t) = "none" =>
              /\ Approves(p, a)
              /\ Terms[p].audience \in {"", "here"} /\ ~(t > Terms[p].not_after)
         /\ Refusal(p, a, t) # "none" /\ Outcome(Refusal(p, a, t)) = "DENIED" =>
              \/ Terms[p].audience \notin {"", "here"}
              \/ Terms[p].approves # a
              \/ t > Terms[p].not_after
  <1>1. Terms[p] \in Term /\ Effect[a] \in 0..3
    BY HitlConstants DEF Classes
  <1>2. Terms[p].grant \in Nat /\ Terms[p].not_after \in Nat
    BY <1>1 DEF Term
  <1>3. Refusal(p, a, t) \in Reasons \cup {"none"}
    BY DEF Refusal, Reasons
  <1>4. ASSUME Refusal(p, a, t) = "none"
        PROVE  /\ Approves(p, a)
               /\ Terms[p].audience \in {"", "here"} /\ ~(t > Terms[p].not_after)
    <2>1. /\ Terms[p].audience \in {"", "here"} /\ Terms[p].signed /\ Terms[p].approves = a
          /\ ~(t > Terms[p].not_after) /\ ~(Effect[a] > Terms[p].grant)
      BY <1>4 DEF Refusal
    <2>2. Effect[a] <= Terms[p].grant
      <3>1. Effect[a] \in Int /\ Terms[p].grant \in Int
        BY <1>1, <1>2
      <3>2. ~(Effect[a] > Terms[p].grant)
        BY <2>1
      <3> QED BY <3>1, <3>2
    <2>3. Terms[p].audience # "elsewhere"
      BY <2>1
    <2> QED BY <2>1, <2>2, <2>3, Zenon DEF Approves
  <1>5. ASSUME Refusal(p, a, t) # "none", Outcome(Refusal(p, a, t)) = "DENIED"
        PROVE  \/ Terms[p].audience \notin {"", "here"}
               \/ Terms[p].approves # a
               \/ t > Terms[p].not_after
    BY <1>5 DEF Refusal, Outcome
  <1> QED BY <1>3, <1>4, <1>5

LEMMA OutcomeType == ASSUME NEW r PROVE Outcome(r) \in Outcomes
  BY DEF Outcome, Outcomes

(***************************************************************************)
(* What every step keeps                                                   *)
(***************************************************************************)
\* Consumed approvals stay consumed, the refusal log is only appended to, and
\* the clock goes back only in a step that is counted.
Forward ==
  /\ consumed \subseteq consumed'
  /\ Len(rlog') \in Nat /\ Len(rlog) <= Len(rlog')
  /\ \A k \in 1..Len(rlog) : rlog'[k] = rlog[k]
  /\ back' = 0 => back = 0 /\ hitlTime' >= hitlTime

LEMMA BlockedStays ==
  ASSUME HitlInv, Forward, hitlTime' \in Nat, back' = 0,
         NEW p \in HitlApprovals, NEW a, Blocked(p, a)
  PROVE  Blocked(p, a)'
  <1>1. Terms[p] \in Term
    BY HitlConstants
  <1>2. Terms[p].not_after \in Nat
    BY <1>1 DEF Term
  <1>3. hitlTime \in Nat
    BY HitlConstants DEF HitlInv, HitlTypeOK
  <1>4. hitlTime > Terms[p].not_after => hitlTime' > Terms[p].not_after
    BY <1>2, <1>3 DEF Forward
  <1>5. p \in consumed => p \in consumed'
    BY DEF Forward
  <1> QED BY <1>4, <1>5, Zenon DEF Blocked

LEMMA LoggedStays ==
  ASSUME HitlInv, Forward, NEW c, NEW r, Logged(c, r) PROVE Logged(c, r)'
  <1>1. Len(rlog) \in Nat
    BY DEF HitlInv, HitlTypeOK
  <1> QED BY <1>1 DEF Logged, Forward

\* A step forward leaves a thread it does not move as it was.
LEMMA ThreadStays ==
  ASSUME HitlInv, Forward, hitlTime' \in Nat, NEW w \in Workers,
         pc'[w] = pc[w], act'[w] = act[w], rec'[w] = rec[w], reason'[w] = reason[w],
         number'[w] = number[w], again'[w] = again[w]
  PROVE  ThreadOK(w)' /\ DenialOK(w)'
  <1>1. ThreadOK(w) /\ DenialOK(w) /\ rec[w] \in HitlApprovals \cup {None}
    BY DEF HitlInv, HitlTypeOK
  <1>2. ThreadOK(w)'
    BY <1>1, LoggedStays DEF ThreadOK, Forward, Approves, RequiresApproval
  <1>3. DenialOK(w)'
    BY <1>1, BlockedStays DEF DenialOK, Forward, Outcome
  <1> QED BY <1>2, <1>3

\* The same for what refusals and executions have recorded.
LEMMA RefusedStays ==
  ASSUME HitlInv, Forward, hitlTime' \in Nat, UNCHANGED refused
  PROVE  RefusalLogged' /\ DenialsStand'
  <1>1. RefusalLogged'
    <2> SUFFICES ASSUME NEW d \in refused PROVE Logged(d.call, d.reason)'
      BY DEF RefusalLogged, Logged
    <2>1. Logged(d.call, d.reason)
      BY DEF HitlInv, RefusalLogged, Logged
    <2> QED BY <2>1, LoggedStays
  <1>2. DenialsStand'
    <2> SUFFICES ASSUME back' = 0, NEW d \in refused, d.outcome = "DENIED", d.approval # None
                 PROVE  Blocked(d.approval, d.action)'
      BY DEF DenialsStand
    <2>1. d.approval \in HitlApprovals
      BY DEF HitlInv, HitlTypeOK
    <2>2. Blocked(d.approval, d.action)
      BY DEF HitlInv, DenialsStand, Forward
    <2> QED BY <2>1, <2>2, BlockedStays
  <1> QED BY <1>1, <1>2

LEMMA ExecutedStays ==
  ASSUME HitlInv, Forward, durable \subseteq durable', UNCHANGED executed
  PROVE  ExecutedIsSpent' /\ OncePerApproval' /\ Backed'
  <1>1. ExecutedIsSpent' /\ OncePerApproval'
    BY DEF HitlInv, ExecutedIsSpent, OncePerApproval, Forward
  <1>2. Backed'
    BY DEF HitlInv, Backed, Forward, RequiresApproval
  <1> QED BY <1>1, <1>2

\* No thread is newly about to execute.
LEMMA HeldStays ==
  ASSUME HitlInv, UNCHANGED executed,
         \A w \in Workers : pc'[w] = "execute" =>
                              \/ rec'[w] = None
                              \/ pc[w] = "execute" /\ rec'[w] = rec[w]
  PROVE  HeldOnce'
  BY DEF HitlInv, HeldOnce

(***************************************************************************)
(* One lemma per action                                                    *)
(***************************************************************************)
LEMMA InitHitl == HitlInit => HitlInv
  <1> SUFFICES ASSUME HitlInit PROVE HitlInv
    OBVIOUS
  <1> USE HitlConstants DEF HitlInit
  <1>1. HitlTypeOK /\ BoundsOK /\ consumed \subseteq durable
    BY DEF HitlTypeOK, BoundsOK
  <1>2. ASSUME NEW w \in Workers PROVE ThreadOK(w) /\ DenialOK(w)
    BY DEF ThreadOK, DenialOK
  <1>3. HeldOnce /\ ExecutedIsSpent /\ OncePerApproval /\ Backed
    BY DEF HeldOnce, ExecutedIsSpent, OncePerApproval, Backed
  <1>4. RefusalLogged /\ DenialsStand
    BY DEF RefusalLogged, DenialsStand
  <1> QED BY <1>1, <1>2, <1>3, <1>4 DEF HitlInv

LEMMA InterceptKeeps ==
  ASSUME HitlInv, NEW w \in Workers, NEW a \in HitlActions, Intercept(w, a)
  PROVE  HitlInv'
  <1>1. /\ UNCHANGED <<hitlTime, consumed, durable, rlog, executed, refused, back, crashes, faults>>
        /\ calls < MaxCalls /\ calls' = calls + 1
        /\ number' = [number EXCEPT ![w] = calls + 1]
        /\ act' = [act EXCEPT ![w] = a]
        /\ rec' = [rec EXCEPT ![w] = None]
        /\ reason' = [reason EXCEPT ![w] = "none"]
        /\ again' = [again EXCEPT ![w] = FALSE]
        /\ pc' = [pc EXCEPT ![w] = IF RequiresApproval(a) THEN "human" ELSE "execute"]
    BY DEF Intercept, Goto
  <1>2. HitlTypeOK' /\ BoundsOK' /\ hitlTime' \in Nat
    BY <1>1, HitlConstants DEF HitlInv, HitlTypeOK, BoundsOK, RequiresNonRepudiation
  <1>3. Forward
    BY <1>1, HitlConstants DEF Forward, HitlInv, HitlTypeOK
  <1>4. ASSUME NEW v \in Workers PROVE ThreadOK(v)' /\ DenialOK(v)'
    <2>1. CASE v = w
      <3>1. /\ pc'[w] = IF RequiresApproval(a) THEN "human" ELSE "execute"
            /\ act'[w] = a /\ rec'[w] = None /\ number'[w] = calls + 1
            /\ again'[w] = FALSE
        BY <1>1 DEF HitlInv, HitlTypeOK
      <3>2. calls + 1 \in 1..MaxCalls
        BY <1>1, HitlConstants DEF HitlInv, BoundsOK
      <3> QED BY <2>1, <3>1, <3>2 DEF ThreadOK, DenialOK, RequiresApproval
    <2>2. CASE v # w
      <3>1. /\ pc'[v] = pc[v] /\ act'[v] = act[v] /\ rec'[v] = rec[v] /\ reason'[v] = reason[v]
            /\ number'[v] = number[v] /\ again'[v] = again[v]
        BY <2>2, <1>1 DEF HitlInv, HitlTypeOK
      <3> QED BY <3>1, <1>2, <1>3, ThreadStays
    <2> QED BY <2>1, <2>2
  <1>5. HeldOnce'
    BY <1>1, HeldStays DEF HitlInv, HitlTypeOK
  <1> QED BY <1>1, <1>2, <1>3, <1>4, <1>5, RefusedStays, ExecutedStays DEF HitlInv

LEMMA HumanDeclinesKeeps ==
  ASSUME HitlInv, NEW w \in Workers, HumanDeclines(w)
  PROVE  HitlInv'
  <1>1. /\ UNCHANGED <<hitlTime, again, consumed, durable, rlog, act, rec, number, executed,
                       refused, calls, back, crashes, faults>>
        /\ pc[w] = "human"
        /\ pc' = [pc EXCEPT ![w] = "log"]
        /\ reason' = [reason EXCEPT ![w] = "ApprovalDenied"]
    BY DEF HumanDeclines, Refuse, Goto, bounds
  <1>2. HitlTypeOK' /\ BoundsOK' /\ hitlTime' \in Nat
    BY <1>1, HitlConstants DEF HitlInv, HitlTypeOK, BoundsOK, RequiresNonRepudiation, Reasons
  <1>3. Forward
    BY <1>1, HitlConstants DEF Forward, HitlInv, HitlTypeOK
  <1>4. ASSUME NEW v \in Workers PROVE ThreadOK(v)' /\ DenialOK(v)'
    <2>1. CASE v = w
      <3>1. pc'[w] = "log" /\ reason'[w] = "ApprovalDenied"
        BY <1>1 DEF HitlInv, HitlTypeOK
      <3>2. rec[w] = None /\ act[w] \in HitlActions /\ number[w] \in 1..MaxCalls
        BY <1>1 DEF HitlInv, ThreadOK
      <3> QED BY <1>1, <2>1, <3>1, <3>2 DEF ThreadOK, DenialOK, Reasons
    <2>2. CASE v # w
      <3>1. /\ pc'[v] = pc[v] /\ act'[v] = act[v] /\ rec'[v] = rec[v] /\ reason'[v] = reason[v]
            /\ number'[v] = number[v] /\ again'[v] = again[v]
        BY <2>2, <1>1 DEF HitlInv, HitlTypeOK
      <3> QED BY <3>1, <1>2, <1>3, ThreadStays
    <2> QED BY <2>1, <2>2
  <1>5. HeldOnce'
    BY <1>1, HeldStays DEF HitlInv, HitlTypeOK
  <1> QED BY <1>1, <1>2, <1>3, <1>4, <1>5, RefusedStays, ExecutedStays DEF HitlInv

LEMMA HumanApprovesKeeps ==
  ASSUME HitlInv, NEW w \in Workers, NEW p \in HitlApprovals, HumanApproves(w, p)
  PROVE  HitlInv'
  <1> DEFINE r == Refusal(p, act[w], hitlTime)
             denied == \E d \in refused : /\ d.action = act[w] /\ d.approval = p
                                          /\ d.outcome = "DENIED"
  <1>1. /\ UNCHANGED <<hitlTime, consumed, durable, rlog, act, number, executed,
                       refused, calls, back, crashes, faults>>
        /\ pc[w] = "human"
        /\ rec' = [rec EXCEPT ![w] = p]
        /\ again' = [again EXCEPT ![w] = denied]
        /\ r = "none" => pc' = [pc EXCEPT ![w] = "consume"] /\ reason' = reason
        /\ r # "none" => pc' = [pc EXCEPT ![w] = "log"] /\ reason' = [reason EXCEPT ![w] = r]
    BY DEF HumanApproves, Refuse, Goto, bounds
  <1>2. /\ act[w] \in HitlActions /\ number[w] \in 1..MaxCalls /\ hitlTime \in Nat
        /\ denied \in BOOLEAN
    BY <1>1, HitlConstants DEF HitlInv, ThreadOK, HitlTypeOK
  <1>3. /\ r \in Reasons \cup {"none"}
        /\ r = "none" => /\ Approves(p, act[w])
                         /\ Terms[p].audience \in {"", "here"} /\ ~(hitlTime > Terms[p].not_after)
        /\ r # "none" /\ Outcome(r) = "DENIED" => Blocked(p, act[w])
    BY <1>2, RefusalTells DEF Blocked
  <1>4. denied /\ back = 0 => Blocked(p, act[w])
    BY HitlConstants DEF HitlInv, DenialsStand
  <1>5. r = "none" /\ denied /\ back = 0 => p \in consumed
    BY <1>3, <1>4 DEF Blocked, Approves
  <1> HIDE DEF r, denied
  <1>6. HitlTypeOK' /\ BoundsOK' /\ hitlTime' \in Nat
    <2>1. /\ pc' \in [Workers -> {"idle", "human", "consume", "execute", "log", "raise"}]
          /\ reason' \in [Workers -> Reasons \cup {"none"}]
      BY <1>1, <1>3 DEF HitlInv, HitlTypeOK
    <2>2. rec' \in [Workers -> HitlApprovals \cup {None}] /\ again' \in [Workers -> BOOLEAN]
      BY <1>1, <1>2 DEF HitlInv, HitlTypeOK
    <2> QED BY <1>1, <1>2, <2>1, <2>2 DEF HitlInv, HitlTypeOK, BoundsOK, RequiresNonRepudiation
  <1>7. Forward
    BY <1>1, HitlConstants DEF Forward, HitlInv, HitlTypeOK
  <1>8. ASSUME NEW v \in Workers PROVE ThreadOK(v)' /\ DenialOK(v)'
    <2>1. CASE v = w
      <3>1. /\ rec'[w] = p /\ p # None /\ (again'[w] <=> denied)
            /\ act'[w] = act[w] /\ number'[w] = number[w]
        BY <1>1, <1>2, HitlConstants DEF HitlInv, HitlTypeOK
      <3>2. CASE r = "none"
        <4>1. pc'[w] = "consume"
          BY <1>1, <3>2 DEF HitlInv, HitlTypeOK
        <4>2. ThreadOK(w)'
          BY <1>2, <1>3, <3>1, <3>2, <4>1 DEF ThreadOK, Approves
        <4>3. DenialOK(w)'
          BY <1>1, <1>5, <3>1, <3>2, <4>1 DEF DenialOK
        <4> QED BY <2>1, <4>2, <4>3
      <3>3. CASE r # "none"
        <4>1. pc'[w] = "log" /\ reason'[w] = r
          BY <1>1, <3>3 DEF HitlInv, HitlTypeOK
        <4>2. ThreadOK(w)'
          BY <1>2, <1>3, <3>1, <3>3, <4>1 DEF ThreadOK
        <4>3. DenialOK(w)'
          <5>1. Outcome(reason'[w]) = Outcome(r)
            BY <4>1
          <5>2. Outcome(r) = "DENIED" => Blocked(p, act[w])
            BY <1>3, <3>3
          <5>3. Blocked(p, act[w]) => Blocked(rec[w], act[w])'
            <6>1. /\ consumed' = consumed /\ hitlTime' = hitlTime
                  /\ rec'[w] = p /\ act'[w] = act[w]
              BY <1>1, <3>1
            <6> QED BY <6>1, Zenon DEF Blocked
          <5> QED BY <4>1, <5>1, <5>2, <5>3 DEF DenialOK
        <4> QED BY <2>1, <4>2, <4>3
      <3> QED BY <3>2, <3>3
    <2>2. CASE v # w
      <3>1. /\ pc'[v] = pc[v] /\ act'[v] = act[v] /\ rec'[v] = rec[v] /\ reason'[v] = reason[v]
            /\ number'[v] = number[v] /\ again'[v] = again[v]
        BY <2>2, <1>1 DEF HitlInv, HitlTypeOK
      <3> QED BY <3>1, <1>6, <1>7, ThreadStays
    <2> QED BY <2>1, <2>2
  <1>9. HeldOnce'
    BY <1>1, HeldStays DEF HitlInv, HitlTypeOK
  <1> QED BY <1>1, <1>6, <1>7, <1>8, <1>9, RefusedStays, ExecutedStays DEF HitlInv

LEMMA ConsumeKeeps ==
  ASSUME HitlInv, NEW w \in Workers, Consume(w)
  PROVE  HitlInv'
  <1>1. /\ UNCHANGED <<hitlTime, again, rlog, act, rec, number, executed, refused,
                       calls, back, crashes, faults>>
        /\ pc[w] = "consume"
        /\ rec[w] \in consumed =>
             /\ pc' = [pc EXCEPT ![w] = "log"]
             /\ reason' = [reason EXCEPT ![w] = "AlreadyConsumed"]
             /\ UNCHANGED <<consumed, durable>>
        /\ rec[w] \notin consumed =>
             /\ consumed' = consumed \cup {rec[w]} /\ durable' = durable \cup {rec[w]}
             /\ pc' = [pc EXCEPT ![w] = "execute"]
             /\ UNCHANGED reason
    BY DEF Consume, Spent, Refuse, Goto, bounds
  <1>a. /\ rec[w] \in HitlApprovals /\ rec[w] # None /\ Approves(rec[w], act[w])
        /\ act[w] \in HitlActions /\ number[w] \in 1..MaxCalls
        /\ back = 0 /\ again[w] => rec[w] \in consumed
    BY <1>1, HitlConstants DEF HitlInv, ThreadOK, DenialOK
  <1>2. HitlTypeOK' /\ BoundsOK' /\ hitlTime' \in Nat
    <2>1. /\ pc' \in [Workers -> {"idle", "human", "consume", "execute", "log", "raise"}]
          /\ reason' \in [Workers -> Reasons \cup {"none"}]
          /\ consumed' \subseteq HitlApprovals /\ durable' \subseteq HitlApprovals
      <3>1. CASE rec[w] \in consumed
        BY <1>1, <3>1 DEF HitlInv, HitlTypeOK, Reasons
      <3>2. CASE rec[w] \notin consumed
        BY <1>1, <1>a, <3>2 DEF HitlInv, HitlTypeOK
      <3> QED BY <3>1, <3>2
    <2> QED BY <1>1, <2>1, HitlConstants DEF HitlInv, HitlTypeOK, BoundsOK, RequiresNonRepudiation
  <1>3. Forward /\ durable \subseteq durable' /\ consumed' \subseteq durable'
    <2>1. /\ consumed \subseteq consumed' /\ durable \subseteq durable'
          /\ consumed' \subseteq durable'
      BY <1>1 DEF HitlInv
    <2> QED BY <1>1, <2>1, HitlConstants DEF Forward, HitlInv, HitlTypeOK
  <1>4. ASSUME NEW v \in Workers PROVE ThreadOK(v)' /\ DenialOK(v)'
    <2>1. CASE v = w
      <3>1. /\ act'[w] = act[w] /\ rec'[w] = rec[w] /\ number'[w] = number[w]
            /\ again'[w] = again[w] /\ back' = back
        BY <1>1
      <3>2. CASE rec[w] \in consumed
        <4>1. pc'[w] = "log" /\ reason'[w] = "AlreadyConsumed" /\ rec[w] \in consumed'
          BY <1>1, <3>2 DEF HitlInv, HitlTypeOK
        <4> QED BY <1>a, <2>1, <3>1, <4>1 DEF ThreadOK, DenialOK, Blocked, Reasons
      <3>3. CASE rec[w] \notin consumed
        <4>1. pc'[w] = "execute" /\ rec[w] \in consumed'
          BY <1>1, <3>3 DEF HitlInv, HitlTypeOK
        <4>2. ThreadOK(w)'
          BY <1>a, <3>1, <4>1 DEF ThreadOK, Approves
        <4>3. DenialOK(w)'
          BY <1>a, <3>1, <3>3, <4>1 DEF DenialOK
        <4> QED BY <2>1, <4>2, <4>3
      <3> QED BY <3>2, <3>3
    <2>2. CASE v # w
      <3>1. /\ pc'[v] = pc[v] /\ act'[v] = act[v] /\ rec'[v] = rec[v] /\ reason'[v] = reason[v]
            /\ number'[v] = number[v] /\ again'[v] = again[v]
        BY <2>2, <1>1 DEF HitlInv, HitlTypeOK
      <3> QED BY <3>1, <1>2, <1>3, ThreadStays
    <2> QED BY <2>1, <2>2
  <1>5. HeldOnce'
    <2>1. CASE rec[w] \in consumed
      BY <1>1, <2>1, HeldStays DEF HitlInv, HitlTypeOK
    <2>2. CASE rec[w] \notin consumed
      <3>1. \A v \in Workers : pc[v] = "execute" /\ rec[v] # None => rec[v] # rec[w]
        BY <2>2 DEF HitlInv, ThreadOK
      <3>2. \A k \in 1..Len(executed) : executed[k].approval # rec[w]
        BY <2>2, <1>a DEF HitlInv, ExecutedIsSpent
      <3>3. \A v \in Workers : pc'[v] = IF v = w THEN "execute" ELSE pc[v]
        BY <1>1, <2>2 DEF HitlInv, HitlTypeOK
      <3> QED BY <1>1, <3>1, <3>2, <3>3 DEF HitlInv, HeldOnce
    <2> QED BY <2>1, <2>2
  <1> QED BY <1>1, <1>2, <1>3, <1>4, <1>5, RefusedStays, ExecutedStays DEF HitlInv

\* A thread that returns to idle without an execution leaves the rest alone.
LEMMA ReturnKeeps ==
  ASSUME HitlInv, NEW w \in Workers, pc' = [pc EXCEPT ![w] = "idle"],
         Forward, hitlTime' \in Nat, HitlTypeOK', BoundsOK',
         durable \subseteq durable', consumed' \subseteq durable',
         UNCHANGED <<act, rec, reason, number, again, executed>>,
         RefusalLogged', DenialsStand'
  PROVE  HitlInv'
  <1>1. ASSUME NEW v \in Workers PROVE ThreadOK(v)' /\ DenialOK(v)'
    <2>1. CASE v = w
      <3>1. pc'[w] = "idle"
        BY DEF HitlInv, HitlTypeOK
      <3> QED BY <2>1, <3>1 DEF ThreadOK, DenialOK
    <2>2. CASE v # w
      <3>1. pc'[v] = pc[v]
        BY <2>2 DEF HitlInv, HitlTypeOK
      <3> QED BY <3>1, ThreadStays
    <2> QED BY <2>1, <2>2
  <1>2. HeldOnce'
    BY HeldStays DEF HitlInv, HitlTypeOK
  <1> QED BY <1>1, <1>2, ExecutedStays DEF HitlInv

LEMMA ConsumeFailsKeeps ==
  ASSUME HitlInv, NEW w \in Workers, ConsumeFails(w)
  PROVE  HitlInv'
  <1>1. /\ UNCHANGED <<hitlTime, again, consumed, rlog, act, rec, reason, number, executed,
                       refused, calls, back, crashes>>
        /\ pc[w] = "consume" /\ durable' \in {durable, durable \cup {rec[w]}}
        /\ faults < MaxFaults /\ faults' = faults + 1
        /\ pc' = [pc EXCEPT ![w] = "idle"]
    BY DEF ConsumeFails, Goto
  <1>2. rec[w] \in HitlApprovals
    BY <1>1 DEF HitlInv, ThreadOK
  <1>3. HitlTypeOK' /\ BoundsOK' /\ hitlTime' \in Nat
    <2>1. durable' \subseteq HitlApprovals
      BY <1>1, <1>2 DEF HitlInv, HitlTypeOK
    <2> QED BY <1>1, <2>1, HitlConstants DEF HitlInv, HitlTypeOK, BoundsOK, RequiresNonRepudiation
  <1>4. Forward /\ durable \subseteq durable' /\ consumed' \subseteq durable'
    BY <1>1, HitlConstants DEF Forward, HitlInv, HitlTypeOK
  <1> QED BY <1>1, <1>3, <1>4, RefusedStays, ReturnKeeps

LEMMA ExecuteKeeps ==
  ASSUME HitlInv, NEW w \in Workers, Execute(w)
  PROVE  HitlInv'
  <1> DEFINE run == [action |-> act[w], approval |-> rec[w]]
             n == Len(executed)
  <1>1. /\ UNCHANGED <<hitlTime, again, consumed, durable, rlog, act, rec, reason, number,
                       refused, calls, back, crashes, faults>>
        /\ pc[w] = "execute"
        /\ executed' = Append(executed, run)
        /\ pc' = [pc EXCEPT ![w] = "idle"]
    BY DEF Execute, Goto, bounds
  <1>a. /\ act[w] \in HitlActions /\ rec[w] \in HitlApprovals \cup {None}
        /\ rec[w] = None => ~RequiresApproval(act[w])
        /\ rec[w] # None => Approves(rec[w], act[w]) /\ rec[w] \in consumed
        /\ rec[w] # None => \A k \in 1..n : executed[k].approval # rec[w]
    BY <1>1 DEF HitlInv, ThreadOK, HitlTypeOK, HeldOnce
  <1>b. run \in [action : HitlActions, approval : HitlApprovals \cup {None}]
    BY <1>a
  <1>c. /\ executed' \in Seq([action : HitlActions, approval : HitlApprovals \cup {None}])
        /\ n \in Nat /\ Len(executed') = n + 1 /\ executed'[n + 1] = run
        /\ \A k \in 1..n : executed'[k] = executed[k]
    BY <1>1, <1>b DEF HitlInv, HitlTypeOK
  <1>d. run.action = act[w] /\ run.approval = rec[w]
    OBVIOUS
  <1> HIDE DEF run, n
  <1>2. HitlTypeOK' /\ BoundsOK' /\ hitlTime' \in Nat
    BY <1>1, <1>c, HitlConstants DEF HitlInv, HitlTypeOK, BoundsOK, RequiresNonRepudiation
  <1>3. Forward
    BY <1>1, HitlConstants DEF Forward, HitlInv, HitlTypeOK
  <1>4. ASSUME NEW v \in Workers PROVE ThreadOK(v)' /\ DenialOK(v)'
    <2>1. CASE v = w
      <3>1. pc'[w] = "idle"
        BY <1>1 DEF HitlInv, HitlTypeOK
      <3> QED BY <2>1, <3>1 DEF ThreadOK, DenialOK
    <2>2. CASE v # w
      <3>1. pc'[v] = pc[v]
        BY <1>1, <2>2 DEF HitlInv, HitlTypeOK
      <3> QED BY <1>1, <1>2, <1>3, <3>1, ThreadStays
    <2> QED BY <2>1, <2>2
  <1>5. \A v \in Workers : pc'[v] = IF v = w THEN "idle" ELSE pc[v]
    BY <1>1 DEF HitlInv, HitlTypeOK
  <1>6. \A k \in 1..(n + 1) : k \in 1..n \/ k = n + 1
    BY <1>c
  <1>7. HeldOnce'
    <2>1. \A u, v \in Workers :
            pc'[u] = "execute" /\ pc'[v] = "execute" /\ rec'[u] = rec'[v] /\ rec'[u] # None => u = v
      BY <1>1, <1>5 DEF HitlInv, HeldOnce
    <2>2. ASSUME NEW v \in Workers, pc'[v] = "execute", rec'[v] # None,
                 NEW k \in 1..Len(executed')
          PROVE  executed'[k].approval # rec'[v]
      <3>1. v # w /\ pc[v] = "execute" /\ rec[v] # None /\ rec'[v] = rec[v] /\ rec[v] # rec[w]
        BY <1>1, <1>5, <2>2 DEF HitlInv, HeldOnce
      <3>2. CASE k \in 1..n
        BY <3>1, <3>2, <1>c DEF HitlInv, HeldOnce, n
      <3>3. CASE k = n + 1
        BY <3>1, <3>3, <1>c, <1>d
      <3> QED BY <3>2, <3>3, <1>c, <1>6
    <2> QED BY <2>1, <2>2 DEF HeldOnce
  <1>8. ASSUME NEW k \in 1..Len(executed')
        PROVE  /\ executed'[k].approval # None => executed'[k].approval \in consumed'
               /\ RequiresApproval(executed'[k].action) =>
                    /\ executed'[k].approval \in durable' /\ executed'[k].approval \in consumed'
                    /\ Approves(executed'[k].approval, executed'[k].action)
    <2>1. CASE k \in 1..n
      <3>1. executed'[k] = executed[k] /\ k \in 1..Len(executed)
        BY <2>1, <1>c DEF n
      <3> QED BY <1>1, <3>1 DEF HitlInv, ExecutedIsSpent, Backed, Approves
    <2>2. CASE k = n + 1
      <3>1. executed'[k].action = act[w] /\ executed'[k].approval = rec[w]
        BY <2>2, <1>c, <1>d
      <3> QED BY <1>1, <1>a, <3>1 DEF HitlInv
    <2> QED BY <2>1, <2>2, <1>c, <1>6
  <1>9. ExecutedIsSpent' /\ Backed'
    BY <1>8 DEF ExecutedIsSpent, Backed, Approves, RequiresApproval
  <1>10. OncePerApproval'
    <2> SUFFICES ASSUME NEW j \in 1..Len(executed'), NEW k \in 1..Len(executed'),
                        executed'[j].approval # None,
                        executed'[j].approval = executed'[k].approval
                 PROVE  j = k
      BY DEF OncePerApproval
    <2>1. CASE j \in 1..n /\ k \in 1..n
      BY <2>1, <1>c DEF HitlInv, OncePerApproval, n
    <2>2. CASE j = n + 1 /\ k \in 1..n
      BY <2>2, <1>a, <1>c, <1>d
    <2>3. CASE k = n + 1 /\ j \in 1..n
      BY <2>3, <1>a, <1>c, <1>d
    <2> QED BY <2>1, <2>2, <2>3, <1>c, <1>6
  <1> QED BY <1>1, <1>2, <1>3, <1>4, <1>7, <1>9, <1>10, RefusedStays DEF HitlInv

\* An entry appended to the refusal log keeps what was there.
LEMMA LogAppended ==
  ASSUME HitlInv, NEW e \in [call : 1..MaxCalls, action : HitlActions, reason : Reasons] \cup {Torn},
         rlog' = Append(rlog, e)
  PROVE  /\ rlog' \in Seq([call : 1..MaxCalls, action : HitlActions, reason : Reasons] \cup {Torn})
         /\ Len(rlog') \in Nat /\ Len(rlog) <= Len(rlog')
         /\ \A k \in 1..Len(rlog) : rlog'[k] = rlog[k]
         /\ Logged(e.call, e.reason)'
  <1>1. rlog \in Seq([call : 1..MaxCalls, action : HitlActions, reason : Reasons] \cup {Torn})
    BY DEF HitlInv, HitlTypeOK
  <1>2. Len(rlog) \in Nat /\ Len(rlog') = Len(rlog) + 1 /\ rlog'[Len(rlog) + 1] = e
    BY <1>1
  <1>3. Len(rlog) + 1 \in 1..Len(rlog')
    BY <1>2
  <1>4. Logged(e.call, e.reason)'
    BY <1>2, <1>3 DEF Logged
  <1> QED BY <1>1, <1>2, <1>4

LEMMA EntryTyped ==
  ASSUME HitlInv, NEW w \in Workers, pc[w] = "log"
  PROVE  EntryOf(w) \in [call : 1..MaxCalls, action : HitlActions, reason : Reasons]
  BY DEF HitlInv, ThreadOK, EntryOf

LEMMA LogRefusalKeeps ==
  ASSUME HitlInv, NEW w \in Workers, LogRefusal(w)
  PROVE  HitlInv'
  <1>1. /\ UNCHANGED <<hitlTime, again, consumed, durable, act, rec, reason, number, executed,
                       refused, calls, back, crashes, faults>>
        /\ pc[w] = "log"
        /\ rlog' = Append(rlog, EntryOf(w))
        /\ pc' = [pc EXCEPT ![w] = "raise"]
    BY DEF LogRefusal, Goto, bounds
  <1>a. /\ EntryOf(w) \in [call : 1..MaxCalls, action : HitlActions, reason : Reasons]
        /\ EntryOf(w).call = number[w] /\ EntryOf(w).reason = reason[w]
    BY <1>1, EntryTyped DEF EntryOf
  <1>b. /\ rlog' \in Seq([call : 1..MaxCalls, action : HitlActions, reason : Reasons] \cup {Torn})
        /\ Len(rlog') \in Nat /\ Len(rlog) <= Len(rlog')
        /\ \A k \in 1..Len(rlog) : rlog'[k] = rlog[k]
        /\ Logged(number[w], reason[w])'
    <2>1. Logged(EntryOf(w).call, EntryOf(w).reason)' =>
            \E k \in 1..Len(rlog') : rlog'[k].call = number[w] /\ rlog'[k].reason = reason[w]
      <3>1. EntryOf(w)' = EntryOf(w)
        BY <1>1 DEF EntryOf
      <3> QED BY <1>a, <3>1 DEF Logged
    <2>2. EntryOf(w)' = EntryOf(w)
      BY <1>1 DEF EntryOf
    <2>3. PICK e : e = EntryOf(w)
      OBVIOUS
    <2>4. /\ rlog' \in Seq([call : 1..MaxCalls, action : HitlActions, reason : Reasons] \cup {Torn})
          /\ Len(rlog') \in Nat /\ Len(rlog) <= Len(rlog')
          /\ \A k \in 1..Len(rlog) : rlog'[k] = rlog[k]
          /\ Logged(e.call, e.reason)'
      BY <1>1, <1>a, <2>3, LogAppended
    <2> QED BY <1>1, <1>a, <2>3, <2>4 DEF Logged
  <1>2. HitlTypeOK' /\ BoundsOK' /\ hitlTime' \in Nat
    BY <1>1, <1>b, HitlConstants DEF HitlInv, HitlTypeOK, BoundsOK, RequiresNonRepudiation
  <1>3. Forward
    BY <1>1, <1>b, HitlConstants DEF Forward, HitlInv, HitlTypeOK
  <1>4. ASSUME NEW v \in Workers PROVE ThreadOK(v)' /\ DenialOK(v)'
    <2>1. CASE v = w
      <3>1. pc'[w] = "raise" /\ reason'[w] = reason[w] /\ number'[w] = number[w]
            /\ rec'[w] = rec[w] /\ act'[w] = act[w] /\ back' = back
        BY <1>1 DEF HitlInv, HitlTypeOK
      <3>2. /\ reason[w] \in Reasons /\ act[w] \in HitlActions /\ number[w] \in 1..MaxCalls
            /\ rec[w] \in HitlApprovals \cup {None}
        BY <1>1 DEF HitlInv, ThreadOK, HitlTypeOK
      <3>3. ThreadOK(w)'
        BY <3>1, <3>2, <1>b DEF ThreadOK
      <3>4. back = 0 /\ rec[w] # None /\ Outcome(reason[w]) = "DENIED" => Blocked(rec[w], act[w])
        BY <1>1 DEF HitlInv, DenialOK
      <3>5. Outcome(reason'[w]) = Outcome(reason[w])
        BY <3>1
      <3>6. Blocked(rec[w], act[w]) => Blocked(rec[w], act[w])'
        BY <1>1 DEF Blocked
      <3>7. DenialOK(w)'
        BY <3>1, <3>4, <3>5, <3>6 DEF DenialOK
      <3> QED BY <2>1, <3>3, <3>7
    <2>2. CASE v # w
      <3>1. pc'[v] = pc[v]
        BY <1>1, <2>2 DEF HitlInv, HitlTypeOK
      <3> QED BY <1>1, <1>2, <1>3, <3>1, ThreadStays
    <2> QED BY <2>1, <2>2
  <1>5. HeldOnce'
    BY <1>1, HeldStays DEF HitlInv, HitlTypeOK
  <1> QED BY <1>1, <1>2, <1>3, <1>4, <1>5, RefusedStays, ExecutedStays DEF HitlInv

LEMMA RaiseKeeps ==
  ASSUME HitlInv, NEW w \in Workers, Raise(w)
  PROVE  HitlInv'
  <1> DEFINE d == Raised(w)
  <1>1. /\ UNCHANGED <<hitlTime, again, consumed, durable, rlog, act, rec, reason, number,
                       executed, calls, back, crashes, faults>>
        /\ pc[w] = "raise"
        /\ refused' = refused \cup {d}
        /\ pc' = [pc EXCEPT ![w] = "idle"]
    BY DEF Raise, Goto, bounds
  <1>2. /\ reason[w] \in Reasons /\ act[w] \in HitlActions /\ number[w] \in 1..MaxCalls
        /\ rec[w] \in HitlApprovals \cup {None}
        /\ Logged(number[w], reason[w])
        /\ back = 0 /\ rec[w] # None /\ Outcome(reason[w]) = "DENIED" => Blocked(rec[w], act[w])
    BY <1>1 DEF HitlInv, ThreadOK, DenialOK, HitlTypeOK
  <1>3. /\ d.call = number[w] /\ d.action = act[w] /\ d.approval = rec[w] /\ d.reason = reason[w]
        /\ d.outcome = IF RequiresNonRepudiation(act[w]) THEN Outcome(reason[w]) ELSE "none"
        /\ d = [call |-> d.call, action |-> d.action, approval |-> d.approval,
                reason |-> d.reason, outcome |-> d.outcome]
    BY DEF Raised
  <1>4. Outcome(reason[w]) \in Outcomes
    BY OutcomeType
  <1>5. d.outcome \in Outcomes \cup {"none"} /\ (RequiresNonRepudiation(d.action) => d.outcome \in Outcomes)
    BY <1>3, <1>4
  <1> HIDE DEF d
  <1>6. d \in [call : 1..MaxCalls, action : HitlActions, approval : HitlApprovals \cup {None},
               reason : Reasons, outcome : Outcomes \cup {"none"}]
    BY <1>2, <1>3, <1>5
  <1>7. HitlTypeOK' /\ BoundsOK' /\ hitlTime' \in Nat
    BY <1>1, <1>5, <1>6, HitlConstants DEF HitlInv, HitlTypeOK, BoundsOK, RequiresNonRepudiation
  <1>8. Forward
    BY <1>1, HitlConstants DEF Forward, HitlInv, HitlTypeOK
  <1>9. RefusalLogged'
    BY <1>1, <1>2, <1>3 DEF HitlInv, RefusalLogged, Logged
  <1>10. DenialsStand'
    <2> SUFFICES ASSUME back' = 0, NEW c \in refused', c.outcome = "DENIED", c.approval # None
                 PROVE  Blocked(c.approval, c.action)'
      BY DEF DenialsStand
    <2>1. Blocked(c.approval, c.action)
      <3>1. CASE c \in refused
        BY <1>1, <3>1 DEF HitlInv, DenialsStand
      <3>2. CASE c = d
        <4>1. Outcome(reason[w]) = "DENIED" /\ rec[w] # None /\ back = 0
          BY <1>1, <1>3, <3>2
        <4> QED BY <1>2, <1>3, <3>2, <4>1
      <3> QED BY <1>1, <3>1, <3>2
    <2> QED BY <1>1, <2>1 DEF Blocked
  <1> QED BY <1>1, <1>7, <1>8, <1>9, <1>10, ReturnKeeps DEF HitlInv

LEMMA LogFailsKeeps ==
  ASSUME HitlInv, NEW w \in Workers, LogFails(w)
  PROVE  HitlInv'
  <1>1. /\ UNCHANGED <<hitlTime, again, consumed, durable, act, rec, reason, number, executed,
                       refused, calls, back, crashes>>
        /\ rlog' \in {rlog, Append(rlog, Torn)}
        /\ faults < MaxFaults /\ faults' = faults + 1
        /\ pc' = [pc EXCEPT ![w] = "idle"]
    BY DEF LogFails, Goto
  <1>2. /\ rlog' \in Seq([call : 1..MaxCalls, action : HitlActions, reason : Reasons] \cup {Torn})
        /\ Len(rlog') \in Nat /\ Len(rlog) <= Len(rlog')
        /\ \A k \in 1..Len(rlog) : rlog'[k] = rlog[k]
    <2>1. CASE rlog' = rlog
      BY <2>1 DEF HitlInv, HitlTypeOK
    <2>2. CASE rlog' = Append(rlog, Torn)
      BY <2>2, LogAppended
    <2> QED BY <1>1, <2>1, <2>2
  <1>3. HitlTypeOK' /\ BoundsOK' /\ hitlTime' \in Nat
    BY <1>1, <1>2, HitlConstants DEF HitlInv, HitlTypeOK, BoundsOK, RequiresNonRepudiation
  <1>4. Forward
    BY <1>1, <1>2, HitlConstants DEF Forward, HitlInv, HitlTypeOK
  <1> QED BY <1>1, <1>3, <1>4, RefusedStays, ReturnKeeps DEF HitlInv

LEMMA ClockKeeps ==
  ASSUME HitlInv, HitlTick \/ StepBack
  PROVE  HitlInv'
  <1>1. /\ UNCHANGED <<consumed, durable, rlog, pc, act, rec, reason, number, again, executed,
                       refused, calls, crashes, faults>>
        /\ hitlTime' \in 0..MaxHitlTime /\ back' \in 0..MaxBack
        /\ back' = 0 => back = 0 /\ hitlTime' >= hitlTime
    BY HitlConstants DEF HitlTick, StepBack, thread, bounds, HitlInv, HitlTypeOK, BoundsOK
  <1>2. HitlTypeOK' /\ BoundsOK' /\ hitlTime' \in Nat
    BY <1>1, HitlConstants DEF HitlInv, HitlTypeOK, BoundsOK, RequiresNonRepudiation
  <1>3. Forward
    BY <1>1 DEF Forward, HitlInv, HitlTypeOK
  <1>4. ASSUME NEW v \in Workers PROVE ThreadOK(v)' /\ DenialOK(v)'
    BY <1>1, <1>2, <1>3, ThreadStays
  <1>5. HeldOnce'
    BY <1>1, HeldStays
  <1> QED BY <1>1, <1>2, <1>3, <1>4, <1>5, RefusedStays, ExecutedStays DEF HitlInv

LEMMA PowerLossKeeps ==
  ASSUME HitlInv, PowerLoss
  PROVE  HitlInv'
  <1>1. /\ UNCHANGED <<hitlTime, again, durable, act, rec, reason, number, executed, refused,
                       calls, back, faults>>
        /\ crashes < MaxCrashes /\ crashes' = crashes + 1
        /\ consumed' = durable
        /\ pc' = [w \in Workers |-> "idle"]
    BY DEF PowerLoss, Reopened
  <1>2. \/ rlog' = rlog
        \/ rlog' = Append(rlog, Torn)
        \/ \E w \in Workers : pc[w] = "log" /\ rlog' = Append(rlog, EntryOf(w))
    BY DEF PowerLoss
  <1>3. /\ rlog' \in Seq([call : 1..MaxCalls, action : HitlActions, reason : Reasons] \cup {Torn})
        /\ Len(rlog') \in Nat /\ Len(rlog) <= Len(rlog')
        /\ \A k \in 1..Len(rlog) : rlog'[k] = rlog[k]
    <2>1. CASE rlog' = rlog
      BY <2>1 DEF HitlInv, HitlTypeOK
    <2>2. CASE rlog' = Append(rlog, Torn)
      BY <2>2, LogAppended
    <2>3. CASE \E w \in Workers : pc[w] = "log" /\ rlog' = Append(rlog, EntryOf(w))
      BY <2>3, LogAppended, EntryTyped
    <2> QED BY <1>2, <2>1, <2>2, <2>3
  <1>4. HitlTypeOK' /\ BoundsOK' /\ hitlTime' \in Nat
    BY <1>1, <1>3, HitlConstants DEF HitlInv, HitlTypeOK, BoundsOK, RequiresNonRepudiation
  <1>5. Forward
    BY <1>1, <1>3, HitlConstants DEF Forward, HitlInv, HitlTypeOK
  <1>6. ASSUME NEW v \in Workers PROVE ThreadOK(v)' /\ DenialOK(v)'
    BY <1>1 DEF ThreadOK, DenialOK
  <1>7. HeldOnce'
    BY <1>1 DEF HeldOnce
  <1> QED BY <1>1, <1>4, <1>5, <1>6, <1>7, RefusedStays, ExecutedStays DEF HitlInv

LEMMA StepHitl == HitlInv /\ [HitlNext]_hitlvars => HitlInv'
  <1> SUFFICES ASSUME HitlInv, [HitlNext]_hitlvars PROVE HitlInv'
    OBVIOUS
  <1>1. CASE UNCHANGED hitlvars
    <2>1. UNCHANGED <<hitlTime, consumed, durable, rlog, pc, act, rec, reason, number, executed,
                      refused, again, calls, back, crashes, faults>>
      BY <1>1 DEF hitlvars
    <2>2. HitlTypeOK' /\ BoundsOK' /\ hitlTime' \in Nat
      BY <2>1, HitlConstants DEF HitlInv, HitlTypeOK, BoundsOK, RequiresNonRepudiation
    <2>3. Forward
      BY <2>1, HitlConstants DEF Forward, HitlInv, HitlTypeOK
    <2>4. ASSUME NEW v \in Workers PROVE ThreadOK(v)' /\ DenialOK(v)'
      BY <2>1, <2>2, <2>3, ThreadStays
    <2>5. HeldOnce'
      BY <2>1, HeldStays
    <2> QED BY <2>1, <2>2, <2>3, <2>4, <2>5, RefusedStays, ExecutedStays DEF HitlInv
  <1> QED BY <1>1, InterceptKeeps, HumanApprovesKeeps, HumanDeclinesKeeps, ConsumeKeeps,
             ConsumeFailsKeeps, ExecuteKeeps, LogRefusalKeeps, RaiseKeeps, LogFailsKeeps,
             ClockKeeps, PowerLossKeeps DEF HitlNext

\* The inductive invariant: what each step of intercept knows about its approval,
\* its refusal and the other threads.
THEOREM HitlInvariant == HitlSpec => []HitlInv
  <1> QED BY InitHitl, StepHitl, PTL DEF HitlSpec

\* An effecting action runs once per approval and only under a signed, matching,
\* consumed approval; a refusal is on the log before its caller sees it; a denial
\* is final while the clock is not set back (HITLInterceptor.intercept,
\* verify_and_consume, _on_refusal).
THEOREM InterceptorSafe == HitlSpec => []ActsOnlyApproved
  <1>1. HitlInv => ActsOnlyApproved
    <2>1. HitlInv => DeniedIsFinal
      BY DEF HitlInv, DenialOK, DeniedIsFinal
    <2> QED BY <2>1 DEF HitlInv, ActsOnlyApproved
  <1> QED BY <1>1, HitlInvariant, PTL

(***************************************************************************)
(* Admission                                                               *)
(***************************************************************************)
\* A use between its two steps was judged at a position not after the
\* revocation the guard knew of, and whatever ran has its approval in the ledger.
Using == [pc : {"consume"}, a : UseApprovals, x : UseActions, pos : Nat, seen : Int]

UseInv ==
  /\ clock \in Nat /\ withdrawn \in Int
  /\ use \in [Users -> Using \cup {NotUsing}]
  /\ \A u \in Users : use[u].pc = "consume" => use[u].pos <= use[u].seen
  /\ \A r \in ran : r.a.id \in spentAt

\* The keys that were welcome came before the pinned one.
PinInv ==
  /\ pin \in Keys \cup {NoKey} /\ welcomed \subseteq Keys
  /\ pin = NoKey => welcomed = {}
  /\ ForwardOnly => \A k \in welcomed : k <= pin

\* The request at work passed the checks of its own path.
ServingInv ==
  serving # NoBody =>
    \/ /\ serving.form = "legacy" /\ allow_legacy
       /\ serving.effect = 0 /\ ~(serving.consume_once /\ serving.names = "both")
    \/ serving.form = "strict" /\ serving.verifies /\ AuthorizeStrict(serving)

AdmInv == UseInv /\ PinInv /\ ServingInv /\ AdmittedForCause

LEMMA AdmInitInv == AdmInit => AdmInv
  <1> SUFFICES ASSUME AdmInit PROVE AdmInv
    OBVIOUS
  <1>1. UseInv
    BY DEF AdmInit, UseInv, NotUsing, Never
  <1>2. PinInv
    BY DEF AdmInit, PinInv
  <1>3. ServingInv
    BY DEF AdmInit, ServingInv
  <1>4. AdmittedForCause
    BY DEF AdmInit, AdmittedForCause, AuthorisedAtUse, LegacyGainsNothing, StrictWithinGrant, AdmittedIsDerivable
  <1> QED BY <1>1, <1>2, <1>3, <1>4 DEF AdmInv

LEMMA VerifyAtUseInv ==
  ASSUME UseInv, AuthorisedAtUse, NEW u \in Users, NEW a \in UseApprovals, NEW x \in UseActions,
         VerifyAtUse(u, a, x)
  PROVE  UseInv' /\ AuthorisedAtUse'
  <1> DEFINE s == [pc |-> "consume", a |-> a, x |-> x, pos |-> clock, seen |-> withdrawn]
  <1>1. /\ UNCHANGED <<clock, withdrawn, spentAt, ran>>
        /\ \/ use' = [use EXCEPT ![u] = NotUsing]
           \/ ~AdmissionRevokedAt(clock) /\ use' = [use EXCEPT ![u] = s]
    BY DEF VerifyAtUse
  <1>2. s \in Using /\ NotUsing.pc = "idle"
    BY DEF Using, UseInv, NotUsing
  <1>3. ~AdmissionRevokedAt(clock) => s.pos <= s.seen
    BY DEF AdmissionRevokedAt, UseInv
  <1> HIDE DEF s
  <1>4. use' \in [Users -> Using \cup {NotUsing}]
    BY <1>1, <1>2 DEF UseInv
  <1>5. \A v \in Users : use'[v].pc = "consume" => use'[v].pos <= use'[v].seen
    BY <1>1, <1>2, <1>3 DEF UseInv
  <1> QED BY <1>1, <1>4, <1>5 DEF UseInv, AuthorisedAtUse

\* The consume happens at the position that was judged, whatever was revoked since.
LEMMA ConsumeAndRunInv ==
  ASSUME UseInv, AuthorisedAtUse, NEW u \in Users, ConsumeAndRun(u)
  PROVE  UseInv' /\ AuthorisedAtUse'
  <1> DEFINE s == use[u]
             r == [a |-> s.a, x |-> s.x, pos |-> s.pos, seen |-> s.seen, again |-> s.a.id \in spentAt]
  <1>1. /\ s.pc = "consume" /\ use' = [use EXCEPT ![u] = NotUsing]
        /\ UNCHANGED <<clock, withdrawn>>
        /\ \/ UNCHANGED <<spentAt, ran>>
           \/ /\ ConsumeVerdict(s.a, s.x, s.pos) = "ok"
              /\ spentAt' = spentAt \cup {s.a.id} /\ ran' = ran \cup {r}
    BY DEF ConsumeAndRun
  <1>2. s \in Using /\ s.pos <= s.seen
    BY <1>1 DEF UseInv, NotUsing
  <1>3. /\ use' \in [Users -> Using \cup {NotUsing}]
        /\ \A v \in Users : use'[v].pc = "consume" => use'[v].pos <= use'[v].seen
    BY <1>1 DEF UseInv, NotUsing
  <1>4. CASE UNCHANGED <<spentAt, ran>>
    BY <1>1, <1>3, <1>4 DEF UseInv, AuthorisedAtUse
  <1>5. CASE /\ ConsumeVerdict(s.a, s.x, s.pos) = "ok"
             /\ spentAt' = spentAt \cup {s.a.id} /\ ran' = ran \cup {r}
    <2>1. /\ s.a \in UseApprovals /\ s.x \in UseActions /\ s.pos \in Nat /\ s.seen \in Int
          /\ s.a.not_after \in Int /\ s.a.grant \in Int /\ s.x.effect \in Int
      BY <1>2, AdmissionConstants DEF Using
    <2>2. /\ s.a.signed /\ s.a.approves = s.x.args /\ ~(s.pos > s.a.not_after)
          /\ ~(s.x.effect > s.a.grant) /\ s.a.id \notin spentAt
      BY <1>5, Zenon DEF ConsumeVerdict
    <2>3. r.a = s.a /\ r.x = s.x /\ r.pos = s.pos /\ r.seen = s.seen /\ r.again = (s.a.id \in spentAt)
      OBVIOUS
    <2> HIDE DEF s, r
    <2>4. /\ ~r.again /\ r.a.signed /\ r.a.approves = r.x.args
          /\ r.pos <= r.a.not_after /\ r.pos <= r.seen /\ r.x.effect <= r.a.grant
      <3>1. ~r.again /\ r.a.signed /\ r.a.approves = r.x.args
        BY <2>2, <2>3, Zenon
      <3>2. r.pos <= r.a.not_after /\ r.pos <= r.seen /\ r.x.effect <= r.a.grant
        BY <1>2, <2>1, <2>2, <2>3
      <3> QED BY <3>1, <3>2
    <2>5. \A q \in ran : q.a.id # r.a.id
      BY <2>2, <2>3 DEF UseInv
    <2>6. UseInv'
      BY <1>1, <1>3, <1>5, <2>3 DEF UseInv
    <2>7. AuthorisedAtUse'
      BY <1>5, <2>4, <2>5, Zenon DEF AuthorisedAtUse
    <2> QED BY <2>6, <2>7
  <1> QED BY <1>1, <1>4, <1>5

LEMMA CheckAndPinInv ==
  ASSUME PinInv, NEW k \in Keys, NEW r \in Rotations \cup {NoProof}, CheckAndPin(k, r)
  PROVE  /\ PinInv'
         /\ pin # NoKey /\ pin' # pin =>
              /\ \E q \in Rotations : q.legs = <<pin, pin'>>
              /\ ForwardOnly => \A j \in welcomed : pin' > j
  <1>1. welcomed' = welcomed \cup {k} /\ pin' = k /\ Keys \subseteq Nat \ {0} /\ NoKey = 0
    BY AdmissionConstants DEF CheckAndPin, NoKey
  <1>2. pin \in {NoKey, k} \/ (r \in Rotations /\ r.legs = <<pin, k>>)
    BY DEF CheckAndPin, RotationVerifies
  <1>3. ASSUME ForwardOnly, pin \notin {NoKey, k} PROVE \A j \in welcomed : k > j
    <2>1. pin \in Keys /\ pin < k
      BY <1>2, <1>3 DEF PinInv, ForwardOnly
    <2>2. \A j \in welcomed : j \in Keys /\ j <= pin
      BY <1>3 DEF PinInv
    <2>3. \A j \in Keys : j \in Int
      BY <1>1
    <2>4. pin \in Int /\ k \in Int /\ \A j \in welcomed : j \in Int /\ j <= pin
      BY <2>1, <2>2, <2>3
    <2> QED BY <2>1, <2>4
  <1>4. PinInv'
    <2>1. ASSUME ForwardOnly PROVE \A j \in welcomed : j <= k
      <3>1. CASE pin = NoKey
        BY <3>1 DEF PinInv
      <3>2. CASE pin = k
        BY <2>1, <3>2 DEF PinInv
      <3>3. CASE pin \notin {NoKey, k}
        <4>1. \A j \in welcomed : k > j /\ j \in Nat
          BY <1>1, <1>3, <2>1, <3>3 DEF PinInv
        <4> QED BY <1>1, <4>1
      <3> QED BY <3>1, <3>2, <3>3
    <2>2. ForwardOnly' = ForwardOnly
      BY DEF ForwardOnly
    <2> QED BY <1>1, <2>1, <2>2 DEF PinInv
  <1> QED BY <1>1, <1>2, <1>3, <1>4

LEMMA HandleInv ==
  ASSUME ServingInv, NEW b \in RequestBodies, Handle(b)
  PROVE  /\ ServingInv' /\ UNCHANGED <<served, allow_legacy, mode>>
         /\ serving' # NoBody /\ (serving'.form = "strict" \/ mode = "mixed")
  <1>1. /\ UNCHANGED <<served, allow_legacy, mode>> /\ serving' # NoBody
        /\ serving' = IF b.form = "strict" /\ b.verifies
                      THEN IF AuthorizeStrict(b) THEN b ELSE NoBody
                      ELSE IF allow_legacy /\ b.form = "legacy" /\ AuthorizeLegacy(b) THEN b ELSE NoBody
    BY Zenon DEF Handle
  <1>2. \/ serving' = b /\ b.form = "strict" /\ b.verifies /\ AuthorizeStrict(b)
        \/ serving' = b /\ allow_legacy /\ b.form = "legacy" /\ AuthorizeLegacy(b)
    BY <1>1, Zenon
  <1>3. CASE serving' = b /\ b.form = "strict" /\ b.verifies /\ AuthorizeStrict(b)
    BY <1>1, <1>3, Zenon DEF ServingInv, AuthorizeStrict
  <1>4. CASE serving' = b /\ allow_legacy /\ b.form = "legacy" /\ AuthorizeLegacy(b)
    BY <1>1, <1>4, Zenon DEF ServingInv, AuthorizeLegacy
  <1> QED BY <1>2, <1>3, <1>4

LEMMA ServeInv ==
  ASSUME ServingInv, LegacyGainsNothing, StrictWithinGrant, NEW reply \in EngineReplies, Serve(reply)
  PROVE  ServingInv' /\ LegacyGainsNothing' /\ StrictWithinGrant'
  <1> DEFINE b == serving
             s == [body |-> b, headers |-> mode = "mixed", opa |-> AuthorizeWithPolicy(b, reply)]
  <1>1. /\ b # NoBody /\ EngineMaySay(b, reply) /\ serving' = NoBody /\ served' = {s}
        /\ allow_legacy' = allow_legacy
    BY DEF Serve
  <1>2. s.body = b /\ s.opa = AuthorizeWithPolicy(b, reply)
    OBVIOUS
  <1>3. "legacy" # "strict"
    OBVIOUS
  <1> HIDE DEF s
  <1>4. CASE /\ b.form = "legacy" /\ allow_legacy
             /\ b.effect = 0 /\ ~(b.consume_once /\ b.names = "both")
    <2>1. ~s.opa
      BY <1>2, <1>3, <1>4, Zenon DEF AuthorizeWithPolicy
    <2>2. allow_legacy' /\ b.effect = 0 /\ ~(b.consume_once /\ b.names = "both") /\ ~s.opa
      BY <1>1, <1>4, <2>1, Zenon
    <2> QED BY <1>1, <1>2, <1>3, <1>4, <2>2, Zenon DEF ServingInv, LegacyGainsNothing, StrictWithinGrant
  <1>5. CASE b.form = "strict" /\ b.verifies /\ AuthorizeStrict(b)
    <2>1. b.form # "legacy"
      BY <1>5
    <2>2. /\ b.verifies /\ b.effect_registered /\ b.grant.principal = b.signer /\ b.effect <= b.grant.max_effect
          /\ b.consume_once => b.audience = "here"
      BY <1>5, Zenon DEF AuthorizeStrict
    <2>3. /\ BuildInput(b).signer = b.verified_by /\ BuildInput(b).grant = b.grant
          /\ BuildInput(b).audience = b.audience
      BY DEF BuildInput
    <2>4. s.opa => b.grant.principal = b.verified_by /\ b.audience \in {"", "here"}
      BY <1>1, <1>2, <2>3, Zenon DEF AuthorizeWithPolicy, Decide, EngineMaySay, PolicyAllows
    <2>5. b.signer = b.verified_by \/ s.opa => b.grant.principal = b.verified_by
      BY <2>2, <2>4
    <2> QED BY <1>1, <1>2, <1>5, <2>1, <2>2, <2>4, <2>5, Zenon DEF ServingInv, LegacyGainsNothing, StrictWithinGrant
  <1> QED BY <1>1, <1>4, <1>5, Zenon DEF ServingInv

LEMMA AdmitInv ==
  ASSUME NEW a \in Assertions, NEW e \in Evidences, Admit(a, e)
  PROVE  AdmittedIsDerivable'
  <1>1. VerifyAndAdmit(a, e) /\ admitted' = {<<a, e>>}
    BY DEF Admit
  <1> DEFINE Derivable ==
        \/ a.basis = 0 /\ e.form = "signature" /\ e.sig = <<a.ref.signer, a.value>>
        \/ a.basis = 1 /\ e.form = "oracle" /\ a.ref.oracle = "registered" /\ a.value = a.ref.input + 1
        \/ /\ a.basis = 2 /\ e.form = "authority"
           /\ \A i \in 1..(a.ref.seq + 1) : e.receipts[i].by = a.ref.signer /\ e.receipts[i].seq = i - 1
           /\ \A i \in 2..(a.ref.seq + 1) : e.receipts[i].prev = e.receipts[i - 1].obj
           /\ e.receipts[a.ref.seq + 1].obj = a.value
        \/ a.basis = 3 /\ e.form = "input" /\ a.value = a.ref.input
  <1>2. a.basis \in 0..3
    BY <1>1 DEF VerifyAndAdmit
  <1>3. ASSUME a.basis = 0 PROVE Derivable
    <2>1. RecheckSignature(a, e)
      BY <1>1, <1>3 DEF VerifyAndAdmit
    <2> QED BY <1>3, <2>1 DEF RecheckSignature
  <1>4. ASSUME a.basis = 1 PROVE Derivable
    <2>1. RecheckOracle(a, e)
      BY <1>1, <1>4 DEF VerifyAndAdmit
    <2> QED BY <1>4, <2>1 DEF RecheckOracle, Establish
  <1>5. ASSUME a.basis = 2 PROVE Derivable
    <2>1. RecheckAuthority(a, e)
      BY <1>1, <1>5 DEF VerifyAndAdmit
    <2>2. e.form = "authority" /\ e.key = a.ref.signer /\ e.receipts[a.ref.seq + 1].obj = a.value
      BY <2>1 DEF RecheckAuthority
    <2>3. Len(e.receipts) \in Nat /\ DOMAIN e.receipts = 1..Len(e.receipts)
      BY <2>2, AdmissionConstants
    <2>4. a.ref.seq \in 0..(Len(e.receipts) - 1)
      BY <2>1 DEF RecheckAuthority
    <2>5. \A i \in 1..(a.ref.seq + 1) : i \in DOMAIN e.receipts
      BY <2>3, <2>4
    <2>6. \A i \in 1..(a.ref.seq + 1) : e.receipts[i].by = a.ref.signer /\ e.receipts[i].seq = i - 1
      BY <2>1, <2>2, <2>5 DEF RecheckAuthority
    <2>7. ASSUME NEW i \in 2..(a.ref.seq + 1) PROVE e.receipts[i].prev = e.receipts[i - 1].obj
      <3>1. i \in 1..(a.ref.seq + 1) /\ i # 1
        BY <2>3, <2>4, <2>7
      <3> QED BY <2>1, <2>5, <3>1 DEF RecheckAuthority
    <2> QED BY <1>5, <2>2, <2>6, <2>7
  <1>6. ASSUME a.basis = 3 PROVE Derivable
    <2>1. RecheckInput(a, e)
      BY <1>1, <1>6 DEF VerifyAndAdmit
    <2> QED BY <1>6, <2>1 DEF RecheckInput
  <1>7. Derivable
    BY <1>2, <1>3, <1>4, <1>5, <1>6
  <1>8. <<a, e>>[1] = a /\ <<a, e>>[2] = e
    OBVIOUS
  <1> QED BY <1>1, <1>7, <1>8, Zenon DEF AdmittedIsDerivable

\* Every step keeps what admission promises, and moves trust forward.
LEMMA AdmStepKeeps ==
  ASSUME AdmInv, [AdmNext]_admvars
  PROVE  /\ AdmInv'
         /\ pin # NoKey /\ pin' # pin =>
              /\ \E r \in Rotations : r.legs = <<pin, pin'>>
              /\ ForwardOnly => \A k \in welcomed : pin' > k
         /\ mode = "strict" =>
              mode' = "strict" /\ (serving' # serving /\ serving' # NoBody => serving'.form = "strict")
  <1> DEFINE Trust ==
        /\ pin # NoKey /\ pin' # pin =>
             /\ \E r \in Rotations : r.legs = <<pin, pin'>>
             /\ ForwardOnly => \A k \in welcomed : pin' > k
        /\ mode = "strict" =>
             mode' = "strict" /\ (serving' # serving /\ serving' # NoBody => serving'.form = "strict")
  <1>1. UseInv /\ PinInv /\ ServingInv /\ AuthorisedAtUse /\ LegacyGainsNothing /\ StrictWithinGrant /\ AdmittedIsDerivable
    BY DEF AdmInv, AdmittedForCause
  <1>2. SUFFICES UseInv' /\ PinInv' /\ ServingInv' /\ AuthorisedAtUse' /\ LegacyGainsNothing' /\ StrictWithinGrant'
                   /\ AdmittedIsDerivable' /\ Trust
    BY DEF AdmInv, AdmittedForCause
  <1>3. ASSUME UNCHANGED useVars PROVE UseInv' /\ AuthorisedAtUse'
    BY <1>1, <1>3 DEF useVars, UseInv, AuthorisedAtUse
  <1>4. ASSUME UNCHANGED pinVars PROVE PinInv' /\ pin' = pin
    BY <1>1, <1>4 DEF pinVars, PinInv, ForwardOnly
  <1>5. ASSUME UNCHANGED endpointVars
        PROVE  ServingInv' /\ LegacyGainsNothing' /\ StrictWithinGrant' /\ mode' = mode /\ serving' = serving
    BY <1>1, <1>5, Zenon DEF endpointVars, ServingInv, LegacyGainsNothing, StrictWithinGrant, AuthorizeStrict
  <1>6. ASSUME UNCHANGED admitted PROVE AdmittedIsDerivable'
    BY <1>1, <1>6, Zenon DEF AdmittedIsDerivable
  <1>7. CASE UNCHANGED admvars
    BY <1>3, <1>4, <1>5, <1>6, <1>7 DEF admvars, useVars, pinVars, endpointVars
  <1>8. ASSUME NEW u \in Users,
               ConsumeAndRun(u) \/ \E a \in UseApprovals, x \in UseActions : VerifyAtUse(u, a, x)
        PROVE  UseInv' /\ PinInv' /\ ServingInv' /\ AuthorisedAtUse' /\ LegacyGainsNothing' /\ StrictWithinGrant'
                 /\ AdmittedIsDerivable' /\ Trust
    <2>1. UseInv' /\ AuthorisedAtUse'
      BY <1>1, <1>8, ConsumeAndRunInv, VerifyAtUseInv
    <2>2. UNCHANGED pinVars /\ UNCHANGED endpointVars /\ UNCHANGED admitted
      BY <1>8 DEF ConsumeAndRun, VerifyAtUse
    <2> QED BY <1>4, <1>5, <1>6, <2>1, <2>2
  <1>9. ASSUME NEW t \in 0..MaxNow, RegisterRevocation(t)
        PROVE  UseInv' /\ PinInv' /\ ServingInv' /\ AuthorisedAtUse' /\ LegacyGainsNothing' /\ StrictWithinGrant'
                 /\ AdmittedIsDerivable' /\ Trust
    <2>1. /\ withdrawn' = t /\ UNCHANGED <<clock, spentAt, use, ran>>
          /\ UNCHANGED pinVars /\ UNCHANGED endpointVars /\ UNCHANGED admitted
      BY <1>9 DEF RegisterRevocation
    <2>2. UseInv' /\ AuthorisedAtUse'
      BY <1>1, <2>1 DEF UseInv, AuthorisedAtUse
    <2> QED BY <1>4, <1>5, <1>6, <2>1, <2>2
  <1>10. CASE UseTick
    <2>1. /\ clock' = clock + 1 /\ UNCHANGED <<withdrawn, spentAt, use, ran>>
          /\ UNCHANGED pinVars /\ UNCHANGED endpointVars /\ UNCHANGED admitted
      BY <1>10 DEF UseTick
    <2>2. UseInv' /\ AuthorisedAtUse'
      BY <1>1, <2>1 DEF UseInv, AuthorisedAtUse
    <2> QED BY <1>4, <1>5, <1>6, <2>1, <2>2
  <1>11. ASSUME NEW k \in Keys, NEW r \in Rotations \cup {NoProof}, CheckAndPin(k, r)
         PROVE  UseInv' /\ PinInv' /\ ServingInv' /\ AuthorisedAtUse' /\ LegacyGainsNothing' /\ StrictWithinGrant'
                  /\ AdmittedIsDerivable' /\ Trust
    <2>1. UNCHANGED useVars /\ UNCHANGED endpointVars /\ UNCHANGED admitted
      BY <1>11 DEF CheckAndPin
    <2>2. /\ PinInv'
          /\ pin # NoKey /\ pin' # pin =>
               /\ \E q \in Rotations : q.legs = <<pin, pin'>>
               /\ ForwardOnly => \A j \in welcomed : pin' > j
      BY <1>1, <1>11, CheckAndPinInv
    <2> QED BY <1>3, <1>5, <1>6, <2>1, <2>2
  <1>12. ASSUME NEW b \in RequestBodies, Handle(b)
         PROVE  UseInv' /\ PinInv' /\ ServingInv' /\ AuthorisedAtUse' /\ LegacyGainsNothing' /\ StrictWithinGrant'
                  /\ AdmittedIsDerivable' /\ Trust
    <2>1. UNCHANGED useVars /\ UNCHANGED pinVars /\ UNCHANGED admitted
      BY <1>12 DEF Handle
    <2>2. /\ ServingInv' /\ UNCHANGED <<served, allow_legacy, mode>>
          /\ serving' # NoBody /\ (serving'.form = "strict" \/ mode = "mixed")
      BY <1>1, <1>12, HandleInv
    <2>3. LegacyGainsNothing' /\ StrictWithinGrant'
      BY <1>1, <2>2, Zenon DEF LegacyGainsNothing, StrictWithinGrant
    <2> QED BY <1>3, <1>4, <1>6, <2>1, <2>2, <2>3
  <1>13. ASSUME NEW reply \in EngineReplies, Serve(reply)
         PROVE  UseInv' /\ PinInv' /\ ServingInv' /\ AuthorisedAtUse' /\ LegacyGainsNothing' /\ StrictWithinGrant'
                  /\ AdmittedIsDerivable' /\ Trust
    <2>1. /\ UNCHANGED useVars /\ UNCHANGED pinVars /\ UNCHANGED admitted
          /\ mode' = mode /\ serving' = NoBody
      BY <1>13 DEF Serve
    <2>2. ServingInv' /\ LegacyGainsNothing' /\ StrictWithinGrant'
      BY <1>1, <1>13, ServeInv
    <2> QED BY <1>3, <1>4, <1>6, <2>1, <2>2
  <1>14. CASE TightenToStrict
    <2>1. /\ UNCHANGED useVars /\ UNCHANGED pinVars /\ UNCHANGED admitted
          /\ mode' = "strict" /\ UNCHANGED <<allow_legacy, served, serving>>
      BY <1>14 DEF TightenToStrict
    <2>2. ServingInv' /\ LegacyGainsNothing' /\ StrictWithinGrant'
      BY <1>1, <2>1, Zenon DEF ServingInv, LegacyGainsNothing, StrictWithinGrant, AuthorizeStrict
    <2> QED BY <1>3, <1>4, <1>6, <2>1, <2>2
  <1>15. ASSUME NEW a \in Assertions, NEW e \in Evidences, Admit(a, e)
         PROVE  UseInv' /\ PinInv' /\ ServingInv' /\ AuthorisedAtUse' /\ LegacyGainsNothing' /\ StrictWithinGrant'
                  /\ AdmittedIsDerivable' /\ Trust
    <2>1. UNCHANGED useVars /\ UNCHANGED pinVars /\ UNCHANGED endpointVars
      BY <1>15 DEF Admit
    <2>2. AdmittedIsDerivable'
      BY <1>15, AdmitInv
    <2> QED BY <1>3, <1>4, <1>5, <2>1, <2>2
  <1> HIDE DEF Trust
  <1> QED BY <1>7, <1>8, <1>9, <1>10, <1>11, <1>12, <1>13, <1>14, <1>15 DEF AdmNext

\* Admission's inductive invariant holds in every behaviour.
THEOREM AdmissionInvariant == AdmSpec => []AdmInv
  <1>1. AdmInv /\ [AdmNext]_admvars => AdmInv'
    BY AdmStepKeeps
  <1> QED BY <1>1, AdmInitInv, PTL DEF AdmSpec

\* What VerifyAtUseGuard runs, MixedModeEndpoint serves and verify_and_admit
\* admits has its cause at that moment, however uses, revocations, requests and
\* the tightening of the policy interleave.
THEOREM AlwaysForCause == AdmSpec => []AdmittedForCause
  <1>1. AdmInv => AdmittedForCause
    BY DEF AdmInv
  <1> QED BY <1>1, AdmissionInvariant, PTL

\* A pin moves only along a rotation the pinned key signed and, if owners rotate
\* forward, never back to a key that was welcome before; the endpoint, once
\* strict, accepts no legacy body again (check_and_pin, tighten_to_strict).
THEOREM TrustNeverBack == AdmSpec => TrustMovesForward
  <1> DEFINE Follows ==
        pin # NoKey /\ pin' # pin => /\ \E r \in Rotations : r.legs = <<pin, pin'>>
                                     /\ ForwardOnly => \A k \in welcomed : pin' > k
      Final ==
        mode = "strict" =>
          mode' = "strict" /\ (serving' # serving /\ serving' # NoBody => serving'.form = "strict")
  <1>1. AdmInv /\ [AdmNext]_admvars => [Follows]_admvars /\ [Final]_admvars
    BY AdmStepKeeps
  <1> QED BY <1>1, AdmissionInvariant, PTL
          DEF AdmSpec, TrustMovesForward, PinFollowsRotations, TighteningIsFinal

(***************************************************************************)
(* Spending approvals                                                      *)
(***************************************************************************)
\* What came over the bridge is enforced as it was resolved.
AuthInv ==
  /\ today \in Nat /\ \A a \in approvals : a.record \in Approvals
  /\ bridged.got.verdict = "ok" => bridged.got.enforced = bridged.got.resolved.enforced
  /\ ActsWithinApproval

LEMMA AuthInitInv == AuthInit => AuthInv
  BY DEF AuthInit, AuthInv, ActsWithinApproval, OneActPerApproval, ToolEffectNotUnderstated,
         NoBridge, NoCall

\* What an approval that verifies says.
LEMMA ApprovalSays ==
  ASSUME AuthInv, NEW a \in approvals, NEW cid, VerifyApproval(a, cid) = "ok"
  PROVE  a.key = Human /\ a.record.approves = cid /\ today <= a.record.not_after
  <1>1. a.key = Human /\ a.record.approves = cid /\ ~(today > a.record.not_after)
    BY DEF VerifyApproval
  <1>2. today \in Int /\ a.record.not_after \in Int
    BY AuthorityConstants DEF AuthInv
  <1> QED BY <1>1, <1>2

\* A gate that spends an approval which binds the act adds one act to it.
LEMMA SpendInv ==
  ASSUME AuthInv, NEW a \in approvals, NEW via, NEW what, NEW effect,
         VerifyApproval(a, what) = "ok", Authorizes(a.record.grant, effect), Consumable(a),
         Spend(a, via, what, effect)
  PROVE  AuthInv'
  <1> DEFINE e == [gate |-> via, what |-> what, effect |-> effect, by |-> a, at |-> today,
                   again |-> a.record \in spent]
  <1>1. /\ spent' = spent \cup {a.record} /\ performed' = performed \cup {e}
        /\ UNCHANGED <<today, approvals, bridged>>
    BY DEF Spend
  <1>2. /\ e.by = a /\ e.what = what /\ e.at = today /\ e.effect = effect
        /\ e.again = (a.record \in spent)
    OBVIOUS
  <1> HIDE DEF e
  <1>3. /\ ~e.again /\ e.by.key = Human /\ e.by.record.approves = e.what
        /\ e.at <= e.by.record.not_after /\ e.effect <= e.by.record.grant
    <2>1. ~e.again
      BY <1>2, Zenon DEF Consumable
    <2> QED BY <1>2, <2>1, ApprovalSays DEF Authorizes
  <1>4. /\ \A d \in performed : /\ ~d.again /\ d.by.key = Human /\ d.by.record.approves = d.what
                                /\ d.at <= d.by.record.not_after /\ d.effect <= d.by.record.grant
        /\ spent = {d.by.record : d \in performed}
    BY Zenon DEF AuthInv, ActsWithinApproval, OneActPerApproval
  <1>5. spent' = {d.by.record : d \in performed'}
    BY <1>1, <1>2, <1>4
  <1>6. OneActPerApproval'
    BY <1>1, <1>3, <1>4, <1>5, Zenon DEF OneActPerApproval
  <1>7. ToolEffectNotUnderstated'
    BY <1>1, Zenon DEF AuthInv, ActsWithinApproval, ToolEffectNotUnderstated
  <1> QED BY <1>1, <1>6, <1>7 DEF AuthInv, ActsWithinApproval

\* The effect of a tool is an effect of the lattice and no milder than its
\* annotations say.
LEMMA MappedEffect ==
  ASSUME NEW ann
  PROVE  /\ MapAnnotationsToEffect(ann) \in 0..3
         /\ ~(1 \in DOMAIN ann /\ ann[1]) =>
              /\ MapAnnotationsToEffect(ann) >= 1
              /\ ~(2 \in DOMAIN ann /\ ~ann[2]) => MapAnnotationsToEffect(ann) = 3
              /\ ~(3 \in DOMAIN ann /\ ann[3]) => MapAnnotationsToEffect(ann) >= 2
  <1> DEFINE m == MapAnnotationsToEffect(ann)
  <1>1. 1 \in DOMAIN ann /\ ann[1] => m = ReadOnly
    BY Zenon DEF MapAnnotationsToEffect
  <1>2. ~(1 \in DOMAIN ann /\ ann[1]) /\ ~(2 \in DOMAIN ann /\ ~ann[2]) => m = Destructive
    BY Zenon DEF MapAnnotationsToEffect
  <1>3. ~(1 \in DOMAIN ann /\ ann[1]) /\ (2 \in DOMAIN ann /\ ~ann[2]) =>
          m = IF 3 \in DOMAIN ann /\ ann[3] THEN IdempotentWrite ELSE NonIdempotentWrite
    BY Zenon DEF MapAnnotationsToEffect
  <1> HIDE DEF m
  <1>4. m \in 0..3
    BY <1>1, <1>2, <1>3 DEF ReadOnly, IdempotentWrite, NonIdempotentWrite, Destructive
  <1>5. ~(1 \in DOMAIN ann /\ ann[1]) =>
          /\ m >= 1
          /\ ~(2 \in DOMAIN ann /\ ~ann[2]) => m = 3
          /\ ~(3 \in DOMAIN ann /\ ann[3]) => m >= 2
    BY <1>2, <1>3 DEF IdempotentWrite, NonIdempotentWrite, Destructive
  <1> QED BY <1>4, <1>5 DEF m

\* A tool call that is received is the one in the signed body, with the effect
\* that was declared, which its annotations allow.
LEMMA ReceivedIs ==
  ASSUME NEW o, ReceiveToolCall(o).verdict = "ok"
  PROVE  LET g == ReceiveToolCall(o)  tc == ToolCallFromBody(o.body) IN
         /\ tc.verdict = "ok" /\ g.tool_definition = tc.tool /\ g.arguments = tc.args
         /\ g.enforced = o.effect /\ g.resolved.enforced = o.effect
         /\ ResolveEnforcedEffect(MapAnnotationsToEffect(tc.annotations), o.effect) = "ok"
  <1> DEFINE r == VerifyToolCall(o)
             tc == ToolCallFromBody(o.body)
             v == ResolveEnforcedEffect(MapAnnotationsToEffect(tc.annotations), o.effect)
             g == ReceiveToolCall(o)
  <1>0. g = IF r.verdict # "ok" THEN r
            ELSE IF r.tool_call.tool = NoDefinition THEN [verdict |-> "ForeignToolNotJSON"]
            ELSE IF r.tool_call.args = NoArguments THEN [verdict |-> "ForeignBodyNotJSON"]
            ELSE [verdict |-> "ok", tool_definition |-> r.tool_call.tool,
                  arguments |-> r.tool_call.args, annotation_mapped |-> r.mapped,
                  enforced |-> r.enforced, resolved |-> r]
    BY DEF ReceiveToolCall
  <1>a. g.verdict = "ok"
    OBVIOUS
  <1>1. r.verdict = "ok" /\ g = [verdict |-> "ok", tool_definition |-> r.tool_call.tool,
                                 arguments |-> r.tool_call.args, annotation_mapped |-> r.mapped,
                                 enforced |-> r.enforced, resolved |-> r]
    <2> HIDE DEF r, tc, v, g
    <2> QED BY <1>0, <1>a
  <1>2. r = CASE tc.verdict # "ok" -> [verdict |-> tc.verdict]
              [] v # "ok" -> [verdict |-> v]
              [] OTHER -> [verdict |-> "ok", tool_call |-> tc,
                           mapped |-> MapAnnotationsToEffect(tc.annotations), enforced |-> o.effect]
    BY DEF VerifyToolCall
  <1> HIDE DEF r, tc, v, g
  <1>3. /\ tc.verdict = "ok" /\ v = "ok"
        /\ r = [verdict |-> "ok", tool_call |-> tc,
                mapped |-> MapAnnotationsToEffect(tc.annotations), enforced |-> o.effect]
    BY <1>1, <1>2
  <1> QED BY <1>1, <1>3 DEF r, tc, v, g

\* A call that is carried over and received is the call that was made, and not
\* enforced below what the tool says of itself.
LEMMA CarriedIs ==
  ASSUME NEW def, NEW name, NEW args, NEW declared \in Int,
         CarryToolCall(def, name, args, declared).verdict = "ok",
         ReceiveToolCall(CarryToolCall(def, name, args, declared).object).verdict = "ok"
  PROVE  LET g == ReceiveToolCall(CarryToolCall(def, name, args, declared).object) IN
         /\ g.tool_definition = def /\ g.arguments = args /\ name = def.name
         /\ g.enforced \in 0..3
         /\ ~(1 \in DOMAIN def.annotations /\ def.annotations[1]) =>
              /\ g.enforced >= 1
              /\ ~(2 \in DOMAIN def.annotations /\ ~def.annotations[2]) => g.enforced = 3
              /\ ~(3 \in DOMAIN def.annotations /\ def.annotations[3]) => g.enforced >= 2
  <1> DEFINE h == def.annotations
             from == AnnotationsFromMcp(def)
             effect == IF declared = -1 THEN MapAnnotationsToEffect(from.hints) ELSE declared
             body == ToolCall(def, args, from.hints)
             c == CarryToolCall(def, name, args, declared)
  <1>1. c = CASE name # def.name -> [verdict |-> "ToolNameMismatch"]
              [] from.verdict # "ok" -> [verdict |-> from.verdict]
              [] effect > Destructive -> [verdict |-> "EffectOutsideLattice"]
              [] OTHER -> [verdict |-> "ok", object |-> [effect |-> effect, body |-> body]]
    BY DEF CarryToolCall
  <1>2. c.verdict = "ok"
    OBVIOUS
  <1>3. ((\A k \in DOMAIN h : h[k] \in BOOLEAN) /\ from.hints = h) \/ from.verdict # "ok"
    BY DEF AnnotationsFromMcp
  <1>4. effect \in Int
    BY MappedEffect
  <1> HIDE DEF from, effect, body, c
  <1>5. /\ name = def.name /\ from.verdict = "ok" /\ ~(effect > Destructive)
        /\ c.object = [effect |-> effect, body |-> body]
    BY <1>1, <1>2
  <1>6. from.hints = h /\ \A k \in DOMAIN h : h[k] \in BOOLEAN
    BY <1>3, <1>5
  <1> DEFINE o == c.object
             g == ReceiveToolCall(o)
             tc == ToolCallFromBody(body)
             w == AnnotationsToValue(h)
             mapped == MapAnnotationsToEffect(tc.annotations)
  <1>7. o.effect = effect /\ o.body = body
    BY <1>5
  <1>8. /\ tc.verdict = "ok" /\ g.tool_definition = tc.tool /\ g.arguments = tc.args
        /\ g.enforced = effect /\ ResolveEnforcedEffect(mapped, effect) = "ok"
    <2>1. g.verdict = "ok"
      BY DEF c
    <2> HIDE DEF o, g
    <2> QED BY <1>7, <2>1, ReceivedIs DEF o, g
  <1>9. DOMAIN body = 1..3 /\ body[1] = def /\ body[2] = args /\ body[3] = w
    BY <1>6 DEF body, ToolCall
  <1>10. AnnotationsFromValue(w).verdict = "ok" /\ tc.tool = def /\ tc.args = args
         /\ tc.annotations = AnnotationsFromValue(w).hints
    BY <1>8, <1>9 DEF ToolCallFromBody
  <1>11. tc.annotations = [k \in DOMAIN w |-> w[k] = 1]
    BY <1>10 DEF AnnotationsFromValue
  <1>12. w = [k \in DOMAIN h |-> IF h[k] THEN 1 ELSE 0]
    BY DEF AnnotationsToValue
  <1> HIDE DEF h, w
  <1>13. DOMAIN tc.annotations = DOMAIN h /\ \A k \in DOMAIN h : tc.annotations[k] = (w[k] = 1)
    BY <1>11, <1>12
  <1>14. ASSUME NEW k \in DOMAIN h PROVE (tc.annotations[k] => h[k]) /\ (h[k] => tc.annotations[k])
    <2>1. h[k] = TRUE \/ h[k] = FALSE
      BY <1>6, <1>14
    <2>2. w[k] = IF h[k] THEN 1 ELSE 0
      BY <1>12, <1>14, Zenon
    <2>3. CASE h[k] = TRUE
      <3>1. w[k] = 1
        BY <2>2, <2>3, Zenon
      <3> QED BY <1>13, <1>14, <2>3, <3>1, Zenon
    <2>4. CASE h[k] = FALSE
      <3>1. w[k] = 0 /\ 0 # 1
        BY <2>2, <2>4
      <3> QED BY <1>13, <1>14, <2>4, <3>1, Zenon
    <2> QED BY <2>1, <2>3, <2>4
  <1> HIDE DEF tc, g, o
  <1>15. /\ mapped \in 0..3
         /\ ~(1 \in DOMAIN tc.annotations /\ tc.annotations[1]) =>
              /\ mapped >= 1
              /\ ~(2 \in DOMAIN tc.annotations /\ ~tc.annotations[2]) => mapped = 3
              /\ ~(3 \in DOMAIN tc.annotations /\ tc.annotations[3]) => mapped >= 2
    BY MappedEffect, Zenon
  <1> HIDE DEF mapped
  <1>16. ~(1 \in DOMAIN h /\ h[1]) =>
              /\ mapped >= 1
              /\ ~(2 \in DOMAIN h /\ ~h[2]) => mapped = 3
              /\ ~(3 \in DOMAIN h /\ h[3]) => mapped >= 2
    BY <1>13, <1>14, <1>15, Zenon
  <1>17. effect \in 0..3 /\ effect >= mapped
    BY <1>4, <1>5, <1>8, <1>15 DEF ResolveEnforcedEffect, Destructive
  <1>18. ~(1 \in DOMAIN h /\ h[1]) =>
              /\ effect >= 1
              /\ ~(2 \in DOMAIN h /\ ~h[2]) => effect = 3
              /\ ~(3 \in DOMAIN h /\ h[3]) => effect >= 2
    <2>1. mapped >= 1 => effect >= 1
      BY <1>15, <1>17
    <2>2. mapped = 3 => effect = 3
      BY <1>15, <1>17
    <2>3. mapped >= 2 => effect >= 2
      BY <1>15, <1>17
    <2> QED BY <1>16, <2>1, <2>2, <2>3, Zenon
  <1>19. g.tool_definition = def /\ g.arguments = args /\ g.enforced = effect
    BY <1>8, <1>10
  <1> QED BY <1>5, <1>17, <1>18, <1>19, Zenon DEF g, o, c, h

LEMMA BridgeCallInv ==
  ASSUME AuthInv, NEW def, NEW name, NEW args, NEW declared \in Int, BridgeCall(def, name, args, declared)
  PROVE  AuthInv'
  <1> DEFINE c == CarryToolCall(def, name, args, declared)
             s == [verdict |-> c.verdict, def |-> def, args |-> args, name |-> name]
             g == IF c.verdict = "ok" THEN ReceiveToolCall(c.object) ELSE NoCall
  <1>1. bridged' = [sent |-> s, got |-> g] /\ UNCHANGED <<today, approvals, spent, performed>>
    BY DEF BridgeCall
  <1>2. s.verdict = c.verdict /\ s.def = def /\ s.args = args /\ s.name = name
    OBVIOUS
  <1>3. g.verdict = "ok" => c.verdict = "ok" /\ g = ReceiveToolCall(c.object)
    BY DEF NoCall
  <1> HIDE DEF c, s, g
  <1>4. bridged'.sent = s /\ bridged'.got = g
    BY <1>1
  <1>5. g.verdict = "ok" => g.enforced = g.resolved.enforced
    BY <1>3, ReceivedIs
  <1>6. OneActPerApproval'
    BY <1>1, Zenon DEF AuthInv, ActsWithinApproval, OneActPerApproval
  <1>7. ASSUME s.verdict = "ok", g.verdict = "ok"
        PROVE  /\ g.tool_definition = s.def /\ g.arguments = s.args /\ s.name = s.def.name
               /\ g.enforced \in 0..3
               /\ ~(1 \in DOMAIN s.def.annotations /\ s.def.annotations[1]) =>
                    /\ g.enforced >= 1
                    /\ ~(2 \in DOMAIN s.def.annotations /\ ~s.def.annotations[2]) => g.enforced = 3
                    /\ ~(3 \in DOMAIN s.def.annotations /\ s.def.annotations[3]) => g.enforced >= 2
    <2> DEFINE r == ReceiveToolCall(CarryToolCall(def, name, args, declared).object)
    <2>1. CarryToolCall(def, name, args, declared).verdict = "ok"
      BY <1>2, <1>7 DEF c
    <2>2. g = r
      BY <1>3, <1>7 DEF c
    <2>3. r.verdict = "ok"
      BY <1>7, <2>2
    <2>4. /\ r.tool_definition = def /\ r.arguments = args /\ name = def.name
          /\ r.enforced \in 0..3
          /\ ~(1 \in DOMAIN def.annotations /\ def.annotations[1]) =>
               /\ r.enforced >= 1
               /\ ~(2 \in DOMAIN def.annotations /\ ~def.annotations[2]) => r.enforced = 3
               /\ ~(3 \in DOMAIN def.annotations /\ def.annotations[3]) => r.enforced >= 2
      BY <2>1, <2>3, CarriedIs, Zenon
    <2> HIDE DEF r
    <2> QED BY <1>2, <2>2, <2>4, Zenon
  <1>8. ToolEffectNotUnderstated'
    BY <1>4, <1>7, Zenon DEF ToolEffectNotUnderstated, Destructive, IdempotentWrite, NonIdempotentWrite
  <1> QED BY <1>1, <1>4, <1>5, <1>6, <1>8 DEF AuthInv, ActsWithinApproval

LEMMA HandmadeCallInv ==
  ASSUME AuthInv, NEW def, NEW args, NEW value, NEW effect, HandmadeCall(def, args, value, effect)
  PROVE  AuthInv'
  <1> DEFINE o == [effect |-> effect, body |-> [k \in 1..3 |-> <<def, args, value>>[k]]]
             g == ReceiveToolCall(o)
  <1>1. bridged' = [sent |-> NoCall, got |-> g] /\ UNCHANGED <<today, approvals, spent, performed>>
    BY DEF HandmadeCall
  <1> HIDE DEF o
  <1>2. g.verdict = "ok" => g.enforced = g.resolved.enforced
    BY ReceivedIs
  <1> HIDE DEF g
  <1>3. bridged'.sent = NoCall /\ bridged'.got = g /\ NoCall.verdict # "ok"
    BY <1>1 DEF NoCall
  <1>4. OneActPerApproval'
    BY <1>1, Zenon DEF AuthInv, ActsWithinApproval, OneActPerApproval
  <1>5. ToolEffectNotUnderstated'
    BY <1>3, Zenon DEF ToolEffectNotUnderstated
  <1> QED BY <1>1, <1>2, <1>3, <1>4, <1>5 DEF AuthInv, ActsWithinApproval

\* Every step keeps the gates within the approvals.
LEMMA AuthStepKeeps ==
  ASSUME AuthInv, [AuthNext]_authvars PROVE AuthInv'
  <1>1. ASSUME UNCHANGED <<spent, performed, bridged>>, today' \in Nat,
               \A a \in approvals' : a.record \in Approvals
        PROVE  AuthInv'
    <2>1. OneActPerApproval'
      BY <1>1, Zenon DEF AuthInv, ActsWithinApproval, OneActPerApproval
    <2>2. ToolEffectNotUnderstated'
      BY <1>1, Zenon DEF AuthInv, ActsWithinApproval, ToolEffectNotUnderstated
    <2> QED BY <1>1, <2>1, <2>2 DEF AuthInv, ActsWithinApproval
  <1>2. CASE UNCHANGED authvars
    BY <1>1, <1>2 DEF authvars, AuthInv
  <1>3. CASE Tick
    BY <1>1, <1>3 DEF Tick, AuthInv
  <1>4. ASSUME NEW o, NEW key, PresentGrant(o, key) PROVE AuthInv'
    BY <1>1, <1>4 DEF PresentGrant, AuthInv
  <1>5. ASSUME NEW g \in grants, Revoke(g) PROVE AuthInv'
    BY <1>1, <1>5 DEF Revoke, AuthInv
  <1>6. ASSUME NEW r \in Approvals, NEW key \in {Human, Impostor}, SignApproval(r, key) PROVE AuthInv'
    <2>1. \A a \in approvals' : a.record \in Approvals
      BY <1>6 DEF SignApproval, AuthInv
    <2> QED BY <1>1, <1>6, <2>1 DEF SignApproval, AuthInv
  <1>7. ASSUME NEW action \in Actions, NEW a \in approvals, AuthorizeDestructive(action, a) PROVE AuthInv'
    <2>1. VerifyApproval(a, action) = "ok" /\ Authorizes(a.record.grant, action.effect) /\ Consumable(a)
      BY <1>7 DEF AuthorizeDestructive, DestructiveVerdict
    <2> QED BY <1>7, <2>1, SpendInv DEF AuthorizeDestructive
  <1>8. ASSUME NEW action \in Actions, NEW a \in approvals, ConsumeApproval(action, a) PROVE AuthInv'
    <2>1. VerifyApproval(a, action) = "ok" /\ Authorizes(a.record.grant, action.effect) /\ Consumable(a)
      BY <1>8 DEF ConsumeApproval, ConsumeApprovalVerdict
    <2> QED BY <1>8, <2>1, SpendInv DEF ConsumeApproval
  <1>9. ASSUME NEW p \in Charges, NEW a \in approvals, AuthorizeCharge(p, a) PROVE AuthInv'
    <2>1. VerifyApproval(a, p) = "ok" /\ Authorizes(a.record.grant, NonIdempotentWrite) /\ Consumable(a)
      BY <1>9 DEF AuthorizeCharge, ChargeVerdict
    <2> QED BY <1>9, <2>1, SpendInv DEF AuthorizeCharge
  <1>10. ASSUME NEW a \in approvals, AuthorizeCall(a) PROVE AuthInv'
    <2> DEFINE r == bridged.got.resolved
               x == CallBinding(r.tool_call)
    <2>1. /\ bridged.got.verdict = "ok" /\ CallVerdict(r, a) = "ok"
          /\ Spend(a, "call", x, bridged.got.enforced)
      BY <1>10 DEF AuthorizeCall
    <2>2. bridged.got.enforced = r.enforced
      BY <2>1 DEF AuthInv
    <2>3. VerifyApproval(a, x) = "ok" /\ Authorizes(a.record.grant, r.enforced) /\ Consumable(a)
      BY <2>1 DEF CallVerdict
    <2> HIDE DEF r, x
    <2> QED BY <2>1, <2>2, <2>3, SpendInv
  <1>11. ASSUME NEW def, NEW name, NEW declared \in {-1, 2, 4}, BridgeCall(def, name, "args", declared)
         PROVE  AuthInv'
    BY <1>11, BridgeCallInv
  <1>12. ASSUME NEW def, NEW args, NEW value, NEW effect, HandmadeCall(def, args, value, effect) PROVE AuthInv'
    BY <1>12, HandmadeCallInv
  <1> DEFINE Presents == \E k, s \in Issuers, kind \in {"grant", "other"},
                            e \in {IdempotentWrite, NonIdempotentWrite}, b \in Bodies, cs \in Chains :
                           (IF cs = {} THEN TRUE ELSE k = s /\ kind = "grant" /\ MatchingCauses(cs, k) # {})
                              /\ PresentGrant([key |-> k, signer |-> s, kind |-> kind, effect |-> e,
                                               body |-> b, causes |-> cs], k)
             Handmade == \E def \in {SomeDef, NoDefinition}, args \in {"args", NoArguments},
                            effect \in 0..3, v \in HintValues : HandmadeCall(def, args, v, effect)
             Names == {d.name : d \in ToolDefs}
             Bridges == \E def \in ToolDefs, name \in Names, declared \in {-1, 2, 4} :
                          BridgeCall(def, name, "args", declared)
             Revokes == \E g \in grants : Revoke(g)
             Signs == \E r \in Approvals, key \in {Human, Impostor} : SignApproval(r, key)
             Acts == \E action \in Actions, a \in approvals : AuthorizeDestructive(action, a) \/ ConsumeApproval(action, a)
             Charged == \E p \in Charges, a \in approvals : AuthorizeCharge(p, a)
             Called == \E a \in approvals : AuthorizeCall(a)
  <1>13. AuthNext => Tick \/ Presents \/ Revokes \/ Signs \/ Acts \/ Charged \/ Called \/ Bridges \/ Handmade
    BY Zenon DEF AuthNext
  <1>14. Presents => AuthInv'
    BY <1>4, Zenon
  <1> HIDE DEF Names
  <1>15. Handmade => AuthInv'
    BY <1>12, Zenon
  <1>16. Bridges => AuthInv'
    BY <1>11, Zenon
  <1>17. (Revokes => AuthInv') /\ (Signs => AuthInv')
    BY <1>5, <1>6, Zenon
  <1>18. (Acts => AuthInv') /\ (Charged => AuthInv') /\ (Called => AuthInv')
    BY <1>7, <1>8, <1>9, <1>10, Zenon
  <1> HIDE DEF Presents, Handmade, Bridges, Revokes, Signs, Acts, Charged, Called
  <1> QED BY <1>2, <1>3, <1>13, <1>14, <1>15, <1>16, <1>17, <1>18

\* What the four gates let through is what the human signed for, once, in time
\* and within the granted effect, whichever gate an approval goes through; and a
\* bridged tool call is held to its own annotations (authorize_destructive,
\* authorize_charge, consume_approval, carry_tool_call).
THEOREM OnlyWhatWasApproved == AuthSpec => []ActsWithinApproval
  <1>1. AuthInv => ActsWithinApproval
    BY DEF AuthInv
  <1> QED BY <1>1, AuthInitInv, AuthStepKeeps, PTL DEF AuthSpec

------------------------------------------------------------------------------
(* Delegation.  The walk from a leaf is a recursive function; its values are *)
(* found by induction up to the number of steps.                             *)

\* Natural numbers are well ordered: a set of them has a least element.
LEMMA LeastOf ==
  ASSUME NEW T \in SUBSET Nat, T # {}
  PROVE  \E m \in T : \A y \in T : m <= y
  <1> DEFINE R == {ss \in Nat \X Nat : ss[1] < ss[2]}
  <1>1. IsWellFoundedOn(R, Nat)
    BY NatLessThanWellFounded, Zenon DEF OpToRel
  <1>2. \A x, y \in Nat : <<x, y>> \in R <=> x < y
    OBVIOUS
  <1> HIDE DEF R
  <1>3. PICK m \in T : \A y \in Nat : <<y, m>> \in R => ~(y \in T)
    BY <1>1, WFMin, Zenon
  <1>4. \A y \in T : ~(y < m)
    BY <1>2, <1>3, Zenon
  <1> QED BY <1>3, <1>4

\* Induction up to a bound, as a fact about sets.
LEMMA AllUpTo ==
  ASSUME NEW n \in Nat, NEW G, 0 \in G, \A k \in 0..n : k < n /\ k \in G => k + 1 \in G
  PROVE  \A k \in 0..n : k \in G
  <1> DEFINE Out == {k \in 0..n : k \notin G}
  <1> SUFFICES ASSUME Out # {} PROVE FALSE
    OBVIOUS
  <1>0. Out \in SUBSET Nat
    OBVIOUS
  <1>1. PICK m \in Out : \A y \in Out : m <= y
    BY <1>0, LeastOf
  <1>2. m \in 1..n /\ m - 1 \in 0..n
    OBVIOUS
  <1>3. m - 1 \in G
    BY <1>1, <1>2
  <1> QED BY <1>1, <1>2, <1>3

WalkBody(start, f, i) == IF i = 0 THEN start ELSE Hop(f[i - 1])
WalkFn(start, n) == CHOOSE f : f = [i \in 0..n |-> WalkBody(start, f, i)]

LEMMA WalkIs == ASSUME NEW start, NEW n PROVE Walk(start, n) = WalkFn(start, n)[n]
  BY Zenon DEF Walk, WalkFn, WalkBody

\* The walk is well founded: one hop after another, from where it starts.
LEMMA WalkSteps ==
  ASSUME NEW start, NEW N \in Nat
  PROVE  \E w : w[N] = Walk(start, N) /\ w[0] = start /\ \A i \in 1..N : w[i] = Hop(w[i - 1])
  <1> DEFINE G == {k \in 0..N : \E g : g = [i \in 0..k |-> WalkBody(start, g, i)]}
  <1>1. 0 \in G
    <2>1. PICK g : g = [i \in 0..0 |-> start]
      OBVIOUS
    <2>2. \A i \in 0..0 : WalkBody(start, g, i) = start
      BY DEF WalkBody
    <2>3. g = [i \in 0..0 |-> WalkBody(start, g, i)]
      BY <2>1, <2>2
    <2> QED BY <2>3
  <1>2. ASSUME NEW k \in 0..N, k < N, k \in G PROVE k + 1 \in G
    <2>1. PICK g : g = [i \in 0..k |-> WalkBody(start, g, i)]
      BY <1>2
    <2>2. PICK h : h = [i \in 0..(k + 1) |-> IF i = k + 1 THEN WalkBody(start, g, i) ELSE g[i]]
      OBVIOUS
    <2>3. \A i \in 0..k : h[i] = g[i] /\ g[i] = WalkBody(start, g, i)
      <3>1. \A i \in 0..k : g[i] = WalkBody(start, g, i)
        BY <2>1
      <3>2. \A i \in 0..k : i \in 0..(k + 1) /\ i # k + 1
        OBVIOUS
      <3>3. \A i \in 0..k : h[i] = g[i]
        BY <2>2, <3>2
      <3> QED BY <3>1, <3>3
    <2>4. ASSUME NEW i \in 0..(k + 1) PROVE WalkBody(start, h, i) = WalkBody(start, g, i)
      <3>1. CASE i = 0
        BY <3>1 DEF WalkBody
      <3>2. CASE i # 0
        <4>1. i - 1 \in 0..k
          BY <3>2
        <4>2. h[i - 1] = g[i - 1]
          BY <2>3, <4>1
        <4> QED BY <4>2 DEF WalkBody
      <3> QED BY <3>1, <3>2
    <2>5. ASSUME NEW i \in 0..(k + 1) PROVE h[i] = WalkBody(start, h, i)
      <3>1. CASE i = k + 1
        BY <2>2, <2>4, <3>1
      <3>2. CASE i # k + 1
        <4>1. i \in 0..k
          BY <3>2
        <4> QED BY <2>3, <2>4, <4>1
      <3> QED BY <3>1, <3>2
    <2>6. h = [i \in 0..(k + 1) |-> WalkBody(start, h, i)]
      BY <2>2, <2>5
    <2>7. k + 1 \in 0..N
      BY <1>2
    <2> QED BY <2>6, <2>7
  <1>3. N \in G
    <2> HIDE DEF G
    <2>1. \A k \in 0..N : k \in G
      BY <1>1, <1>2, AllUpTo
    <2> QED BY <2>1
  <1>4. \E g : g = [i \in 0..N |-> WalkBody(start, g, i)]
    BY <1>3
  <1>5. PICK f : f = WalkFn(start, N)
    OBVIOUS
  <1>6. f = [i \in 0..N |-> WalkBody(start, f, i)]
    BY <1>4, <1>5, Zenon DEF WalkFn
  <1>7. \A i \in 0..N : f[i] = WalkBody(start, f, i)
    BY <1>6
  <1>8. f[0] = start /\ \A i \in 1..N : f[i] = Hop(f[i - 1])
    BY <1>7 DEF WalkBody
  <1>9. f[N] = Walk(start, N)
    BY <1>5, WalkIs
  <1> QED BY <1>8, <1>9

\* A verdict is final: once the walk has ended, nothing changes any more.
LEMMA WalkStays ==
  ASSUME NEW N \in Nat, NEW w, \A i \in 1..N : w[i] = Hop(w[i - 1]),
         NEW n \in 0..N, w[n].verdict # "walking"
  PROVE  w[N] = w[n]
  <1> DEFINE G == {k \in 0..(N - n) : w[n + k] = w[n]}
  <1>1. 0 \in G
    OBVIOUS
  <1>2. ASSUME NEW k \in 0..(N - n), k < N - n, k \in G PROVE k + 1 \in G
    <2>1. n + k + 1 \in 1..N /\ n + k + 1 - 1 = n + k
      BY <1>2
    <2>2. w[n + k + 1] = Hop(w[n + k]) /\ w[n + k] = w[n]
      BY <1>2, <2>1
    <2>3. PICK st : st = w[n]
      OBVIOUS
    <2>4. Hop(st) = st
      BY <2>3, Zenon DEF Hop
    <2>5. w[n + k + 1] = w[n]
      BY <2>2, <2>3, <2>4
    <2>6. n + k + 1 = n + (k + 1)
      OBVIOUS
    <2> QED BY <1>2, <2>5, <2>6
  <1>3. N - n \in Nat
    OBVIOUS
  <1> HIDE DEF G
  <1>4. \A k \in 0..(N - n) : k \in G
    BY <1>1, <1>2, <1>3, AllUpTo
  <1>5. N - n \in G
    BY <1>3, <1>4
  <1>6. n + (N - n) = N
    OBVIOUS
  <1> QED BY <1>5, <1>6 DEF G

\* The walk stands before grant g, with the effect and the scope of what is below.
Before(g, e, s, p, v) ==
  [verdict |-> "walking", g |-> g, effect |-> e, scope |-> s, pos |-> p, visited |-> v]

\* Grant g is in force for what is below it, effect e and scope s, p hops down.
InForce(g, e, s, p) ==
  /\ ~(today < g.grant.not_before) /\ ~(today > g.grant.not_after) /\ ~RevokedAt(g)
  /\ Authorizes(g.grant.effect_cap, e) /\ ScopeContained(s, g.grant.scope) /\ ~(p > g.grant.max_depth)

Parents(g) == MatchingCauses(g.causes, g.issuer)

LEMMA CheckIs ==
  ASSUME NEW g, NEW e, NEW s, NEW p, NEW v, NEW c, c = CheckHop(Before(g, e, s, p, v))
  PROVE  /\ c = "ok" <=> g \notin v /\ InForce(g, e, s, p)
         /\ c # "walking"
  <1>1. PICK st : st = Before(g, e, s, p, v)
    OBVIOUS
  <1>2. st.g = g /\ st.effect = e /\ st.scope = s /\ st.pos = p /\ st.visited = v
    BY <1>1 DEF Before
  <1>3. c = CheckHop(st)
    BY <1>1
  <1>4. PICK nb, na, cap, sc, d : /\ nb = g.grant.not_before /\ na = g.grant.not_after /\ cap = g.grant.effect_cap
                                  /\ sc = g.grant.scope /\ d = g.grant.max_depth
    OBVIOUS
  <1> DEFINE A == g \in v
             B == today < nb
             C == today > na
             D == RevokedAt(g)
             E == Authorizes(cap, e)
             F == ScopeContained(s, sc)
             H == p > d
  <1>5. c = IF A THEN "ChainBroken" ELSE IF B THEN "GrantNotYetValid" ELSE IF C THEN "GrantExpired"
            ELSE IF D THEN "GrantRevoked" ELSE IF ~E THEN "CapExceedsParent" ELSE IF ~F THEN "CapExceedsParent"
            ELSE IF H THEN "DelegationDepthExceeded" ELSE "ok"
    BY <1>2, <1>3, <1>4, Zenon DEF CheckHop
  <1>6. InForce(g, e, s, p) <=> ~B /\ ~C /\ ~D /\ E /\ F /\ ~H
    BY <1>4, Zenon DEF InForce
  <1> HIDE DEF A, B, C, D, E, F, H
  <1>7. (c = "ok" <=> ~A /\ ~B /\ ~C /\ ~D /\ E /\ F /\ ~H) /\ c # "walking"
    BY <1>5
  <1> QED BY <1>6, <1>7 DEF A

\* One hop: it goes on to the one parent, which allows strictly more hops, or it
\* ends well at an anchor, or it ends with an error.
HopSays(g, e, s, p, v, h) ==
  /\ h.verdict = "walking" <=>
       /\ g \notin v /\ InForce(g, e, s, p)
       /\ \E q : /\ Parents(g) = {q} /\ q.grant.max_depth # 0 /\ ~(g.grant.max_depth >= q.grant.max_depth)
                 /\ h = Before(q, g.grant.effect_cap, g.grant.scope, p + 1, v \cup {g})
  /\ \A q : /\ g \notin v /\ InForce(g, e, s, p)
            /\ Parents(g) = {q} /\ q.grant.max_depth # 0 /\ ~(g.grant.max_depth >= q.grant.max_depth)
            => h = Before(q, g.grant.effect_cap, g.grant.scope, p + 1, v \cup {g})
  /\ h.verdict = "ok" <=> /\ g \notin v /\ InForce(g, e, s, p)
                          /\ Parents(g) = {} /\ g.issuer \in Anchors

LEMMA HopIs ==
  ASSUME NEW g, NEW e, NEW s, NEW p, NEW v, NEW h, h = Hop(Before(g, e, s, p, v)), IsFiniteSet(Parents(g))
  PROVE  HopSays(g, e, s, p, v, h)
  <1>1. PICK st : st = Before(g, e, s, p, v)
    OBVIOUS
  <1>2. PICK c : c = CheckHop(st)
    OBVIOUS
  <1>3. (c = "ok" <=> g \notin v /\ InForce(g, e, s, p)) /\ c # "walking"
    BY <1>1, <1>2, CheckIs
  <1>4. PICK ps : ps = Parents(g)
    OBVIOUS
  <1>5. PICK pp : pp = CHOOSE x \in ps : TRUE
    OBVIOUS
  <1>6. st.verdict = "walking" /\ st.g = g /\ st.pos = p /\ st.visited = v
    BY <1>1 DEF Before
  <1>7. h = IF c # "ok" THEN [st EXCEPT !.verdict = c]
            ELSE IF Cardinality(ps) > 1 THEN [st EXCEPT !.verdict = "ChainBroken"]
            ELSE IF ps = {} THEN [st EXCEPT !.verdict = IF g.issuer \in Anchors THEN "ok" ELSE "UntrustedChainRoot"]
            ELSE IF pp.grant.max_depth = 0 \/ g.grant.max_depth >= pp.grant.max_depth
              THEN [st EXCEPT !.verdict = "DelegationDepthExceeded"]
            ELSE [st EXCEPT !.g = pp, !.effect = g.grant.effect_cap, !.scope = g.grant.scope,
                            !.pos = @ + 1, !.visited = @ \cup {g}]
    BY <1>1, <1>2, <1>4, <1>5, <1>6 DEF Hop, Parents
  <1>8. PICK cap, sc, d, r, bad : /\ cap = g.grant.effect_cap /\ sc = g.grant.scope /\ r = Before(pp, cap, sc, p + 1, v \cup {g})
                                  /\ d = (pp.grant.max_depth = 0 \/ g.grant.max_depth >= pp.grant.max_depth)
                                  /\ bad = (g.issuer \in Anchors)
    OBVIOUS
  <1>9. \A x : [st EXCEPT !.verdict = x].verdict = x
    BY <1>1 DEF Before
  <1>10. [st EXCEPT !.g = pp, !.effect = cap, !.scope = sc, !.pos = @ + 1, !.visited = @ \cup {g}] = r
    <2>1. PICK p1, v1 : p1 = p + 1 /\ v1 = v \cup {g}
      OBVIOUS
    <2>2. st = [verdict |-> "walking", g |-> g, effect |-> e, scope |-> s, pos |-> p, visited |-> v]
      BY <1>1 DEF Before
    <2>3. r = [verdict |-> "walking", g |-> pp, effect |-> cap, scope |-> sc, pos |-> p1, visited |-> v1]
      BY <1>8, <2>1 DEF Before
    <2>4. [st EXCEPT !.g = pp, !.effect = cap, !.scope = sc, !.pos = p1, !.visited = v1] = r
      <3>1. DOMAIN st = {"verdict", "g", "effect", "scope", "pos", "visited"}
        BY <2>2
      <3>2. PICK t : t = [st EXCEPT !.g = pp, !.effect = cap, !.scope = sc, !.pos = p1, !.visited = v1]
        OBVIOUS
      <3>3. /\ t.verdict = "walking" /\ t.g = pp /\ t.effect = cap /\ t.scope = sc /\ t.pos = p1 /\ t.visited = v1
            /\ DOMAIN t = DOMAIN st
        BY <2>2, <3>1, <3>2
      <3>4. t = [x \in DOMAIN st |-> t[x]]
        BY <3>2, <3>3
      <3>5. r = [x \in DOMAIN st |-> r[x]]
        BY <2>3, <3>1
      <3>6. \A x \in DOMAIN st : t[x] = r[x]
        BY <2>3, <3>1, <3>3
      <3> QED BY <3>2, <3>4, <3>5, <3>6
    <2>5. st.pos + 1 = p1 /\ st.visited \cup {g} = v1
      BY <1>6, <2>1
    <2> QED BY <2>4, <2>5
  <1>11. r.verdict = "walking"
    BY <1>8 DEF Before
  <1>12. /\ c # "ok" => h.verdict = c
         /\ c = "ok" /\ Cardinality(ps) > 1 => h.verdict = "ChainBroken"
         /\ c = "ok" /\ ~(Cardinality(ps) > 1) /\ ps = {} /\ g.issuer \in Anchors => h.verdict = "ok"
         /\ c = "ok" /\ ~(Cardinality(ps) > 1) /\ ps = {} /\ g.issuer \notin Anchors => h.verdict = "UntrustedChainRoot"
         /\ c = "ok" /\ ~(Cardinality(ps) > 1) /\ ps # {} /\ (pp.grant.max_depth = 0 \/ g.grant.max_depth >= pp.grant.max_depth)
              => h.verdict = "DelegationDepthExceeded"
         /\ c = "ok" /\ ~(Cardinality(ps) > 1) /\ ps # {} /\ ~(pp.grant.max_depth = 0 \/ g.grant.max_depth >= pp.grant.max_depth)
              => h = r
    BY <1>7, <1>8, <1>9, <1>10, Zenon
  <1>13. ~(Cardinality(ps) > 1) <=> ps = {} \/ ps = {pp}
    <2>1. IsFiniteSet(ps)
      BY <1>4
    <2>2. PICK n \in Nat : n = Cardinality(ps)
      BY <2>1, FS_CardinalityType
    <2>3. (n = 0 <=> ps = {}) /\ (n = 1 <=> \E x : ps = {x})
      BY <2>1, <2>2, FS_EmptySet, FS_Singleton, Zenon
    <2>4. \A x : ps = {x} => x = pp
      BY <1>5, Zenon
    <2>5. (n = 1 <=> ps = {pp})
      BY <2>3, <2>4, Zenon
    <2> QED BY <2>2, <2>3, <2>5
  <1>14. ps = {pp} => ps # {} /\ \A q : ps = {q} => q = pp
    BY <1>5, Zenon
  <1>15. \A q : ps = {q} => q = pp
    BY <1>5, Zenon
  <1> HIDE DEF Parents, InForce
  <1>16. ("ok" # "walking" /\ "ChainBroken" # "ok" /\ "ChainBroken" # "walking" /\ "UntrustedChainRoot" # "ok"
            /\ "UntrustedChainRoot" # "walking" /\ "DelegationDepthExceeded" # "ok" /\ "DelegationDepthExceeded" # "walking")
    OBVIOUS
  <1> DEFINE deep == pp.grant.max_depth = 0 \/ g.grant.max_depth >= pp.grant.max_depth
  <1>17. h.verdict = "walking" <=> c = "ok" /\ ps = {pp} /\ ~deep
    <2> HIDE DEF deep
    <2> QED BY <1>3, <1>11, <1>12, <1>13, <1>14, <1>16 DEF deep
  <1>18. c = "ok" /\ ps = {pp} /\ ~deep => h = r
    <2> QED BY <1>12, <1>13, <1>14
  <1>19. h.verdict = "ok" <=> c = "ok" /\ ps = {} /\ g.issuer \in Anchors
    <2> QED BY <1>3, <1>11, <1>12, <1>13, <1>14, <1>16
  <1>20. \A q : ps = {q} /\ q.grant.max_depth # 0 /\ ~(g.grant.max_depth >= q.grant.max_depth) => ps = {pp} /\ ~deep /\ q = pp
    BY <1>15, Zenon
  <1>21. ps = {pp} /\ ~deep => ps = {pp} /\ pp.grant.max_depth # 0 /\ ~(g.grant.max_depth >= pp.grant.max_depth)
    BY Zenon
  <1> HIDE DEF deep
  <1>22. h.verdict = "walking" => \E q : /\ ps = {q} /\ q.grant.max_depth # 0 /\ ~(g.grant.max_depth >= q.grant.max_depth)
                                         /\ h = Before(q, cap, sc, p + 1, v \cup {g})
    BY <1>8, <1>17, <1>18, <1>21, Zenon
  <1>23. \A q : /\ c = "ok" /\ ps = {q} /\ q.grant.max_depth # 0 /\ ~(g.grant.max_depth >= q.grant.max_depth)
                => h.verdict = "walking" /\ h = Before(q, cap, sc, p + 1, v \cup {g})
    BY <1>8, <1>17, <1>18, <1>20, Zenon
  <1> HIDE DEF Before
  <1> QED BY <1>3, <1>4, <1>8, <1>17, <1>19, <1>22, <1>23, Zenon DEF HopSays

\* What the grants of the verifier look like, and how many there are.
TypedGrant(g) ==
  /\ g.grant.effect_cap \in Nat /\ g.grant.max_depth \in Nat
  /\ g.grant.not_before \in Nat /\ g.grant.not_after \in Nat
  /\ g.grant.scope \in Seq(Segments)

GrantInv ==
  /\ today \in Nat
  /\ IsFiniteSet(grants) /\ Cardinality(grants) <= MaxGrants
  /\ \A g \in grants : TypedGrant(g)
  /\ \A g \in DOMAIN revoked : revoked[g] \in Nat

LEMMA GrantTyped ==
  ASSUME NEW o, o.body \in Bodies, GrantFromBody(o.body).verdict = "ok"
  PROVE  TypedGrant(Resolved(o))
  <1>1. PICK b : b = o.body
    OBVIOUS
  <1>2. PICK g : g = GrantFromBody(b)
    OBVIOUS
  <1>3. DOMAIN b \subseteq 1..6 /\ 1..5 \subseteq DOMAIN b /\ b[2] <= Destructive
    BY <1>1 DEF GrantFromBody
  <1>4. g = [verdict |-> "ok", subject |-> b[1], effect_cap |-> b[2], max_depth |-> b[3],
             not_before |-> b[4], not_after |-> b[5], scope |-> IF 6 \in DOMAIN b THEN b[6] ELSE << >>]
    BY <1>2, <1>3 DEF GrantFromBody
  <1>5. /\ b[2] \in Nat /\ b[3] \in Nat /\ b[4] \in Nat /\ b[5] \in Nat
        /\ (IF 6 \in DOMAIN b THEN b[6] ELSE << >>) \in Seq(Segments)
    <2>1. 2 \in DOMAIN b \cap 2..5 /\ 3 \in DOMAIN b \cap 2..5 /\ 4 \in DOMAIN b \cap 2..5 /\ 5 \in DOMAIN b \cap 2..5
      BY <1>3
    <2>2. (\A k \in DOMAIN b \cap 2..5 : b[k] \in Nat) /\ (6 \in DOMAIN b => b[6] \in Seq(Segments))
      BY <1>1, DelegationConstants
    <2>3. << >> \in Seq(Segments)
      OBVIOUS
    <2> QED BY <2>1, <2>2, <2>3
  <1>6. Resolved(o).grant = g
    BY <1>1, <1>2 DEF Resolved
  <1>7. PICK x : x = Resolved(o)
    OBVIOUS
  <1>8. /\ g.effect_cap \in Nat /\ g.max_depth \in Nat /\ g.not_before \in Nat /\ g.not_after \in Nat
        /\ g.scope \in Seq(Segments)
    BY <1>4, <1>5
  <1> QED BY <1>6, <1>7, <1>8, Zenon DEF TypedGrant

LEMMA GrantInitInv == ASSUME AuthInit PROVE GrantInv
  <1>1. today = 0 /\ grants = {} /\ revoked = << >>
    BY DEF AuthInit
  <1>2. IsFiniteSet({}) /\ Cardinality({}) = 0
    BY FS_EmptySet
  <1>3. DOMAIN << >> = {}
    OBVIOUS
  <1> QED BY <1>1, <1>2, <1>3, DelegationConstants DEF GrantInv

LEMMA GrantStepKeeps ==
  ASSUME GrantInv, [AuthNext]_authvars PROVE GrantInv'
  <1>1. ASSUME UNCHANGED <<grants, revoked>>, today' \in Nat PROVE GrantInv'
    BY <1>1 DEF GrantInv, TypedGrant
  <1>2. CASE UNCHANGED authvars
    BY <1>1, <1>2 DEF authvars, GrantInv
  <1>3. CASE Tick
    BY <1>1, <1>3 DEF Tick, GrantInv
  <1>4. ASSUME NEW o, NEW key, o.body \in Bodies, PresentGrant(o, key) PROVE GrantInv'
    <2>1. UNCHANGED <<today, revoked>> /\ Cardinality(grants) < MaxGrants
      BY <1>4 DEF PresentGrant
    <2>2. CASE VerifyGrantObject(o, key) # "ok"
      BY <1>1, <1>4, <2>1, <2>2 DEF PresentGrant, GrantInv
    <2>3. CASE VerifyGrantObject(o, key) = "ok"
      <3>1. GrantFromBody(o.body).verdict = "ok"
        BY <2>3 DEF VerifyGrantObject
      <3>2. TypedGrant(Resolved(o))
        BY <1>4, <3>1, GrantTyped
      <3>3. PICK x : x = Resolved(o)
        OBVIOUS
      <3>4. grants' = grants \cup {x}
        BY <1>4, <2>3, <3>3 DEF PresentGrant
      <3>5. IsFiniteSet(grants) /\ Cardinality(grants) \in Nat
        BY FS_CardinalityType DEF GrantInv
      <3>6. IsFiniteSet(grants \cup {x}) /\ Cardinality(grants \cup {x}) <= Cardinality(grants) + 1
                                         /\ Cardinality(grants \cup {x}) \in Nat
        BY <3>5, FS_AddElement
      <3>7. IsFiniteSet(grants') /\ Cardinality(grants') <= MaxGrants
        BY <2>1, <3>4, <3>5, <3>6, DelegationConstants
      <3>8. \A g \in grants' : TypedGrant(g)
        BY <3>2, <3>3, <3>4, Zenon DEF GrantInv
      <3>9. (\A g \in grants : TypedGrant(g))'
        BY <3>8 DEF TypedGrant
      <3>10. (today \in Nat /\ \A g \in DOMAIN revoked : revoked[g] \in Nat)'
        BY <2>1 DEF GrantInv
      <3> QED BY <3>7, <3>9, <3>10 DEF GrantInv
    <2> QED BY <2>2, <2>3
  <1>5. ASSUME NEW g \in grants, Revoke(g) PROVE GrantInv'
    <2>1. UNCHANGED <<today, grants>> /\ revoked' = [x \in DOMAIN revoked \cup {g} |-> IF x = g THEN today ELSE revoked[x]]
      BY <1>5 DEF Revoke
    <2>2. \A x \in DOMAIN revoked' : revoked'[x] \in Nat
      BY <2>1 DEF GrantInv
    <2> QED BY <2>1, <2>2 DEF GrantInv, TypedGrant
  <1>6. ASSUME UNCHANGED <<today, grants, revoked>> PROVE GrantInv'
    BY <1>1, <1>6 DEF GrantInv
  <1> DEFINE Presents == \E k, s \in Issuers, kind \in {"grant", "other"},
                            e \in {IdempotentWrite, NonIdempotentWrite}, b \in Bodies, cs \in Chains :
                           (IF cs = {} THEN TRUE ELSE k = s /\ kind = "grant" /\ MatchingCauses(cs, k) # {})
                              /\ PresentGrant([key |-> k, signer |-> s, kind |-> kind, effect |-> e,
                                               body |-> b, causes |-> cs], k)
             Handmade == \E def \in {SomeDef, NoDefinition}, args \in {"args", NoArguments},
                            effect \in 0..3, v \in HintValues : HandmadeCall(def, args, v, effect)
             Bridges == \E def \in ToolDefs, name \in {d.name : d \in ToolDefs}, declared \in {-1, 2, 4} :
                          BridgeCall(def, name, "args", declared)
             Revokes == \E g \in grants : Revoke(g)
             Signs == \E r \in Approvals, key \in {Human, Impostor} : SignApproval(r, key)
             Acts == \E action \in Actions, a \in approvals : AuthorizeDestructive(action, a) \/ ConsumeApproval(action, a)
             Charged == \E p \in Charges, a \in approvals : AuthorizeCharge(p, a)
             Called == \E a \in approvals : AuthorizeCall(a)
  <1>7. AuthNext => Tick \/ Presents \/ Revokes \/ Signs \/ Acts \/ Charged \/ Called \/ Bridges \/ Handmade
    BY Zenon DEF AuthNext
  <1>8. ASSUME Presents PROVE GrantInv'
    <2>1. PICK k \in Issuers, s \in Issuers, kind \in {"grant", "other"},
               e \in {IdempotentWrite, NonIdempotentWrite}, b \in Bodies, cs \in Chains :
                 PresentGrant([key |-> k, signer |-> s, kind |-> kind, effect |-> e, body |-> b, causes |-> cs], k)
      BY <1>8, Zenon
    <2>2. PICK o : o = [key |-> k, signer |-> s, kind |-> kind, effect |-> e, body |-> b, causes |-> cs]
      OBVIOUS
    <2>3. o.body \in Bodies /\ PresentGrant(o, k)
      BY <2>1, <2>2
    <2> QED BY <1>4, <2>3
  <1>9. Revokes => GrantInv'
    BY <1>5, Zenon
  <1>10. /\ Signs => UNCHANGED <<today, grants, revoked>>
         /\ Handmade => UNCHANGED <<today, grants, revoked>>
    BY DEF SignApproval, HandmadeCall
  <1>11. Bridges => UNCHANGED <<today, grants, revoked>>
    BY DEF BridgeCall
  <1>12. /\ Acts => UNCHANGED <<today, grants, revoked>>
         /\ Charged => UNCHANGED <<today, grants, revoked>>
         /\ Called => UNCHANGED <<today, grants, revoked>>
    BY DEF AuthorizeDestructive, ConsumeApproval, AuthorizeCharge, AuthorizeCall, Spend
  <1> HIDE DEF Presents, Handmade, Bridges, Revokes, Signs, Acts, Charged, Called
  <1> QED BY <1>2, <1>3, <1>6, <1>7, <1>8, <1>9, <1>10, <1>11, <1>12

LEMMA StartIs ==
  ASSUME NEW S, NEW m \in Nat, NEW s, \A i \in 1..m : s[i] \in S, NEW u, u = SubSeq(s, 1, m)
  PROVE  u \in Seq(S) /\ Len(u) = m /\ \A i \in 1..m : u[i] = s[i]
  <1>1. /\ u \in Seq(S)
        /\ Len(u) = IF 1 <= m THEN m - 1 + 1 ELSE 0
        /\ \A i \in 1..(m - 1 + 1) : u[i] = s[1 + i - 1]
    BY SubSeqProperties
  <1>2. m - 1 + 1 = m /\ \A i \in 1..m : 1 + i - 1 = i
    OBVIOUS
  <1> QED BY <1>1, <1>2

\* Prefixes, entry by entry.
LEMMA PrefixIn ==
  ASSUME NEW S, NEW s \in Seq(S), NEW t \in Seq(S)
  PROVE  IsPrefix(s, t) <=> Len(s) <= Len(t) /\ \A i \in 1..Len(s) : s[i] = t[i]
  <1>1. PICK m \in Nat, n \in Nat : m = Len(s) /\ n = Len(t)
    BY LenProperties
  <1>2. (\A i \in 1..m : s[i] \in S) /\ (\A i \in 1..n : t[i] \in S)
    BY <1>1, ElementOfSeq
  <1>3. ASSUME m <= n PROVE SubSeq(s, 1, m) = SubSeq(t, 1, m) <=> \A i \in 1..m : s[i] = t[i]
    <2>1. \A i \in 1..m : t[i] \in S
      BY <1>2, <1>3
    <2>2. PICK u : u = SubSeq(s, 1, m)
      OBVIOUS
    <2>3. PICK v : v = SubSeq(t, 1, m)
      OBVIOUS
    <2>4. u \in Seq(S) /\ Len(u) = m /\ \A i \in 1..m : u[i] = s[i]
      BY <1>2, <2>2, StartIs
    <2>5. v \in Seq(S) /\ Len(v) = m /\ \A i \in 1..m : v[i] = t[i]
      BY <2>1, <2>3, StartIs
    <2>6. u = v <=> \A i \in 1..m : u[i] = v[i]
      BY <2>4, <2>5
    <2> QED BY <2>2, <2>3, <2>4, <2>5, <2>6
  <1> QED BY <1>1, <1>3 DEF IsPrefix

LEMMA PrefixChain ==
  ASSUME NEW S, NEW s \in Seq(S), NEW t \in Seq(S), NEW u \in Seq(S), IsPrefix(s, t), IsPrefix(t, u)
  PROVE  IsPrefix(s, u)
  <1>1. PICK m \in Nat, n \in Nat, k \in Nat : m = Len(s) /\ n = Len(t) /\ k = Len(u)
    BY LenProperties
  <1>2. m <= n /\ \A i \in 1..m : s[i] = t[i]
    BY <1>1, PrefixIn
  <1>3. n <= k /\ \A i \in 1..n : t[i] = u[i]
    BY <1>1, PrefixIn
  <1>4. m <= k /\ \A i \in 1..m : s[i] = u[i]
    BY <1>2, <1>3
  <1> QED BY <1>1, <1>4, PrefixIn

LEMMA PrefixOfNone ==
  ASSUME NEW S, NEW s \in Seq(S), IsPrefix(s, << >>) PROVE s = << >>
  <1>1. << >> \in Seq(S) /\ Len(<< >>) = 0
    OBVIOUS
  <1>2. Len(s) <= 0
    BY <1>1, PrefixIn
  <1> QED BY <1>2, LenProperties, EmptySeq

\* Grant x lies inside grant y.
Under(x, y) ==
  /\ x.grant.effect_cap <= y.grant.effect_cap /\ x.grant.max_depth < y.grant.max_depth
  /\ y.grant.scope # << >> => x.grant.scope # << >> /\ IsPrefix(y.grant.scope, x.grant.scope)

\* The action lies inside grant x.
Covers(x, action) ==
  action.effect <= x.grant.effect_cap /\ (x.grant.scope = << >> \/ IsPrefix(x.grant.scope, action.scope))

LEMMA UnderChain ==
  ASSUME NEW x, NEW y, NEW z, TypedGrant(x), TypedGrant(y), TypedGrant(z), Under(x, y), Under(y, z)
  PROVE  Under(x, z)
  <1>1. PICK a, b, c : a = x.grant /\ b = y.grant /\ c = z.grant
    OBVIOUS
  <1>2. PICK S : S = Segments
    OBVIOUS
  <1>3. a.scope \in Seq(S) /\ b.scope \in Seq(S) /\ c.scope \in Seq(S)
    BY <1>1, <1>2 DEF TypedGrant
  <1>4. /\ a.effect_cap \in Nat /\ b.effect_cap \in Nat /\ c.effect_cap \in Nat
        /\ a.max_depth \in Nat /\ b.max_depth \in Nat /\ c.max_depth \in Nat
    BY <1>1 DEF TypedGrant
  <1>5. a.effect_cap <= c.effect_cap /\ a.max_depth < c.max_depth
    BY <1>1, <1>4 DEF Under
  <1>6. PICK p, q, r : p = a.scope /\ q = b.scope /\ r = c.scope
    OBVIOUS
  <1>7. (q # << >> => p # << >> /\ IsPrefix(q, p)) /\ (r # << >> => q # << >> /\ IsPrefix(r, q))
    BY <1>1, <1>6, Zenon DEF Under
  <1>8. p \in Seq(S) /\ q \in Seq(S) /\ r \in Seq(S)
    BY <1>3, <1>6
  <1>9. r # << >> => p # << >> /\ IsPrefix(r, p)
    BY <1>7, <1>8, PrefixChain
  <1> QED BY <1>1, <1>5, <1>6, <1>9, Zenon DEF Under

LEMMA CoversAbove ==
  ASSUME NEW x, NEW y, NEW action \in Actions, TypedGrant(x), TypedGrant(y), Covers(x, action), Under(x, y)
  PROVE  Covers(y, action)
  <1>1. PICK a, b : a = x.grant /\ b = y.grant
    OBVIOUS
  <1>2. PICK S : S = Segments
    OBVIOUS
  <1>3. action.effect \in Nat /\ a.effect_cap \in Nat /\ b.effect_cap \in Nat
    BY <1>1, DelegationConstants DEF TypedGrant
  <1>4. action.effect <= b.effect_cap
    BY <1>1, <1>3 DEF Covers, Under
  <1>5. PICK p, q, r : p = a.scope /\ q = b.scope /\ r = action.scope
    OBVIOUS
  <1>6. p \in Seq(S) /\ q \in Seq(S) /\ r \in Seq(S)
    BY <1>1, <1>2, <1>5, DelegationConstants DEF TypedGrant
  <1>7. (p = << >> \/ IsPrefix(p, r)) /\ (q # << >> => p # << >> /\ IsPrefix(q, p))
    BY <1>1, <1>5, Zenon DEF Covers, Under
  <1>8. q = << >> \/ IsPrefix(q, r)
    BY <1>6, <1>7, PrefixChain
  <1> QED BY <1>1, <1>4, <1>5, <1>8, Zenon DEF Covers

\* What stands below grant i of a path.
EffectBelow(path, action, i) == IF i = 1 THEN action.effect ELSE path[i - 1].grant.effect_cap
ScopeBelow(path, action, i) == IF i = 1 THEN action.scope ELSE path[i - 1].grant.scope

\* A path that the walk can take to its end.
WalkedPath(n, path, action, causes) ==
  /\ MatchingCauses(causes, action.signer) = {path[1]}
  /\ \A i \in 1..(n - 1) : Parents(path[i]) = {path[i + 1]} /\ path[i].grant.max_depth < path[i + 1].grant.max_depth
  /\ Parents(path[n]) = {} /\ path[n].issuer \in Anchors
  /\ \A i \in 1..n : InForce(path[i], EffectBelow(path, action, i), ScopeBelow(path, action, i), i - 1)

\* A path of grants each inside the next, with the action inside all of them.
NestedPath(n, path, action, causes) ==
  /\ MatchingCauses(causes, action.signer) = {path[1]}
  /\ \A i \in 1..(n - 1) : Parents(path[i]) = {path[i + 1]}
  /\ Parents(path[n]) = {} /\ path[n].issuer \in Anchors
  /\ \A i \in 1..n :
       /\ ~(today < path[i].grant.not_before) /\ ~(today > path[i].grant.not_after) /\ ~RevokedAt(path[i])
       /\ Covers(path[i], action) /\ ~(i - 1 > path[i].grant.max_depth)
       /\ \A j \in 1..(i - 1) : Under(path[j], path[i])

\* Each next grant of a walked path allows the one below it.
LEMMA WalkedUnder ==
  ASSUME GrantInv, NEW n \in Nat, NEW path \in [1..n -> grants], NEW action, NEW causes,
         WalkedPath(n, path, action, causes), NEW i \in 1..(n - 1)
  PROVE  Under(path[i], path[i + 1])
  <1>1. i + 1 \in 1..n /\ i + 1 # 1 /\ i + 1 - 1 = i
    OBVIOUS
  <1>2. InForce(path[i + 1], EffectBelow(path, action, i + 1), ScopeBelow(path, action, i + 1), i + 1 - 1)
    BY <1>1 DEF WalkedPath
  <1>3. PICK x, y : x = path[i] /\ y = path[i + 1]
    OBVIOUS
  <1>4. EffectBelow(path, action, i + 1) = x.grant.effect_cap /\ ScopeBelow(path, action, i + 1) = x.grant.scope
    BY <1>1, <1>3 DEF EffectBelow, ScopeBelow
  <1>5. Authorizes(y.grant.effect_cap, x.grant.effect_cap) /\ ScopeContained(x.grant.scope, y.grant.scope)
    BY <1>2, <1>3, <1>4, Zenon DEF InForce
  <1>6. x.grant.max_depth < y.grant.max_depth
    BY <1>3 DEF WalkedPath
  <1>7. Under(x, y)
    BY <1>5, <1>6, Zenon DEF Under, Authorizes, ScopeContained
  <1> QED BY <1>3, <1>7

LEMMA WalkedNested ==
  ASSUME GrantInv, NEW n \in Nat, n > 0, NEW path \in [1..n -> grants], NEW action \in Actions, NEW causes,
         WalkedPath(n, path, action, causes)
  PROVE  NestedPath(n, path, action, causes)
  <1>1. \A i \in 1..n : TypedGrant(path[i])
    BY DEF GrantInv
  <1>2. \A i \in 1..(n - 1) : Under(path[i], path[i + 1])
    BY WalkedUnder
  <1> DEFINE G == {k \in 0..n : \A i \in 1..k : \A j \in 1..(i - 1) : Under(path[j], path[i])}
  <1>3. 0 \in G
    OBVIOUS
  <1>4. ASSUME NEW k \in 0..n, k < n, k \in G PROVE k + 1 \in G
    <2>1. ASSUME NEW i \in 1..(k + 1), NEW j \in 1..(i - 1) PROVE Under(path[j], path[i])
      <3>1. CASE i <= k
        BY <1>4, <3>1
      <3>2. CASE i = k + 1 /\ j = k
        <4>1. k \in 1..(n - 1)
          BY <1>4, <3>2
        <4> QED BY <1>2, <3>2, <4>1
      <3>3. CASE i = k + 1 /\ j < k
        <4>1. k \in 1..(n - 1) /\ k \in 1..k /\ j \in 1..(k - 1) /\ j \in 1..n /\ k + 1 \in 1..n /\ k \in 1..n
          BY <1>4, <3>3
        <4>2. Under(path[j], path[k]) /\ Under(path[k], path[k + 1])
          BY <1>2, <1>4, <4>1
        <4>3. PICK x, y, z : x = path[j] /\ y = path[k] /\ z = path[k + 1]
          OBVIOUS
        <4>4. TypedGrant(x) /\ TypedGrant(y) /\ TypedGrant(z)
          BY <1>1, <4>1, <4>3
        <4>5. Under(x, z)
          BY <4>2, <4>3, <4>4, UnderChain
        <4> QED BY <3>3, <4>3, <4>5
      <3> QED BY <1>4, <3>1, <3>2, <3>3
    <2>2. k + 1 \in 0..n
      BY <1>4
    <2> QED BY <2>1, <2>2
  <1>5. n \in G
    <2> HIDE DEF G
    <2>1. \A k \in 0..n : k \in G
      BY <1>3, <1>4, AllUpTo
    <2> QED BY <2>1
  <1>6. \A i \in 1..n : \A j \in 1..(i - 1) : Under(path[j], path[i])
    BY <1>5
  <1>7. Covers(path[1], action)
    <2>1. 1 \in 1..n
      OBVIOUS
    <2>2. InForce(path[1], EffectBelow(path, action, 1), ScopeBelow(path, action, 1), 1 - 1)
      BY <2>1 DEF WalkedPath
    <2>3. EffectBelow(path, action, 1) = action.effect /\ ScopeBelow(path, action, 1) = action.scope
      BY DEF EffectBelow, ScopeBelow
    <2> QED BY <2>2, <2>3, Zenon DEF InForce, Authorizes, ScopeContained, Covers
  <1>8. ASSUME NEW i \in 1..n PROVE Covers(path[i], action)
    <2>1. CASE i = 1
      BY <1>7, <2>1
    <2>2. CASE i # 1
      <3>1. 1 \in 1..(i - 1) /\ 1 \in 1..n
        BY <2>2
      <3>2. Under(path[1], path[i])
        BY <1>6, <3>1
      <3>3. PICK x, y : x = path[1] /\ y = path[i]
        OBVIOUS
      <3>4. TypedGrant(x) /\ TypedGrant(y)
        BY <1>1, <3>1, <3>3
      <3>5. Covers(y, action)
        BY <1>7, <3>2, <3>3, <3>4, CoversAbove
      <3> QED BY <3>3, <3>5
    <2> QED BY <2>1, <2>2
  <1>9. \A i \in 1..n : /\ ~(today < path[i].grant.not_before) /\ ~(today > path[i].grant.not_after)
                        /\ ~RevokedAt(path[i]) /\ ~(i - 1 > path[i].grant.max_depth)
    BY Zenon DEF WalkedPath, InForce
  <1>10. \A i \in 1..(n - 1) : Parents(path[i]) = {path[i + 1]}
    BY Zenon DEF WalkedPath
  <1> QED BY <1>6, <1>8, <1>9, <1>10, Zenon DEF WalkedPath, NestedPath

LEMMA NestedWalked ==
  ASSUME GrantInv, NEW n \in Nat, n > 0, NEW path \in [1..n -> grants], NEW action \in Actions, NEW causes,
         NestedPath(n, path, action, causes)
  PROVE  WalkedPath(n, path, action, causes)
  <1>1. \A i \in 1..n : TypedGrant(path[i])
    BY DEF GrantInv
  <1>2. ASSUME NEW i \in 1..(n - 1) PROVE path[i].grant.max_depth < path[i + 1].grant.max_depth
    <2>1. i + 1 \in 1..n /\ i \in 1..(i + 1 - 1)
      OBVIOUS
    <2>2. Under(path[i], path[i + 1])
      BY <2>1 DEF NestedPath
    <2> QED BY <2>2 DEF Under
  <1>3. ASSUME NEW i \in 1..n
        PROVE  InForce(path[i], EffectBelow(path, action, i), ScopeBelow(path, action, i), i - 1)
    <2>1. /\ ~(today < path[i].grant.not_before) /\ ~(today > path[i].grant.not_after)
          /\ ~RevokedAt(path[i]) /\ ~(i - 1 > path[i].grant.max_depth)
          /\ Covers(path[i], action) /\ \A j \in 1..(i - 1) : Under(path[j], path[i])
      BY DEF NestedPath
    <2>2. PICK y : y = path[i]
      OBVIOUS
    <2>3. Authorizes(y.grant.effect_cap, EffectBelow(path, action, i)) /\ ScopeContained(ScopeBelow(path, action, i), y.grant.scope)
      <3>1. CASE i = 1
        <4>1. EffectBelow(path, action, i) = action.effect /\ ScopeBelow(path, action, i) = action.scope
          BY <3>1 DEF EffectBelow, ScopeBelow
        <4>2. PICK q, r, S : q = y.grant.scope /\ r = action.scope /\ S = Segments
          OBVIOUS
        <4>3. q \in Seq(S) /\ r \in Seq(S)
          BY <1>1, <2>2, <4>2, DelegationConstants DEF TypedGrant
        <4>4. q = << >> \/ IsPrefix(q, r)
          BY <2>1, <2>2, <4>2, Zenon DEF Covers
        <4>5. q # << >> => r # << >>
          BY <4>3, <4>4, PrefixOfNone
        <4>6. ScopeContained(r, q)
          BY <4>4, <4>5 DEF ScopeContained
        <4> QED BY <2>1, <2>2, <4>1, <4>2, <4>6, Zenon DEF Covers, Authorizes
      <3>2. CASE i # 1
        <4>1. i - 1 \in 1..(i - 1)
          BY <3>2
        <4>2. Under(path[i - 1], y)
          BY <2>1, <2>2, <4>1
        <4>3. PICK x : x = path[i - 1]
          OBVIOUS
        <4>4. EffectBelow(path, action, i) = x.grant.effect_cap /\ ScopeBelow(path, action, i) = x.grant.scope
          BY <3>2, <4>3 DEF EffectBelow, ScopeBelow
        <4> QED BY <4>2, <4>3, <4>4, Zenon DEF Under, Authorizes, ScopeContained
      <3> QED BY <3>1, <3>2
    <2> QED BY <2>1, <2>2, <2>3, Zenon DEF InForce
  <1>4. \A i \in 1..(n - 1) : Parents(path[i]) = {path[i + 1]}
    BY Zenon DEF NestedPath
  <1> QED BY <1>2, <1>3, <1>4, Zenon DEF WalkedPath, NestedPath

\* A walked path never comes back to a grant, so it is no longer than there are grants.
LEMMA WalkedOnce ==
  ASSUME GrantInv, NEW n \in Nat, n > 0, NEW path \in [1..n -> grants], NEW action \in Actions, NEW causes,
         NestedPath(n, path, action, causes)
  PROVE  /\ \A i, j \in 1..n : path[i] = path[j] => i = j
         /\ n <= Cardinality(grants)
  <1>1. \A i \in 1..n : path[i].grant.max_depth \in Nat
    BY DEF GrantInv, TypedGrant
  <1>2. \A i \in 1..n : \A j \in 1..(i - 1) : path[j].grant.max_depth < path[i].grant.max_depth
    BY DEF NestedPath, Under
  <1>3. ASSUME NEW i \in 1..n, NEW j \in 1..n, path[i] = path[j] PROVE i = j
    <2>1. ASSUME j < i PROVE FALSE
      <3>1. j \in 1..(i - 1)
        BY <2>1
      <3>2. path[j].grant.max_depth < path[i].grant.max_depth
        BY <1>2, <3>1
      <3> QED BY <1>1, <1>3, <3>2
    <2>2. ASSUME i < j PROVE FALSE
      <3>1. i \in 1..(j - 1)
        BY <2>2
      <3>2. path[i].grant.max_depth < path[j].grant.max_depth
        BY <1>2, <3>1
      <3> QED BY <1>1, <1>3, <3>2
    <2> QED BY <2>1, <2>2
  <1>4. path \in Injection(1..n, grants)
    BY <1>3 DEF Injection, IsInjective
  <1>5. Cardinality(1..n) <= Cardinality(grants)
    BY <1>4, FS_Injection, Zenon DEF GrantInv
  <1>6. Cardinality(1..n) = n
    BY FS_Interval
  <1> QED BY <1>3, <1>5, <1>6

LEMMA ParentsAre ==
  ASSUME GrantInv, NEW g PROVE IsFiniteSet(Parents(g)) /\ Parents(g) \subseteq grants
  <1>1. Parents(g) \in SUBSET grants
    BY DEF Parents, MatchingCauses
  <1> QED BY <1>1, FS_Subset DEF GrantInv

\* The walk along a walked path ends well.
LEMMA PathIsWalked ==
  ASSUME GrantInv, NEW n \in Nat, n > 0, NEW path \in [1..n -> grants], NEW action \in Actions, NEW causes,
         WalkedPath(n, path, action, causes), NEW N \in Nat, n <= N,
         NEW w, w[0] = Before(path[1], action.effect, action.scope, 0, {}), \A i \in 1..N : w[i] = Hop(w[i - 1])
  PROVE  w[N].verdict = "ok"
  <1>1. NestedPath(n, path, action, causes)
    BY WalkedNested
  <1>2. \A i, j \in 1..n : path[i] = path[j] => i = j
    BY <1>1, WalkedOnce
  <1> DEFINE Seen(k) == {path[i] : i \in 1..k}
             At(k) == Before(path[k + 1], EffectBelow(path, action, k + 1), ScopeBelow(path, action, k + 1), k, Seen(k))
             G == {k \in 0..(n - 1) : w[k] = At(k)}
  <1>3. \A k \in 0..(n - 1) : path[k + 1] \notin Seen(k)
    BY <1>2
  <1>4. 0 \in G
    <2>1. Seen(0) = {}
      OBVIOUS
    <2>2. EffectBelow(path, action, 0 + 1) = action.effect /\ ScopeBelow(path, action, 0 + 1) = action.scope /\ 0 + 1 = 1
      BY DEF EffectBelow, ScopeBelow
    <2>3. At(0) = w[0]
      BY <2>1, <2>2
    <2> QED BY <2>3
  <1>5. ASSUME NEW k \in 0..(n - 1), w[k] = At(k)
        PROVE  \E g, e, s, v : /\ g = path[k + 1] /\ w[k] = Before(g, e, s, k, v) /\ g \notin v
                               /\ InForce(g, e, s, k) /\ IsFiniteSet(Parents(g)) /\ v = Seen(k)
    <2>1. PICK g, e, s, v : g = path[k + 1] /\ e = EffectBelow(path, action, k + 1) /\ s = ScopeBelow(path, action, k + 1) /\ v = Seen(k)
      OBVIOUS
    <2>2. w[k] = Before(g, e, s, k, v)
      BY <1>5, <2>1, Zenon
    <2>3. k + 1 \in 1..n /\ k + 1 - 1 = k
      OBVIOUS
    <2>4. InForce(g, e, s, k)
      BY <2>1, <2>3 DEF WalkedPath
    <2>5. g \notin v
      BY <1>3, <2>1
    <2>6. IsFiniteSet(Parents(g))
      BY ParentsAre
    <2> QED BY <2>1, <2>2, <2>4, <2>5, <2>6, Zenon
  <1>6. ASSUME NEW k \in 0..(n - 1), k < n - 1, k \in G PROVE k + 1 \in G
    <2>1. w[k] = At(k)
      BY <1>6
    <2>2. PICK g, e, s, v : /\ g = path[k + 1] /\ w[k] = Before(g, e, s, k, v) /\ g \notin v
                            /\ InForce(g, e, s, k) /\ IsFiniteSet(Parents(g)) /\ v = Seen(k)
      BY <1>5, <2>1, Zenon
    <2>3. PICK q : q = path[k + 1 + 1]
      OBVIOUS
    <2>4. PICK h : h = Hop(Before(g, e, s, k, v))
      OBVIOUS
    <2>5. k + 1 \in 1..N /\ k + 1 - 1 = k /\ k + 1 \in 1..(n - 1) /\ k + 1 \in 1..n /\ k + 1 + 1 \in 1..n
      BY <1>6
    <2>6. w[k + 1] = h
      BY <2>2, <2>4, <2>5
    <2>7. Parents(g) = {q} /\ g.grant.max_depth < q.grant.max_depth
      BY <2>2, <2>3, <2>5 DEF WalkedPath
    <2>8. g.grant.max_depth \in Nat /\ q.grant.max_depth \in Nat
      BY <2>2, <2>3, <2>5 DEF GrantInv, TypedGrant
    <2>9. q.grant.max_depth # 0 /\ ~(g.grant.max_depth >= q.grant.max_depth)
      BY <2>7, <2>8
    <2>10. h = Before(q, g.grant.effect_cap, g.grant.scope, k + 1, v \cup {g})
      <3>1. HopSays(g, e, s, k, v, h)
        BY <2>2, <2>4, HopIs
      <3> QED BY <2>2, <2>7, <2>9, <3>1, Zenon DEF HopSays
    <2>11. v \cup {g} = Seen(k + 1)
      BY <2>2
    <2>12. EffectBelow(path, action, k + 1 + 1) = g.grant.effect_cap /\ ScopeBelow(path, action, k + 1 + 1) = g.grant.scope
      BY <2>2, <2>5 DEF EffectBelow, ScopeBelow
    <2>13. w[k + 1] = At(k + 1)
      BY <2>3, <2>6, <2>10, <2>11, <2>12, Zenon
    <2>14. k + 1 \in 0..(n - 1)
      BY <1>6
    <2> HIDE DEF At
    <2> QED BY <2>13, <2>14
  <1>7. PICK m \in Nat : m = n - 1
    OBVIOUS
  <1>8. w[n - 1] = At(n - 1)
    <2> HIDE DEF At
    <2>1. \A k \in 0..m : k < m /\ k \in G => k + 1 \in G
      BY <1>6, <1>7
    <2> HIDE DEF G
    <2>2. \A k \in 0..m : k \in G
      BY <1>4, <2>1, AllUpTo
    <2>3. m \in G
      BY <2>2
    <2> QED BY <1>7, <2>3 DEF G
  <1>9. n - 1 \in 0..(n - 1) /\ n - 1 + 1 = n /\ n \in 1..N
    OBVIOUS
  <1>10. PICK g, e, s, v : /\ g = path[n - 1 + 1] /\ w[n - 1] = Before(g, e, s, n - 1, v) /\ g \notin v
                           /\ InForce(g, e, s, n - 1) /\ IsFiniteSet(Parents(g)) /\ v = Seen(n - 1)
    BY <1>5, <1>8, <1>9, Zenon
  <1>11. PICK h : h = Hop(Before(g, e, s, n - 1, v))
    OBVIOUS
  <1>12. w[n] = h
    BY <1>9, <1>10, <1>11
  <1>13. Parents(g) = {} /\ g.issuer \in Anchors
    BY <1>9, <1>10 DEF WalkedPath
  <1>14. h.verdict = "ok"
    <2>1. PICK p : p = n - 1
      OBVIOUS
    <2>2. HopSays(g, e, s, p, v, h)
      BY <1>10, <1>11, <2>1, HopIs
    <2> QED BY <1>10, <1>13, <2>1, <2>2, Zenon DEF HopSays
  <1>15. w[N] = w[n]
    <2>1. n \in 0..N /\ w[n].verdict # "walking"
      BY <1>12, <1>14
    <2> QED BY <2>1, WalkStays
  <1> QED BY <1>12, <1>14, <1>15

\* A walk that ends well went along a walked path.
LEMMA WalkIsPath ==
  ASSUME GrantInv, NEW action \in Actions, NEW causes, NEW leaf \in grants,
         MatchingCauses(causes, action.signer) = {leaf}, NEW N \in Nat,
         NEW w, w[0] = Before(leaf, action.effect, action.scope, 0, {}), \A i \in 1..N : w[i] = Hop(w[i - 1]),
         w[N].verdict = "ok"
  PROVE  \E n \in Nat \ {0} : \E path \in [1..n -> grants] : WalkedPath(n, path, action, causes)
  <1> DEFINE T == {k \in 0..N : w[k].verdict # "walking"}
  <1>1. N \in T /\ T \in SUBSET Nat
    OBVIOUS
  <1>2. PICK n \in T : \A y \in T : n <= y
    <2> HIDE DEF T
    <2> QED BY <1>1, LeastOf
  <1>3. n \in 1..N
    <2>1. w[0].verdict = "walking"
      BY DEF Before
    <2> QED BY <2>1
  <1>4. w[n].verdict = "ok"
    <2>1. n \in 0..N /\ w[n].verdict # "walking"
      OBVIOUS
    <2>2. w[N] = w[n]
      BY <2>1, WalkStays
    <2> QED BY <2>2
  <1>5. \A k \in 0..(n - 1) : w[k].verdict = "walking" /\ k \in 0..N
    BY <1>2, <1>3
  <1> HIDE DEF T
  <1>6. PICK m \in Nat : m = n - 1
    BY <1>3
  <1>7. n \in Nat \ {0} /\ n = m + 1 /\ m + 1 - 1 = m
    BY <1>3, <1>6
  <1> DEFINE path == [i \in 1..n |-> w[i - 1].g]
             At(k, v) == Before(w[k].g, EffectBelow(path, action, k + 1), ScopeBelow(path, action, k + 1), k, v)
             G == {k \in 0..m : w[k].g \in grants /\ \E v : w[k] = At(k, v)}
  <1>8. \A k \in 0..m : path[k + 1] = w[k].g
    BY <1>7
  <1>9. ASSUME NEW k \in 0..m, k < m PROVE path[k + 1 + 1 - 1] = w[k].g /\ k + 1 + 1 # 1
    BY <1>7, <1>9
  <1>10. 0 \in G
    <2>1. EffectBelow(path, action, 0 + 1) = action.effect /\ ScopeBelow(path, action, 0 + 1) = action.scope
      BY DEF EffectBelow, ScopeBelow
    <2>2. w[0].g = leaf
      BY DEF Before
    <2> HIDE DEF path
    <2>3. w[0] = At(0, {})
      BY <2>1, <2>2
    <2>4. w[0].g \in grants
      BY <2>2
    <2>5. 0 \in 0..m
      OBVIOUS
    <2> QED BY <2>3, <2>4, <2>5, Zenon
  <1> HIDE DEF path
  <1>11. ASSUME NEW k \in 0..m, k \in G
         PROVE  \E g, e, s, v : /\ g = w[k].g /\ e = EffectBelow(path, action, k + 1) /\ s = ScopeBelow(path, action, k + 1)
                                /\ w[k] = Before(g, e, s, k, v) /\ IsFiniteSet(Parents(g)) /\ w[k + 1] = Hop(Before(g, e, s, k, v))
    <2>1. PICK v : w[k] = At(k, v)
      BY <1>11
    <2>2. PICK g, e, s : g = w[k].g /\ e = EffectBelow(path, action, k + 1) /\ s = ScopeBelow(path, action, k + 1)
      OBVIOUS
    <2>3. w[k] = Before(g, e, s, k, v)
      BY <2>1, <2>2, Zenon
    <2>4. k + 1 \in 1..N /\ k + 1 - 1 = k
      BY <1>3, <1>6
    <2>5. w[k + 1] = Hop(w[k])
      BY <2>4
    <2>6. IsFiniteSet(Parents(g))
      BY ParentsAre
    <2> QED BY <2>2, <2>3, <2>5, <2>6, Zenon
  <1>12. ASSUME NEW k \in 0..m, k < m, k \in G
         PROVE  /\ InForce(w[k].g, EffectBelow(path, action, k + 1), ScopeBelow(path, action, k + 1), k)
                /\ Parents(w[k].g) = {w[k + 1].g} /\ w[k].g.grant.max_depth < w[k + 1].g.grant.max_depth
                /\ k + 1 \in G
    <2>1. PICK g, e, s, v : /\ g = w[k].g /\ e = EffectBelow(path, action, k + 1) /\ s = ScopeBelow(path, action, k + 1)
                            /\ w[k] = Before(g, e, s, k, v) /\ IsFiniteSet(Parents(g)) /\ w[k + 1] = Hop(Before(g, e, s, k, v))
      BY <1>11, <1>12, Zenon
    <2>2. PICK h : h = Hop(Before(g, e, s, k, v))
      OBVIOUS
    <2>3. h.verdict = "walking"
      <3>1. k + 1 \in 0..(n - 1)
        BY <1>6, <1>12
      <3> QED BY <1>5, <2>1, <2>2, <3>1
    <2>4. /\ g \notin v /\ InForce(g, e, s, k)
          /\ \E q : /\ Parents(g) = {q} /\ q.grant.max_depth # 0 /\ ~(g.grant.max_depth >= q.grant.max_depth)
                    /\ h = Before(q, g.grant.effect_cap, g.grant.scope, k + 1, v \cup {g})
      <3>1. HopSays(g, e, s, k, v, h)
        BY <2>1, <2>2, HopIs
      <3> QED BY <2>3, <3>1, Zenon DEF HopSays
    <2>5. PICK q : /\ Parents(g) = {q} /\ q.grant.max_depth # 0 /\ ~(g.grant.max_depth >= q.grant.max_depth)
                   /\ h = Before(q, g.grant.effect_cap, g.grant.scope, k + 1, v \cup {g})
      BY <2>4
    <2>6. h.g = q
      BY <2>5 DEF Before
    <2>7. q \in grants /\ g \in grants
      <3>1. Parents(g) \subseteq grants
        BY ParentsAre
      <3> QED BY <1>12, <2>1, <2>5, <3>1
    <2>8. q.grant.max_depth \in Nat /\ g.grant.max_depth \in Nat
      BY <2>7 DEF GrantInv, TypedGrant
    <2>9. g.grant.max_depth < q.grant.max_depth
      BY <2>5, <2>8
    <2>10. EffectBelow(path, action, k + 1 + 1) = g.grant.effect_cap /\ ScopeBelow(path, action, k + 1 + 1) = g.grant.scope
      <3>1. path[k + 1 + 1 - 1] = g /\ k + 1 + 1 # 1
        BY <1>9, <1>12, <2>1
      <3>2. PICK i : i = k + 1 + 1
        OBVIOUS
      <3>3. path[i - 1] = g /\ i # 1
        BY <3>1, <3>2
      <3>4. EffectBelow(path, action, i) = g.grant.effect_cap /\ ScopeBelow(path, action, i) = g.grant.scope
        BY <3>3, Zenon DEF EffectBelow, ScopeBelow
      <3> QED BY <3>2, <3>4
    <2>11. w[k + 1] = h
      BY <2>1, <2>2
    <2>12. w[k + 1] = At(k + 1, v \cup {g})
      BY <2>5, <2>6, <2>10, <2>11, Zenon
    <2>13. k + 1 \in 0..m
      BY <1>12
    <2>14. k + 1 \in G
      <3> HIDE DEF At
      <3> QED BY <2>6, <2>7, <2>11, <2>12, <2>13
    <2> HIDE DEF G, At
    <2> QED BY <2>1, <2>4, <2>5, <2>6, <2>9, <2>11, <2>14, Zenon
  <1>13. \A k \in 0..m : k \in G
    <2> HIDE DEF G
    <2> QED BY <1>10, <1>12, AllUpTo
  <1>14. /\ InForce(w[m].g, EffectBelow(path, action, m + 1), ScopeBelow(path, action, m + 1), m)
         /\ Parents(w[m].g) = {} /\ w[m].g.issuer \in Anchors
    <2>1. m \in 0..m
      OBVIOUS
    <2>2. PICK g, e, s, v : /\ g = w[m].g /\ e = EffectBelow(path, action, m + 1) /\ s = ScopeBelow(path, action, m + 1)
                            /\ w[m] = Before(g, e, s, m, v) /\ IsFiniteSet(Parents(g)) /\ w[m + 1] = Hop(Before(g, e, s, m, v))
      BY <1>11, <1>13, <2>1, Zenon
    <2>3. PICK h : h = Hop(Before(g, e, s, m, v))
      OBVIOUS
    <2>4. h.verdict = "ok"
      BY <1>4, <1>7, <2>2, <2>3
    <2>5. InForce(g, e, s, m) /\ Parents(g) = {} /\ g.issuer \in Anchors
      <3>1. HopSays(g, e, s, m, v, h)
        BY <2>2, <2>3, HopIs
      <3> QED BY <2>4, <3>1, Zenon DEF HopSays
    <2> QED BY <2>2, <2>5, Zenon
  <1>15. path \in [1..n -> grants]
    <2>1. \A k \in 0..m : w[k].g \in grants
      BY <1>13
    <2>2. \A i \in 1..n : i - 1 \in 0..m
      BY <1>7
    <2>3. \A i \in 1..n : w[i - 1].g \in grants
      BY <2>1, <2>2
    <2> QED BY <2>3 DEF path
  <1>16. path[1] = leaf
    <2>1. w[0].g = leaf
      BY DEF Before
    <2>2. 0 \in 0..m /\ 0 + 1 = 1
      OBVIOUS
    <2> QED BY <1>8, <2>1, <2>2
  <1>17. ASSUME NEW i \in 1..(n - 1)
         PROVE  Parents(path[i]) = {path[i + 1]} /\ path[i].grant.max_depth < path[i + 1].grant.max_depth
    <2>1. i - 1 \in 0..m /\ i - 1 < m /\ i - 1 + 1 = i /\ i \in 0..m
      BY <1>6
    <2>2. PICK k \in 0..m : k = i - 1
      BY <2>1
    <2>3. path[i] = w[k].g /\ path[i + 1] = w[k + 1].g
      BY <1>8, <2>1, <2>2
    <2> QED BY <1>12, <1>13, <2>1, <2>2, <2>3
  <1>18. ASSUME NEW i \in 1..n
         PROVE  InForce(path[i], EffectBelow(path, action, i), ScopeBelow(path, action, i), i - 1)
    <2>1. PICK k \in 0..m : k = i - 1 /\ k + 1 = i
      BY <1>7
    <2>2. path[i] = w[k].g
      BY <1>8, <2>1
    <2>3. CASE k < m
      BY <1>12, <1>13, <2>1, <2>2, <2>3
    <2>4. CASE k = m
      BY <1>14, <2>1, <2>2, <2>4
    <2> QED BY <2>3, <2>4
  <1>19. Parents(path[n]) = {} /\ path[n].issuer \in Anchors
    <2>1. path[n] = w[m].g
      BY <1>7, <1>8
    <2> QED BY <1>14, <2>1
  <1>20. WalkedPath(n, path, action, causes)
    BY <1>16, <1>17, <1>18, <1>19, Zenon DEF WalkedPath
  <1> QED BY <1>7, <1>15, <1>20

\* The chain verifies if and only if a nested path leads from the action to an anchor.
LEMMA ChainVerified ==
  ASSUME GrantInv, NEW action \in Actions, NEW causes
  PROVE  VerifyChain(action, causes) = "ok" <=>
           \E n \in 1..MaxGrants : \E path \in [1..n -> grants] : NestedPath(n, path, action, causes)
  <1> DEFINE leaves == MatchingCauses(causes, action.signer)
             leaf == CHOOSE x \in leaves : TRUE
             start == Before(leaf, action.effect, action.scope, 0, {})
             N == Cardinality(grants) + 1
  <1>1. IsFiniteSet(leaves) /\ leaves \subseteq grants
    <2>1. leaves \in SUBSET grants
      BY DEF MatchingCauses
    <2> QED BY <2>1, FS_Subset DEF GrantInv
  <1>2. VerifyChain(action, causes) =
          IF leaves = {} THEN "EffectNotAuthorized" ELSE IF Cardinality(leaves) > 1 THEN "ChainBroken"
          ELSE Walk(start, N).verdict
    BY Zenon DEF VerifyChain, Before
  <1>3. N \in Nat /\ Cardinality(grants) \in Nat /\ MaxGrants \in Nat /\ Cardinality(grants) <= MaxGrants
    BY FS_CardinalityType, DelegationConstants DEF GrantInv
  <1> HIDE DEF start, N
  <1>4. PICK w : w[N] = Walk(start, N) /\ w[0] = start /\ \A i \in 1..N : w[i] = Hop(w[i - 1])
    BY <1>3, WalkSteps
  <1>5. PICK ls, lf : ls = leaves /\ lf = leaf
    OBVIOUS
  <1>6. w[0] = Before(lf, action.effect, action.scope, 0, {})
    BY <1>4, <1>5 DEF start
  <1>7. \A x : ls = {x} => x = lf
    BY <1>5, Zenon
  <1>8. (ls # {} /\ ~(Cardinality(ls) > 1)) <=> ls = {lf}
    <2>1. IsFiniteSet(ls)
      BY <1>1, <1>5
    <2>2. PICK n \in Nat : n = Cardinality(ls)
      BY <2>1, FS_CardinalityType
    <2>3. (n = 0 <=> ls = {}) /\ (n = 1 <=> \E x : ls = {x})
      BY <2>1, <2>2, FS_EmptySet, FS_Singleton, Zenon
    <2>4. n = 1 <=> ls = {lf}
      BY <1>7, <2>3, Zenon
    <2> QED BY <2>2, <2>3, <2>4
  <1>9. ls = MatchingCauses(causes, action.signer) /\ ls \subseteq grants
    BY <1>1, <1>5
  <1>10. VerifyChain(action, causes) = "ok" <=> ls = {lf} /\ w[N].verdict = "ok"
    <2>1. VerifyChain(action, causes) =
            IF ls = {} THEN "EffectNotAuthorized" ELSE IF Cardinality(ls) > 1 THEN "ChainBroken" ELSE w[N].verdict
      BY <1>2, <1>4, <1>5
    <2> QED BY <1>8, <2>1
  <1> HIDE DEF leaves, leaf
  <1>11. ASSUME ls = {lf}, w[N].verdict = "ok"
         PROVE  \E n \in 1..MaxGrants : \E path \in [1..n -> grants] : NestedPath(n, path, action, causes)
    <2>1. lf \in grants /\ MatchingCauses(causes, action.signer) = {lf}
      BY <1>9, <1>11
    <2>2. PICK n \in Nat \ {0} : \E path \in [1..n -> grants] : WalkedPath(n, path, action, causes)
      BY <1>3, <1>4, <1>6, <1>11, <2>1, WalkIsPath
    <2>3. PICK path \in [1..n -> grants] : WalkedPath(n, path, action, causes)
      BY <2>2
    <2>4. NestedPath(n, path, action, causes)
      BY <2>3, WalkedNested
    <2>5. n <= Cardinality(grants)
      BY <2>4, WalkedOnce
    <2>6. n \in 1..MaxGrants
      BY <1>3, <2>5
    <2> QED BY <2>4, <2>6
  <1>12. ASSUME NEW n \in 1..MaxGrants, NEW path \in [1..n -> grants], NestedPath(n, path, action, causes)
         PROVE  ls = {lf} /\ w[N].verdict = "ok"
    <2>1. n \in Nat /\ n > 0
      BY <1>3
    <2>2. WalkedPath(n, path, action, causes) /\ n <= Cardinality(grants)
      BY <1>12, <2>1, NestedWalked, WalkedOnce
    <2>3. ls = {path[1]}
      BY <1>9, <1>12 DEF NestedPath
    <2>4. lf = path[1]
      BY <1>7, <2>3
    <2>5. n <= N
      BY <1>3, <2>2 DEF N
    <2>6. w[0] = Before(path[1], action.effect, action.scope, 0, {})
      BY <1>6, <2>4
    <2>7. w[N].verdict = "ok"
      BY <1>3, <1>4, <2>1, <2>2, <2>5, <2>6, PathIsWalked
    <2> QED BY <2>3, <2>4, <2>7
  <1> QED BY <1>10, <1>11, <1>12, Zenon

LEMMA GrantsNest == ASSUME GrantInv PROVE AuthorityNeverGrows
  <1> DEFINE Asked(action, causes, path) == LET n == Len(path)  g(i) == path[i].grant IN
        /\ {x \in causes : x.grant.subject = action.signer} = {path[1]}
        /\ \A i \in 1..(n - 1) : {x \in path[i].causes \cap grants : x.grant.subject = path[i].issuer} = {path[i + 1]}
        /\ {x \in path[n].causes \cap grants : x.grant.subject = path[n].issuer} = {} /\ path[n].issuer \in Anchors
        /\ \A i \in 1..n :
             /\ today \in g(i).not_before..g(i).not_after /\ (path[i] \in DOMAIN revoked => revoked[path[i]] > today)
             /\ action.effect <= g(i).effect_cap /\ (g(i).scope = << >> \/ IsPrefix(g(i).scope, action.scope))
             /\ i - 1 <= g(i).max_depth
             /\ \A j \in 1..(i - 1) : /\ g(j).effect_cap <= g(i).effect_cap /\ g(j).max_depth < g(i).max_depth
                                      /\ g(i).scope # << >> => g(j).scope # << >> /\ IsPrefix(g(i).scope, g(j).scope)
  <1>1. ASSUME NEW action \in Actions, NEW causes \in {grants} \cup {{g} : g \in grants},
               NEW n \in 1..MaxGrants, NEW path \in [1..n -> grants]
        PROVE  Asked(action, causes, path) <=> NestedPath(n, path, action, causes)
    <2>0. n \in Nat /\ MaxGrants \in Nat
      BY DelegationConstants
    <2>1. Len(path) = n
      BY <2>0
    <2>2. {x \in causes : x.grant.subject = action.signer} = MatchingCauses(causes, action.signer)
      <3>1. causes \subseteq grants
        OBVIOUS
      <3> QED BY <3>1 DEF MatchingCauses
    <2>3. \A g : {x \in g.causes \cap grants : x.grant.subject = g.issuer} = Parents(g)
      BY DEF Parents, MatchingCauses
    <2>4. ASSUME NEW i \in 1..n
          PROVE  /\ today \in path[i].grant.not_before..path[i].grant.not_after <=>
                      ~(today < path[i].grant.not_before) /\ ~(today > path[i].grant.not_after)
                 /\ (path[i] \in DOMAIN revoked => revoked[path[i]] > today) <=> ~RevokedAt(path[i])
                 /\ i - 1 <= path[i].grant.max_depth <=> ~(i - 1 > path[i].grant.max_depth)
      <3>1. PICK y : y = path[i]
        OBVIOUS
      <3>2. TypedGrant(y)
        BY <3>1 DEF GrantInv
      <3>3. y.grant.not_before \in Nat /\ y.grant.not_after \in Nat /\ y.grant.max_depth \in Nat /\ today \in Nat
        BY <3>2 DEF TypedGrant, GrantInv
      <3>4. today \in y.grant.not_before..y.grant.not_after <=> ~(today < y.grant.not_before) /\ ~(today > y.grant.not_after)
        BY <3>3
      <3>5. (y \in DOMAIN revoked => revoked[y] > today) <=> ~RevokedAt(y)
        <4>1. y \in DOMAIN revoked => revoked[y] \in Nat
          BY DEF GrantInv
        <4> QED BY <3>3, <4>1 DEF RevokedAt
      <3>6. i - 1 <= y.grant.max_depth <=> ~(i - 1 > y.grant.max_depth)
        BY <2>0, <3>3
      <3> QED BY <3>1, <3>4, <3>5, <3>6
    <2>5. Asked(action, causes, path) <=>
            /\ MatchingCauses(causes, action.signer) = {path[1]}
            /\ \A i \in 1..(n - 1) : Parents(path[i]) = {path[i + 1]}
            /\ Parents(path[n]) = {} /\ path[n].issuer \in Anchors
            /\ \A i \in 1..n :
                 /\ today \in path[i].grant.not_before..path[i].grant.not_after
                 /\ (path[i] \in DOMAIN revoked => revoked[path[i]] > today)
                 /\ Covers(path[i], action) /\ i - 1 <= path[i].grant.max_depth
                 /\ \A j \in 1..(i - 1) : Under(path[j], path[i])
      BY <2>1, <2>2, <2>3, Zenon DEF Covers, Under
    <2> HIDE DEF Asked
    <2> QED BY <2>4, <2>5, Zenon DEF NestedPath
  <1>2. ASSUME NEW action \in Actions, NEW causes \in {grants} \cup {{g} : g \in grants}
        PROVE  (\E path \in Paths : Asked(action, causes, path)) <=>
                 \E n \in 1..MaxGrants : \E path \in [1..n -> grants] : NestedPath(n, path, action, causes)
    <2>1. \A path : path \in Paths <=> \E n \in 1..MaxGrants : path \in [1..n -> grants]
      BY Zenon DEF Paths
    <2> HIDE DEF Asked
    <2>2. ASSUME NEW path \in Paths, Asked(action, causes, path)
          PROVE  \E n \in 1..MaxGrants : \E p \in [1..n -> grants] : NestedPath(n, p, action, causes)
      <3>1. PICK n \in 1..MaxGrants : path \in [1..n -> grants]
        BY <2>1
      <3>2. NestedPath(n, path, action, causes)
        BY <1>1, <2>2, <3>1
      <3> QED BY <3>1, <3>2
    <2>3. ASSUME NEW n \in 1..MaxGrants, NEW path \in [1..n -> grants], NestedPath(n, path, action, causes)
          PROVE  path \in Paths /\ Asked(action, causes, path)
      BY <1>1, <2>1, <2>3
    <2> QED BY <2>2, <2>3, Zenon
  <1>3. ASSUME NEW action \in Actions, NEW causes \in {grants} \cup {{g} : g \in grants}
        PROVE  VerifyChain(action, causes) = "ok" <=> \E path \in Paths : Asked(action, causes, path)
    <2> HIDE DEF Asked
    <2> QED BY <1>2, ChainVerified, Zenon
  <1> QED BY <1>3, Zenon DEF AuthorityNeverGrows

\* Authority never grows on the way down and reaches all the way, for grants of
\* any number, depth and scope: an action is authorised if and only if one
\* unambiguous path of grants in force, each inside the next, leads from it to a
\* trust anchor (verify_chain).
THEOREM DelegationExact == AuthSpec => []AuthorityNeverGrows
  BY GrantInitInv, GrantStepKeeps, GrantsNest, PTL DEF AuthSpec

------------------------------------------------------------------------------
(* Claims.  A machine only moves under an accepted claim, and an accepted    *)
(* claim is inside the grant: that is what the moves need to know.           *)

Measured(b) ==
  /\ b.envelope.spatial.axes \in Seq(Int \X Int) /\ b.envelope.speed \in Int
  /\ b.envelope.window.not_before \in Int /\ b.envelope.window.not_after \in Int

ClaimsInv ==
  /\ Measured(granted)
  /\ claimed = NoClaim => moved = {}
  /\ claimed # NoClaim => Measured(claimed) /\ HazardAuthorized(claimed, granted) = "ok"
  /\ ClaimsContained

LEMMA ClaimsInitInv == ASSUME ClaimsInit PROVE ClaimsInv
  <1>1. PICK v \in GrantWire : BodyFromValue(v).verdict = "ok" /\ granted = BodyFromValue(v)
    BY DEF ClaimsInit
  <1>2. Measured(granted)
    BY <1>1, ClaimsConstants DEF Measured
  <1>3. claimed = NoClaim /\ moved = {} /\ judged.kind = "none"
    BY DEF ClaimsInit
  <1>4. StaysInsideGrant /\ UnknownEffectIsWorst /\ AcceptedAsStated
    BY <1>3 DEF StaysInsideGrant, UnknownEffectIsWorst, AcceptedAsStated
  <1> QED BY <1>2, <1>3, <1>4 DEF ClaimsInv, ClaimsContained

LEMMA ClaimInv ==
  ASSUME ClaimsInv, NEW v \in ClaimWire, Claim(v) PROVE ClaimsInv'
  <1> DEFINE c == BodyFromValue(v)
  <1>1. /\ claimed = NoClaim /\ c.verdict = "ok" /\ HazardAuthorizedOptional(c, granted) = "ok"
        /\ claimed' = c /\ UNCHANGED <<granted, moved, judged>>
    BY DEF Claim
  <1>2. Measured(c)
    BY <1>1, ClaimsConstants DEF Measured
  <1> HIDE DEF c
  <1>3. c # NoClaim /\ HazardAuthorized(c, granted) = "ok"
    BY <1>1 DEF NoClaim, HazardAuthorizedOptional
  <1>4. ClaimsContained'
    BY <1>1 DEF ClaimsInv, ClaimsContained, StaysInsideGrant, UnknownEffectIsWorst, AcceptedAsStated
  <1>5. Measured(granted)' /\ Measured(claimed)'
    BY <1>1, <1>2 DEF ClaimsInv, Measured
  <1>6. HazardAuthorized(claimed, granted)' = "ok"
    BY <1>1, <1>3 DEF HazardAuthorized, EnvelopeContained, SpatialContained
  <1> QED BY <1>1, <1>3, <1>4, <1>5, <1>6 DEF ClaimsInv

LEMMA MoveInv ==
  ASSUME ClaimsInv, NEW n \in Nat, NEW at \in [1..n -> Coords], NEW speed \in Coords, NEW time \in Coords, Move(at, speed, time)
  PROVE  ClaimsInv'
  <1> DEFINE e == claimed.envelope
             g == granted.envelope
             m == [class |-> claimed.class, frame |-> e.spatial.frame, at |-> at, speed |-> speed, time |-> time]
  <1>1. /\ claimed # NoClaim /\ Len(at) = Len(e.spatial.axes)
        /\ \A i \in DOMAIN at : at[i] \in e.spatial.axes[i][1]..e.spatial.axes[i][2]
        /\ speed <= e.speed /\ time \in e.window.not_before..e.window.not_after
        /\ moved' = {m} /\ UNCHANGED <<granted, claimed, judged>>
    BY DEF Move
  <1>2. Measured(granted) /\ Measured(claimed) /\ HazardAuthorized(claimed, granted) = "ok"
    BY <1>1 DEF ClaimsInv
  <1>3. claimed.class = granted.class /\ EnvelopeContained(e, g)
    BY <1>2 DEF HazardAuthorized
  <1>4. /\ m.class = granted.class /\ m.frame = g.spatial.frame /\ Len(m.at) = Len(g.spatial.axes)
    BY <1>1, <1>3 DEF EnvelopeContained, SpatialContained
  <1>5. m.speed <= g.speed /\ m.time \in g.window.not_before..g.window.not_after
    BY <1>1, <1>2, <1>3, ClaimsConstants DEF EnvelopeContained, Measured
  <1>6. PICK A, B : A = e.spatial.axes /\ B = g.spatial.axes
    OBVIOUS
  <1>7. A \in Seq(Int \X Int) /\ B \in Seq(Int \X Int)
    BY <1>2, <1>6 DEF Measured
  <1>8. Len(A) = Len(B) /\ \A i \in DOMAIN A : A[i][1] >= B[i][1] /\ A[i][2] <= B[i][2]
    BY <1>3, <1>6 DEF EnvelopeContained, SpatialContained
  <1>9. Len(at) = Len(A) /\ \A i \in DOMAIN at : at[i] \in A[i][1]..A[i][2]
    BY <1>1, <1>6
  <1>10. at \in Seq(Coords) /\ DOMAIN at = 1..Len(at) /\ Len(at) = n
    BY LenProperties
  <1>11. ASSUME NEW i \in DOMAIN at PROVE at[i] \in B[i][1]..B[i][2]
    <2>1. DOMAIN A = 1..Len(A) /\ DOMAIN B = 1..Len(B)
      BY <1>7, LenProperties
    <2>2. i \in DOMAIN A /\ i \in DOMAIN B
      BY <1>8, <1>9, <1>10, <2>1
    <2>3. A[i] \in Int \X Int /\ B[i] \in Int \X Int
      BY <1>7, <2>1, <2>2, ElementOfSeq
    <2>4. A[i][1] \in Int /\ A[i][2] \in Int /\ B[i][1] \in Int /\ B[i][2] \in Int
      BY <2>3
    <2> QED BY <1>8, <1>9, <2>2, <2>4
  <1>12. \A i \in DOMAIN m.at : m.at[i] \in g.spatial.axes[i][1]..g.spatial.axes[i][2]
    BY <1>6, <1>11
  <1> HIDE DEF m
  <1>13. StaysInsideGrant'
    BY <1>1, <1>4, <1>5, <1>12 DEF StaysInsideGrant
  <1>14. (UnknownEffectIsWorst /\ AcceptedAsStated)'
    BY <1>1 DEF ClaimsInv, ClaimsContained, UnknownEffectIsWorst, AcceptedAsStated
  <1>15. (Measured(granted) /\ Measured(claimed) /\ HazardAuthorized(claimed, granted) = "ok")'
    BY <1>1, <1>2 DEF Measured, HazardAuthorized, EnvelopeContained, SpatialContained
  <1> QED BY <1>1, <1>13, <1>14, <1>15 DEF ClaimsInv, ClaimsContained

\* A judgement concerns the statement it is about and nothing else.
LEMMA JudgeInv ==
  ASSUME ClaimsInv, NEW statement, Judge(statement), (UnknownEffectIsWorst /\ AcceptedAsStated)'
  PROVE  ClaimsInv'
  <1>1. UNCHANGED <<granted, claimed, moved>>
    BY DEF Judge
  <1>2. StaysInsideGrant'
    BY <1>1 DEF ClaimsInv, ClaimsContained, StaysInsideGrant
  <1>3. (Measured(granted) /\ (claimed # NoClaim => Measured(claimed) /\ HazardAuthorized(claimed, granted) = "ok"))'
    BY <1>1 DEF ClaimsInv, Measured, HazardAuthorized, EnvelopeContained, SpatialContained
  <1> QED BY <1>1, <1>2, <1>3 DEF ClaimsInv, ClaimsContained

LEMMA ObjectSays ==
  ASSUME NEW m \in 0..3, NEW src, NEW who, NEW e \in 0..9
  PROVE  AuthorizeObject([principal |-> "a", max_effect |-> m], src, who, e) = "ok" <=>
           /\ src = "signature" /\ who = "a"
           /\ e <= m \/ m = DestructiveEffect
  <1>1. NormalizeEffect(e) > m <=> ~(e <= m \/ m = 3)
    BY DEF NormalizeEffect, DestructiveEffect
  <1>2. ResolveAuthPrincipal(src, who) = "ok" <=> src = "signature" /\ who # ""
    BY DEF ResolveAuthPrincipal
  <1> QED BY <1>1, <1>2 DEF AuthorizeObject, DestructiveEffect

\* What verifies is what the key signed, at the strength the profile asks for.
LEMMA VerifiedSign1 ==
  ASSUME NEW key, NEW b, NEW profile, NEW signer, VerifySign1(SignedBy(signer, b), profile, key) = "ok"
  PROVE  /\ signer = key /\ key.alg # ALG.ed25519
         /\ profile = PROFILE.sovereign => key.alg = ALG.mldsa87
  <1> DEFINE o == SignedBy(signer, b)
  <1>1. o.alg = signer.alg /\ o.key = signer
    BY DEF SignedBy
  <1> HIDE DEF o
  <1>2. /\ o.alg \in Registered /\ ~(AlgLevel(o.alg) < ProfileMinLevel(profile))
        /\ o.alg = key.alg /\ o.key = key
    BY DEF VerifySign1, o
  <1>3. ALG.ed25519 = -19 /\ ALG.mldsa87 = -50 /\ ALG.mldsa65 = -49
    BY DEF ALG
  <1>4. AlgLevel(-19) = 0 /\ AlgLevel(-49) = 3 /\ AlgLevel(-50) = 5
    BY <1>3 DEF AlgLevel
  <1>5. ProfileMinLevel(profile) \in {3, 5} /\ (profile = PROFILE.sovereign => ProfileMinLevel(profile) = 5)
    BY DEF ProfileMinLevel
  <1>6. o.alg \in {-49, -50, -19}
    BY <1>2, <1>3 DEF Registered
  <1> QED BY <1>1, <1>2, <1>3, <1>4, <1>5, <1>6

\* A body that parses, of the bodies in circulation, is a whole one.
LEMMA ParsedBody ==
  ASSUME NEW b \in PaymentBodies, ParsePaymentImport(b).verdict = "ok", ParsePaymentImport(b).format \in 1..3
  PROVE  \E f \in 1..3 : b = [k \in 1..6 |-> <<f, 5, "eur", "shop", 9, "payload">>[k]]
  <1> DEFINE whole(f) == [k \in 1..6 |-> <<f, 5, "eur", "shop", 9, "payload">>[k]]
  <1>1. PICK f \in {1, 3, 4} : b \in Without(whole(f), {1, 6})
    BY DEF PaymentBodies
  <1>2. DOMAIN whole(f) = 1..6 /\ whole(f)[1] = f
    OBVIOUS
  <1>3. PICK w : w = whole(f)
    OBVIOUS
  <1> HIDE DEF whole
  <1>4. 1..6 \subseteq DOMAIN b /\ (\A k \in 1..6 : b[k] # Bad) /\ b[1] \in 1..3
    BY DEF ParsePaymentImport
  <1>5. DOMAIN w = 1..6 /\ w[1] = f
    BY <1>2, <1>3
  <1>6. b = w
    <2>1. b \in {w} \cup {[k \in DOMAIN w \ {x} |-> w[k]] : x \in {1, 6}} \cup {[w EXCEPT ![x] = Bad] : x \in {1, 6}}
      BY <1>1, <1>3 DEF Without
    <2>2. ASSUME NEW x \in {1, 6}, b = [k \in DOMAIN w \ {x} |-> w[k]] PROVE FALSE
      <3>1. DOMAIN b = DOMAIN w \ {x} /\ x \in 1..6
        BY <2>2
      <3> QED BY <1>4, <3>1
    <2>3. ASSUME NEW x \in {1, 6}, b = [w EXCEPT ![x] = Bad] PROVE FALSE
      <3>1. x \in 1..6 /\ b[x] = Bad
        BY <1>5, <2>3
      <3> QED BY <1>4, <3>1
    <2> QED BY <2>1, <2>2, <2>3
  <1>7. f \in 1..3
    BY <1>4, <1>5, <1>6
  <1> QED BY <1>3, <1>6, <1>7 DEF whole

LEMMA ObjectInv ==
  ASSUME ClaimsInv, NEW m \in 0..3, NEW src, NEW who, NEW e \in 0..9,
         JudgeObject([principal |-> "a", max_effect |-> m], src, who, e)
  PROVE  ClaimsInv'
  <1> DEFINE grant == [principal |-> "a", max_effect |-> m]
             v == AuthorizeObject(grant, src, who, e)
             s == [kind |-> "object", grant |-> grant, src |-> src, presented |-> who, effect |-> e, verdict |-> v]
  <1>1. Judge(s)
    BY DEF JudgeObject
  <1>2. v = "ok" <=> /\ src = "signature" /\ who = "a"
                     /\ e <= m \/ m = DestructiveEffect
    BY ObjectSays
  <1> HIDE DEF v
  <1>3. /\ s.kind = "object" /\ s.src = src /\ s.presented = who /\ s.effect = e /\ s.verdict = v
        /\ s.grant.principal = "a" /\ s.grant.max_effect = m
    OBVIOUS
  <1> HIDE DEF s
  <1>4. judged' = s
    BY <1>1 DEF Judge
  <1>5. UnknownEffectIsWorst'
    BY <1>2, <1>3, <1>4 DEF UnknownEffectIsWorst
  <1>6. AcceptedAsStated'
    BY <1>3, <1>4 DEF AcceptedAsStated
  <1> QED BY <1>1, <1>5, <1>6, JudgeInv

LEMMA PaymentInv ==
  ASSUME ClaimsInv, NEW b \in PaymentBodies, NEW signer, NEW key, NEW p, JudgePayment(SignedBy(signer, b), p, key)
  PROVE  ClaimsInv'
  <1> DEFINE o == SignedBy(signer, b)
             v == VerifyPaymentImport(o, p, key)
             s == [kind |-> "payment", object |-> o, profile |-> p, key |-> key, result |-> v]
  <1>1. Judge(s)
    BY DEF JudgePayment
  <1>2. o.key = signer /\ o.body = b
    BY DEF SignedBy
  <1>3. /\ s.kind = "payment" /\ s.object = o /\ s.profile = p /\ s.key = key /\ s.result = v
    OBVIOUS
  <1> HIDE DEF o
  <1>4. ASSUME v.verdict = "ok"
        PROVE  /\ VerifySign1(o, p, key) = "ok"
               /\ ParsePaymentImport(b).verdict = "ok" /\ ParsePaymentImport(b).format \in 1..3
    <2> DEFINE sig == VerifySign1(o, p, key)
               q == ParsePaymentImport(b)
    <2>1. v = CASE sig # "ok" -> [verdict |-> sig]
                [] q.verdict # "ok" -> q
                [] q.format \notin 1..3 -> [verdict |-> "UnknownPaymentFormat"]
                [] OTHER -> q
      BY <1>2 DEF VerifyPaymentImport
    <2> HIDE DEF sig, q, v
    <2>2. sig = "ok" /\ q.verdict = "ok" /\ q.format \in 1..3
      BY <1>4, <2>1
    <2> QED BY <2>2 DEF sig, q
  <1>5. ASSUME v.verdict = "ok"
        PROVE  /\ signer = key /\ key.alg # ALG.ed25519
               /\ p = PROFILE.sovereign => key.alg = ALG.mldsa87
    <2> HIDE DEF v
    <2> QED BY <1>4, <1>5, VerifiedSign1 DEF o
  <1> HIDE DEF v, s
  <1>6. judged' = s
    BY <1>1 DEF Judge
  <1>7. UnknownEffectIsWorst'
    BY <1>3, <1>6 DEF UnknownEffectIsWorst
  <1>8. v.verdict = "ok" => \E f \in 1..3 : b = [k \in 1..6 |-> <<f, 5, "eur", "shop", 9, "payload">>[k]]
    BY <1>4, ParsedBody
  <1>9. AcceptedAsStated'
    <2>1. judged'.kind = "payment" /\ judged'.object = o /\ judged'.profile = p /\ judged'.key = key /\ judged'.result = v
      BY <1>3, <1>6
    <2>2. judged'.kind # "refusal" /\ judged'.kind # "fresh"
      BY <2>1
    <2> QED BY <1>2, <1>5, <1>8, <2>1, <2>2, Zenon DEF AcceptedAsStated
  <1> QED BY <1>1, <1>7, <1>9, JudgeInv

LEMMA OtherStatementsInv ==
  ASSUME ClaimsInv
  PROVE  /\ \A ext : JudgeLabel(ext) => ClaimsInv'
         /\ \A b : JudgeRefusal(b) => ClaimsInv'
         /\ \A a, r, party : JudgeFreshness(a, r, party) => ClaimsInv'
  <1>1. ASSUME NEW ext, JudgeLabel(ext) PROVE ClaimsInv'
    <2> DEFINE s == [kind |-> "label", ext |-> ext, verdict |-> SafetyLabelFromExt(ext).verdict]
    <2>1. Judge(s) /\ s.kind = "label"
      BY <1>1 DEF JudgeLabel
    <2>2. judged'.kind = "label"
      BY <2>1 DEF Judge
    <2>3. (UnknownEffectIsWorst /\ AcceptedAsStated)'
      BY <2>2 DEF UnknownEffectIsWorst, AcceptedAsStated
    <2> HIDE DEF s
    <2> QED BY <2>1, <2>3, JudgeInv
  <1>2. ASSUME NEW b, JudgeRefusal(b) PROVE ClaimsInv'
    <2> DEFINE s == [kind |-> "refusal", body |-> b, verdict |-> ParseRefusal(b)]
    <2>1. Judge(s) /\ s.kind = "refusal" /\ s.body = b /\ s.verdict = ParseRefusal(b)
      BY <1>2 DEF JudgeRefusal
    <2> HIDE DEF s
    <2>2. judged' = s
      BY <2>1 DEF Judge
    <2>3. ParseRefusal(b) = "ok" => DOMAIN b = {1, 2} /\ b[1] \in 0..2
      BY DEF ParseRefusal, Only
    <2>4. (UnknownEffectIsWorst /\ AcceptedAsStated)'
      BY <2>1, <2>2, <2>3 DEF UnknownEffectIsWorst, AcceptedAsStated
    <2> QED BY <2>1, <2>4, JudgeInv
  <1>3. ASSUME NEW a, NEW r, NEW party, JudgeFreshness(a, r, party) PROVE ClaimsInv'
    <2> DEFINE v == VerifyFreshIndependent(a, "human", "cid", 1, r, "ledger", party)
               s == [kind |-> "fresh", approval |-> a, receipt |-> r, party |-> party, verdict |-> v]
    <2>1. Judge(s) /\ s.kind = "fresh" /\ s.approval = a /\ s.receipt = r /\ s.party = party /\ s.verdict = v
      BY <1>3 DEF JudgeFreshness
    <2>2. v = "ok" => r.ledger # party /\ r.key = "ledger" /\ a.key = "human"
      BY DEF VerifyFreshIndependent
    <2> HIDE DEF s, v
    <2>3. judged' = s
      BY <2>1 DEF Judge
    <2>4. (UnknownEffectIsWorst /\ AcceptedAsStated)'
      BY <2>1, <2>2, <2>3 DEF UnknownEffectIsWorst, AcceptedAsStated
    <2> QED BY <2>1, <2>4, JudgeInv
  <1> QED BY <1>1, <1>2, <1>3

LEMMA ClaimsStepKeeps ==
  ASSUME ClaimsInv, [ClaimsNext]_claimvars PROVE ClaimsInv'
  <1>1. CASE UNCHANGED claimvars
    BY <1>1 DEF claimvars, ClaimsInv, Measured, HazardAuthorized, EnvelopeContained, SpatialContained,
                ClaimsContained, StaysInsideGrant, UnknownEffectIsWorst, AcceptedAsStated
  <1>2. ASSUME NEW v \in ClaimWire, Claim(v) PROVE ClaimsInv'
    BY <1>2, ClaimInv
  <1>3. ASSUME NEW n \in 1..2, NEW at \in [1..n -> Coords], NEW speed \in Coords, NEW time \in Coords,
               Move(at, speed, time)
        PROVE  ClaimsInv'
    BY <1>3, MoveInv
  <1>4. ASSUME Statement PROVE ClaimsInv'
    <2>1. CASE \E e \in 0..9, m \in 0..3, src \in {"signature", "transport", "header", "client"}, who \in {"", "a", "b"} :
                 JudgeObject([principal |-> "a", max_effect |-> m], src, who, e)
      BY <2>1, ObjectInv, Zenon
    <2>2. CASE \E ext : JudgeLabel(ext)
      BY <2>2, OtherStatementsInv
    <2>3. CASE \E b \in PaymentBodies, signer, key \in Peers, p \in {1, 3} : JudgePayment(SignedBy(signer, b), p, key)
      BY <2>3, PaymentInv, Zenon
    <2>4. CASE \E b : JudgeRefusal(b)
      BY <2>4, OtherStatementsInv
    <2>5. CASE \E a, r, party : JudgeFreshness(a, r, party)
      BY <2>5, OtherStatementsInv
    <2> QED BY <1>4, <2>1, <2>2, <2>3, <2>4, <2>5, Zenon DEF Statement
  <1> QED BY <1>1, <1>2, <1>3, <1>4, Zenon DEF ClaimsNext

\* A machine stays inside its grant however its claim was put, an unknown effect
\* counts as the worst, and what is accepted is what its signer stated
\* (hazard_authorized, Grant.authorize_object, verify_payment_import,
\* parse_refusal, verify_fresh_independent).
THEOREM ClaimsStayContained == ClaimsSpec => []ClaimsContained
  <1>1. ClaimsInv => ClaimsContained
    BY DEF ClaimsInv
  <1> QED BY <1>1, ClaimsInitInv, ClaimsStepKeeps, PTL DEF ClaimsSpec

------------------------------------------------------------------------------
(* Everything that decides whether an action may be taken *)

\* A behaviour of the four parts is one of each.
LEMMA PartsApart == AuthorizationSpec => HitlSpec /\ AuthSpec /\ ClaimsSpec /\ AdmSpec
  <1>1. AuthorizationInit => HitlInit /\ AuthInit /\ ClaimsInit /\ AdmInit
    BY DEF AuthorizationInit
  <1>2. [AuthorizationNext]_authorizationvars =>
          [HitlNext]_hitlvars /\ [AuthNext]_authvars /\ [ClaimsNext]_claimvars /\ [AdmNext]_admvars
    BY DEF AuthorizationNext, authorizationvars
  <1> QED BY <1>1, <1>2, PTL DEF AuthorizationSpec, HitlSpec, AuthSpec, ClaimsSpec, AdmSpec

\* Nothing is done without its cause: the interceptor, the gates of the shared
\* ledger, the machine under its claim and the points of use let through only
\* what was approved, granted or stated for it, and trust never goes back
\* (HITLInterceptor, authorize_destructive, hazard_authorized, VerifyAtUseGuard).
THEOREM NothingWithoutCause ==
  AuthorizationSpec => /\ [](ActsOnlyApproved /\ AuthorityNeverGrows /\ ActsWithinApproval /\ ClaimsContained /\ AdmittedForCause)
                       /\ TrustMovesForward
  BY PartsApart, InterceptorSafe, DelegationExact, OnlyWhatWasApproved, ClaimsStayContained, AlwaysForCause, TrustNeverBack, PTL
==============================================================================
