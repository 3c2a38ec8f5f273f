---------------------------- MODULE Orchestration ----------------------------
(***************************************************************************)
(* Agents that work through signed requests and responses: the ReAct       *)
(* bridge (ecosystem/naalp-react), and over it the plan orchestrator       *)
(* (naalp-plan), the sequential pipeline and the parallel fan-out          *)
(* (naalp-multiagent).                                                     *)
(*                                                                         *)
(* A request is its content; its id stands for it.  The network may hand a *)
(* bridge any response the responder ever signed, for this request, for    *)
(* another or for several, for this agent or another, and responses of     *)
(* other keys.  A plan runs under one identity, the stages of a pipeline   *)
(* and the branches of a fan-out each under their own.  The signature      *)
(* library is shared by all threads and is not reentrant.                  *)
(***************************************************************************)
EXTENDS Integers, Sequences, FiniteSets, SequencesExt

CONSTANTS
  Tasks,        \* ids of the plan's tasks, the pipeline's stages, the fan-out's branches: a set of numbers
  Plans,        \* the plans considered: task -> the set of its prerequisites
  MaxWorkers,   \* threads of the fan-out's pool
  MaxForged     \* bound on the responses that are not the answer to their request

Root == "shared input"
Planner == 0   \* the identity a plan runs under
Nothing == [by |-> 0, causes |-> {}]

ASSUME OrchestrationConstants ==
  /\ Tasks \subseteq Nat \ {0} /\ IsFiniteSet(Tasks)
  /\ \A p \in Plans : \A t \in Tasks : p[t] \subseteq Tasks
  /\ MaxWorkers \in Nat \ {0} /\ MaxForged \in Nat

VARIABLES
  style,     \* "plan", "pipeline" or "fanout"
  prereqs,   \* task -> its prerequisites
  progress,  \* task -> "todo", "signing", "sent", "verifying", "executed", "refused", "blocked"
  request,   \* task -> its signed request
  emitted,   \* requests that were signed and sent
  returned,  \* task -> the response its executor returned
  replies,   \* responses in the network: the requests named, the audience, the key
  inside,    \* threads inside the signature library
  mixed,     \* threads that were inside it together with another one
  forged,    \* bound
  merged     \* the fan-out's reconciled order

orchvars == <<style, prereqs, progress, request, emitted, returned, replies, inside, mixed, forged, merged>>

\* The ids of a set from the least to the greatest.
Ascending(S) == CHOOSE s \in [1..Cardinality(S) -> S] : \A i, j \in 1..Cardinality(S) : i < j => s[i] < s[j]

\* Mutant: a prerequisite that cannot be resolved is left out of the count.
TopologicalOrderLoose(p) == Ascending(Tasks)

\* _topological_order: Kahn's algorithm, the least ready id first; the tasks on a cycle, and
\* the ones behind it, are never ready.
TopologicalOrder(p) ==
  LET order[n \in 0..Cardinality(Tasks)] ==
        IF n = 0 THEN << >>
        ELSE LET before == order[n - 1]
                 ready == {t \in Tasks \ ToSet(before) : p[t] \subseteq ToSet(before)}
             IN IF ready = {} THEN before
                ELSE Append(before, CHOOSE t \in ready : \A u \in ready : t <= u)
  IN order[Cardinality(Tasks)]

\* _validate_and_order: a plan with a cycle is refused as a whole.
Accepted(p) == Len(TopologicalOrder(p)) = Cardinality(Tasks)
Sequential == style # "fanout"
Sequence == IF style = "plan" THEN TopologicalOrder(prereqs) ELSE Ascending(Tasks)

OrchInit ==
  /\ style \in {"plan", "pipeline", "fanout"}
  /\ \/ style = "plan" /\ prereqs \in {p \in Plans : Accepted(p)}
     \/ style = "pipeline" /\ prereqs = [t \in Tasks |-> {u \in Tasks : u < t /\ \A v \in Tasks : v < t => v <= u}]
     \/ style = "fanout" /\ prereqs = [t \in Tasks |-> {}]
  /\ progress = [t \in Tasks |-> "todo"]
  /\ request = [t \in Tasks |-> Nothing] /\ returned = [t \in Tasks |-> Nothing]
  /\ emitted = {} /\ replies = {} /\ inside = {} /\ mixed = {} /\ forged = 0 /\ merged = << >>

Done(t) == progress[t] \in {"executed", "refused", "blocked"}

\* The loop of run() is at t, or a worker of the pool is free.
Turn(t) ==
  IF Sequential THEN \A i, j \in DOMAIN Sequence : i < j /\ Sequence[j] = t => Done(Sequence[i])
  ELSE Cardinality({u \in Tasks : progress[u] # "todo" /\ ~Done(u)}) < MaxWorkers

\* CRYPTO_LOCK; a pipeline and a plan run in one thread.
MayEnter == inside = {}
Enter(t) == inside' = inside \cup {t} /\ mixed' = IF inside = {} THEN mixed ELSE mixed \cup inside \cup {t}
Leave(t) == inside' = inside \ {t} /\ mixed' = mixed \ {t}

Unresolved(t) == {u \in prereqs[t] : progress[u] # "executed"}

\* A task one of whose prerequisites did not execute is blocked: nothing is signed for it.
Block(t) ==
  /\ progress[t] = "todo" /\ Turn(t) /\ Unresolved(t) # {}
  /\ progress' = [progress EXCEPT ![t] = "blocked"]
  /\ UNCHANGED <<style, prereqs, request, emitted, returned, replies, inside, mixed, forged, merged>>

Begin(t) ==
  /\ progress[t] = "todo" /\ Turn(t) /\ Unresolved(t) = {} /\ MayEnter
  /\ progress' = [progress EXCEPT ![t] = "signing"] /\ Enter(t)
  /\ UNCHANGED <<style, prereqs, request, emitted, returned, replies, forged, merged>>

\* Mutant: the links to the prerequisites are left out of the request.
RequestUnlinked(t) == [by |-> t, causes |-> {}]

\* The task's action with the ids of its prerequisites' requests, or of the shared input, as causes.
RequestFor(t) ==
  [by |-> t, causes |-> IF style = "fanout" THEN {Root} ELSE {request[u] : u \in prereqs[t]}]

\* action_to_request: the validator and the human may refuse, and nothing is emitted then; or
\* the transport fails with the request signed and sent, and the task is refused all the same.
Sign(t) ==
  /\ progress[t] = "signing" /\ Leave(t)
  /\ \/ /\ t \notin mixed
        /\ request' = [request EXCEPT ![t] = RequestFor(t)]
        /\ emitted' = emitted \cup {RequestFor(t)}
        /\ progress' = [progress EXCEPT ![t] = "sent"]
     \/ /\ progress' = [progress EXCEPT ![t] = "refused"] /\ UNCHANGED request
        /\ emitted' = emitted \/ (t \notin mixed /\ emitted' = emitted \cup {RequestFor(t)})
  /\ UNCHANGED <<style, prereqs, returned, replies, forged, merged>>

\* The identity a bridge requires as the audience of a response.
SelfIdentity(t) == IF style = "plan" THEN Planner ELSE t

\* The responder signs a response: to one request, for the agent that sent it, or otherwise.
Respond(cs, audience) ==
  LET straight == \E r \in cs : cs = {r} /\ audience = SelfIdentity(r.by) IN
  /\ straight \/ forged < MaxForged
  /\ forged' = IF straight THEN forged ELSE forged + 1
  /\ replies' = replies \cup {[causes |-> cs, audience |-> audience, key |-> "responder"]}
  /\ replies' # replies
  /\ UNCHANGED <<style, prereqs, progress, request, emitted, returned, inside, mixed, merged>>

\* Somebody else's response; it may name any request that was sent.
Forge(r) ==
  /\ forged < MaxForged /\ forged' = forged + 1
  /\ replies' = replies \cup {[causes |-> {r}, audience |-> SelfIdentity(r.by), key |-> "other"]}
  /\ UNCHANGED <<style, prereqs, progress, request, emitted, returned, inside, mixed, merged>>

\* The executor returns bytes from the network, or raises.
Execute(t, a) ==
  /\ progress[t] = "sent" /\ returned[t] = Nothing /\ returned' = [returned EXCEPT ![t] = a]
  /\ UNCHANGED <<style, prereqs, progress, request, emitted, replies, inside, mixed, forged, merged>>

ExecutorFails(t) ==
  /\ progress[t] = "sent" /\ returned[t] = Nothing /\ progress' = [progress EXCEPT ![t] = "refused"]
  /\ UNCHANGED <<style, prereqs, request, emitted, returned, replies, inside, mixed, forged, merged>>

BeginVerify(t) ==
  /\ progress[t] = "sent" /\ returned[t] # Nothing /\ MayEnter
  /\ progress' = [progress EXCEPT ![t] = "verifying"] /\ Enter(t)
  /\ UNCHANGED <<style, prereqs, request, emitted, returned, replies, forged, merged>>

\* Mutant: the response need not name this request.
ObservationAny(a, t, r) ==
  IF a.key # "responder" \/ t \in mixed THEN "BadSignature"
  ELSE IF a.audience # SelfIdentity(t) THEN "WrongAudience" ELSE "ok"

\* response_to_observation: signature, audience, and the request among the causes.
ResponseToObservation(a, t, r) ==
  IF a.key # "responder" \/ t \in mixed THEN "BadSignature"
  ELSE IF a.audience # SelfIdentity(t) THEN "WrongAudience"
  ELSE IF r \notin a.causes THEN "CausalViolation" ELSE "ok"

Verify(t) ==
  /\ progress[t] = "verifying" /\ Leave(t)
  /\ progress' = [progress EXCEPT ![t] = IF ResponseToObservation(returned[t], t, request[t]) = "ok"
                                 THEN "executed" ELSE "refused"]
  /\ UNCHANGED <<style, prereqs, request, emitted, returned, replies, forged, merged>>

\* The results in the order of `branches`, not of completion; then federation.reconcile of the
\* shared input and the requests of the branches that executed: the input is their only cause, and
\* ties are broken by content id, here by the branch.
ByBranch(rs) == CHOOSE s \in [1..Cardinality(rs) -> rs] : \A i, j \in 1..Cardinality(rs) : i < j => s[i].by < s[j].by
Reconcile(rs) == <<Root>> \o ByBranch(rs)

\* Mutant: a branch that was refused takes part in the merge.
MergeAll ==
  /\ style = "fanout" /\ merged = << >> /\ \A t \in Tasks : Done(t)
  /\ merged' = Reconcile(emitted)
  /\ UNCHANGED <<style, prereqs, progress, request, emitted, returned, replies, inside, mixed, forged>>

Merge ==
  /\ style = "fanout" /\ merged = << >> /\ \A t \in Tasks : Done(t)
  /\ merged' = Reconcile({request[t] : t \in {u \in Tasks : progress[u] = "executed"}})
  /\ UNCHANGED <<style, prereqs, progress, request, emitted, returned, replies, inside, mixed, forged>>

OrchNext ==
  \/ \E t \in Tasks : \/ Block(t) \/ Begin(t) \/ Sign(t) \/ BeginVerify(t) \/ Verify(t) \/ ExecutorFails(t)
                      \/ \E a \in replies : Execute(t, a)
  \/ \E cs \in SUBSET emitted \ {{}}, who \in Tasks \cup {Planner} : Respond(cs, who)
  \/ \E r \in emitted : Forge(r)
  \/ Merge

OrchSpec == OrchInit /\ [][OrchNext]_orchvars

------------------------------------------------------------------------------
\* What executed was answered: its executor was given a response that the responder signed, for
\* this agent, and that names the very request the task sent; and a task whose executor was given
\* such a response is never refused, however the threads run (response_to_observation, CRYPTO_LOCK).
Answers(a, t) ==
  a # Nothing /\ a.key = "responder" /\ a.audience = SelfIdentity(t) /\ request[t] \in a.causes

OnlyAnsweredExecute ==
  \A t \in Tasks :
    /\ progress[t] = "executed" => request[t] \in emitted /\ returned[t] \in replies /\ Answers(returned[t], t)
    /\ progress[t] = "refused" => ~Answers(returned[t], t)

\* The causes of a request that was sent are the requests of all its task's prerequisites, each
\* executed before: the graph of the signed requests is the plan (run, _run_branch).
Ancestors(t) == {u \in Tasks : u \in prereqs[t] \/ \E v \in prereqs[t] : u \in prereqs[v]}

GraphIsThePlan ==
  \A r \in emitted :
    /\ \A u \in Ancestors(r.by) : progress[u] = "executed"
    /\ style # "fanout" => r.causes = {request[u] : u \in prereqs[r.by]}
    /\ style = "fanout" => r.causes = {Root}

\* A failure stops exactly what depends on it: when the run is over, a task is blocked if and only
\* if one of its prerequisites did not execute, and all others were tried.
FailureStopsDependentsOnly ==
  (\A t \in Tasks : progress[t] \notin {"signing", "sent", "verifying"} /\ ~(progress[t] = "todo" /\ Turn(t))) =>
    \A t \in Tasks : Done(t) /\ (progress[t] = "blocked" <=> Unresolved(t) # {})

\* The fan-out's order lists the shared input and then every branch that executed, once, in an order
\* that does not depend on which thread finished first (ParallelFanout.run).
MergeIsDeterministic ==
  LET executed == {t \in Tasks : progress[t] = "executed"} IN
  merged # << >> =>
    /\ Len(merged) = 1 + Cardinality(executed) /\ merged[1] = Root
    /\ \A i \in 2..Len(merged) : merged[i].by \in executed /\ merged[i] = RequestFor(merged[i].by)
    /\ \A i, j \in 2..Len(merged) : i < j => merged[i].by < merged[j].by

(* The signed requests and the executions are the plan: each task on the     *)
(* answer to its own request, after its prerequisites, failures reaching     *)
(* dependents only, whichever thread finished first (orchestrator.run,       *)
(* ParallelFanout.run).                                                      *)
PlanCarriedOut ==
  /\ OnlyAnsweredExecute
  /\ GraphIsThePlan
  /\ FailureStopsDependentsOnly
  /\ MergeIsDeterministic
=============================================================================
