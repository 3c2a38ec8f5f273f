----------------------------- MODULE AgentGuards -----------------------------
(***************************************************************************)
(* The guards that put agent frameworks under N-AALP control: LangGraph,   *)
(* LlamaIndex, CrewAI, the OpenAI Agents SDK and the Microsoft framework   *)
(* (MSAF) gate a tool call on a human approval; ADK, MCP and A2A record it *)
(* and, when gating, hold it to a grant.  Every guard signs what it sees   *)
(* into one chain of records per session before the tool may run.          *)
(*                                                                         *)
(* A behaviour has one framework, with several calls in flight.  External  *)
(* code is modelled from how the guards use it: the durable interceptor    *)
(* (pause, resume, store.load), binding (sign, verify, authorize) and the  *)
(* frameworks themselves, which decide when to call what.  Capturing is    *)
(* one step: the guards run on one event loop and do not await in it.      *)
(***************************************************************************)
EXTENDS Integers, Sequences, FiniteSets

CONSTANTS
  Frameworks,    \* the frameworks of this run
  Tools,         \* tool names
  Args,          \* argument dictionaries, as the tools receive them
  TypedValue,    \* arguments -> [type, text]: the Python value they stand for
  Declared,      \* <<tool, arguments>> -> what the classifier says; NoEffect: nothing
  Cap,           \* the highest effect of the grant
  Threshold,     \* the effect from which the interceptor requires an approval
  Ceiling,       \* approval_grant_effect; NoEffect: the effect of the paused call
  Sessions,
  Calls,         \* call slots: calls in flight
  MaxRuns,       \* bound on calls begun
  MaxRestarts    \* bound on restarts of the process

NoEffect == -1
Destructive == 3

VARIABLES
  framework, gating,  \* fixed in a behaviour
  chain,              \* the recorder's stream: every signed record in append order
  last,               \* session -> position of its last record, 0 when none; in memory
  life,               \* number of restarts so far
  store,              \* the interceptor's durable store: content id -> paused approval
  minted,             \* approvals signed so far, all of them consumed on success
  call,               \* slot -> the call it holds
  ran,                \* history: tool executions
  begun               \* calls begun

guardvars == <<framework, gating, chain, last, life, store, minted, call, ran, begun>>

------------------------------------------------------------------------------
(* What tells the guards apart, read off their constructors and helpers.     *)
(*   edits: a decision may carry other arguments, inFrame: the call waits    *)
(*   for the decision in its own frame, replays: the framework may run the   *)
(*   frame again from its top once the decision is there.                    *)
Traits(approves, edits, inFrame, replays) ==
  [approves |-> approves, edits |-> edits, inFrame |-> inFrame, replays |-> replays]

LangGraph  == Traits(TRUE, TRUE, TRUE, TRUE)
LlamaIndex == Traits(TRUE, TRUE, TRUE, TRUE)
CrewAI     == Traits(TRUE, TRUE, TRUE, FALSE)
OpenAI     == Traits(TRUE, FALSE, FALSE, FALSE)
Msaf       == Traits(TRUE, FALSE, FALSE, FALSE)
Adk        == Traits(FALSE, FALSE, TRUE, FALSE)
McpClient  == Traits(FALSE, FALSE, TRUE, FALSE)
A2aClient  == Traits(FALSE, FALSE, TRUE, FALSE)

Adapter == [langgraph |-> LangGraph, llamaindex |-> LlamaIndex, crewai |-> CrewAI,
            openai |-> OpenAI, msaf |-> Msaf, adk |-> Adk, mcp |-> McpClient, a2a |-> A2aClient]

ASSUME AgentGuardsConstants ==
  /\ Frameworks \subseteq DOMAIN Adapter
  /\ \A tool \in Tools, args \in Args : Declared[<<tool, args>>] \in NoEffect..Destructive
  /\ Cap \in 0..Destructive /\ Threshold \in 0..Destructive /\ Ceiling \in NoEffect..Destructive
  /\ IsFiniteSet(Calls) /\ MaxRuns \in Nat /\ MaxRestarts \in Nat

Approves == Adapter[framework].approves

\* binding.resolve_effect: an unclassified call is destructive.
ResolveEffect(tool, args) ==
  IF Declared[<<tool, args>>] = NoEffect THEN Destructive ELSE Declared[<<tool, args>>]

\* _to_cbor_value: Booleans become integers, floats become text, None becomes a text that
\* names the adapter.
ToCborValue(v, null) ==
  CASE v.type = "bool"  -> <<"U", IF v.text = "True" THEN "1" ELSE "0">>
    [] v.type = "int"   -> <<"U", v.text>>
    [] v.type = "none"  -> <<"T", null>>
    [] v.type \in {"float", "str"} -> <<"T", v.text>>

\* Every adapter has its own copy, as it has its own sentinel.
LangGraphValue(v)  == ToCborValue(v, "naalp-langgraph-null")
LlamaIndexValue(v) == ToCborValue(v, "naalp-llamaindex-null")
CrewAIValue(v)     == ToCborValue(v, "naalp-crewai-null")
OpenAIValue(v)     == ToCborValue(v, "naalp-openai-agents-null")
MsafValue(v)       == ToCborValue(v, "naalp-msaf-null")

\* args_content_id, what an approval binds: the encoded arguments alone.
ContentId(fw, args) ==
  LET v == TypedValue[args] IN
  CASE fw = "llamaindex" -> LlamaIndexValue(v)
    [] fw = "crewai"     -> CrewAIValue(v)
    [] fw = "openai"     -> OpenAIValue(v)
    [] fw = "msaf"       -> MsafValue(v)
    [] OTHER             -> LangGraphValue(v)

ArgsContentId(args) == ContentId(framework, args)

RequiresApproval(effect) == effect >= Threshold

\* Mutant: the grant is not consulted.
AuthorizedAlways(effect) == TRUE

\* binding.authorize_action.  Observe-only guards do not ask.
Authorized(effect) == gating => effect <= Cap

Absent == [status |-> "absent", tool |-> "none", effect |-> 0, by |-> 0]
Idle == [pc |-> "idle", tool |-> "none", args |-> "none", session |-> "none",
         effect |-> 0, by |-> 0, final |-> "none", side |-> "client"]

GuardsInit ==
  /\ framework \in Frameworks
  /\ gating \in IF Adapter[framework].approves THEN {TRUE} ELSE BOOLEAN
  /\ chain = << >> /\ last = [s \in Sessions |-> 0] /\ life = 0
  /\ store = [x \in {ArgsContentId(a) : a \in Args} |-> Absent]
  /\ minted = << >> /\ call = [c \in Calls |-> Idle] /\ ran = << >> /\ begun = 0

------------------------------------------------------------------------------
(* The recorder *)

\* Mutant: a capture does not move the session's last id.
CaptureForgetful(what, s, tool, args, effect) ==
  /\ chain' = Append(chain, [what |-> what, session |-> s, tool |-> tool, args |-> args,
                             effect |-> effect, cause |-> last[s], life |-> life])
  /\ last' = IF what = "call" THEN [last EXCEPT ![s] = Len(chain')] ELSE last

\* _capture_and_record: sign with the last record of the session as cause, verify,
\* append to the stream, remember its id.
Capture(what, s, tool, args, effect) ==
  /\ chain' = Append(chain, [what |-> what, session |-> s, tool |-> tool, args |-> args,
                             effect |-> effect, cause |-> last[s], life |-> life])
  /\ last' = [last EXCEPT ![s] = Len(chain')]

\* Mutant: the length of a payload is not checked.
ReadAllLenient(units) ==
  LET At[i \in 1..(Len(units) + 1)] ==
        IF i > Len(units) THEN << >>
        ELSE IF i + units[i] > Len(units) THEN <<SubSeq(units, i + 1, Len(units))>>
        ELSE <<SubSeq(units, i + 1, i + units[i])>> \o At[i + units[i] + 1]
  IN At[1]

\* read_all on a stream of units: a record is its length and as many units.  A short
\* header or payload refuses the stream; here that is marked at the end of the result.
ReadAll(units) ==
  LET At[i \in 1..(Len(units) + 1)] ==
        IF i > Len(units) THEN << >>
        ELSE IF i + units[i] > Len(units) THEN <<"truncated">>
        ELSE <<SubSeq(units, i + 1, i + units[i])>> \o At[i + units[i] + 1]
  IN At[1]

\* append: the length of the record, then the record.
Written(payloads) ==
  LET At[n \in 0..Len(payloads)] == IF n = 0 THEN << >> ELSE At[n - 1] \o <<Len(payloads[n])>> \o payloads[n]
  IN At[Len(payloads)]

\* Each adapter has its own ChainRecorder: what it reads of the first `cut` units it wrote.
ReadBack(payloads, cut) == ReadAll(SubSeq(Written(payloads), 1, cut))

LangGraphRecorder(payloads, cut)  == ReadBack(payloads, cut)
LlamaIndexRecorder(payloads, cut) == ReadBack(payloads, cut)
CrewAIRecorder(payloads, cut)     == ReadBack(payloads, cut)
OpenAIRecorder(payloads, cut)     == ReadBack(payloads, cut)
MsafRecorder(payloads, cut)       == ReadBack(payloads, cut)
AdkRecorder(payloads, cut)        == ReadBack(payloads, cut)
McpRecorder(payloads, cut)        == ReadBack(payloads, cut)
A2aRecorder(payloads, cut)        == ReadBack(payloads, cut)

Recorder(payloads, cut) ==
  CASE framework = "langgraph"  -> LangGraphRecorder(payloads, cut)
    [] framework = "llamaindex" -> LlamaIndexRecorder(payloads, cut)
    [] framework = "crewai"     -> CrewAIRecorder(payloads, cut)
    [] framework = "openai"     -> OpenAIRecorder(payloads, cut)
    [] framework = "msaf"       -> MsafRecorder(payloads, cut)
    [] framework = "adk"        -> AdkRecorder(payloads, cut)
    [] framework = "mcp"        -> McpRecorder(payloads, cut)
    [] framework = "a2a"        -> A2aRecorder(payloads, cut)

------------------------------------------------------------------------------
(* The durable interceptor, external *)

\* pause: an approval already stored under the id is kept or begun anew.
Pause(tool, args, effect) ==
  LET x == ArgsContentId(args)
      fresh == [status |-> "pending", tool |-> tool, effect |-> effect, by |-> 0]
  IN store' \in {[store EXCEPT ![x] = fresh]}
                  \cup (IF store[x].status = "absent" THEN {} ELSE {store})

\* The effect a fresh approval grants.
MintEffect(effect) == IF Ceiling = NoEffect THEN effect ELSE Ceiling

\* resume with an approval minted for `shown`, on the store st: refused unless the call is
\* pending and the approval covers its effect.  Returns the new store and approvals.  The
\* approval holds the content id; whom it was asked for, tool and arguments, is history.
Resume(st, x, tool, shown, status) ==
  IF st[x].status = "pending" /\ MintEffect(st[x].effect) >= st[x].effect
  THEN [ok |-> TRUE, by |-> Len(minted) + 1,
        store |-> [st EXCEPT ![x] = [@ EXCEPT !.status = status, !.by = Len(minted) + 1]],
        minted |-> Append(minted, [binds |-> ArgsContentId(shown), tool |-> tool, args |-> shown])]
  ELSE [ok |-> FALSE, by |-> 0, store |-> st, minted |-> minted]

Reject(st, x) == [st EXCEPT ![x] = [@ EXCEPT !.status = "rejected"]]

------------------------------------------------------------------------------
(* One guarded call *)

Set(c, fields) == call' = [call EXCEPT ![c] = fields]
End(c) == Set(c, Idle)

Begun(tool, args, s, pc, effect) ==
  [pc |-> pc, tool |-> tool, args |-> args, session |-> s, effect |-> effect, by |-> 0,
   final |-> args, side |-> "client"]

\* Capture, authorize, and pause where the effect calls for an approval: the common head
\* of every guard that waits in its frame.
OnEffectingAction(c, tool, args, s) ==
  LET effect == ResolveEffect(tool, args) IN
  /\ call[c].pc = "idle" /\ begun < MaxRuns /\ begun' = begun + 1
  /\ Capture("call", s, tool, args, effect)
  /\ CASE ~Authorized(effect) -> End(c) /\ UNCHANGED store
       [] Authorized(effect) /\ Approves /\ RequiresApproval(effect) ->
            Pause(tool, args, effect) /\ Set(c, Begun(tool, args, s, "wait", effect))
       [] OTHER -> Set(c, Begun(tool, args, s, "run", effect)) /\ UNCHANGED store
  /\ UNCHANGED <<framework, gating, life, minted, ran>>

LangGraphCall(c, tool, args, s) == framework = "langgraph" /\ OnEffectingAction(c, tool, args, s)
LlamaIndexCall(c, tool, args, s) == framework = "llamaindex" /\ OnEffectingAction(c, tool, args, s)
CrewBeforeHook(c, tool, args, s) == framework = "crewai" /\ OnEffectingAction(c, tool, args, s)
AdkBeforeTool(c, tool, args, s) == framework = "adk" /\ OnEffectingAction(c, tool, args, s)
McpCallTool(c, tool, args, s) == framework = "mcp" /\ OnEffectingAction(c, tool, args, s)
A2aBefore(c, tool, args, s) == framework = "a2a" /\ OnEffectingAction(c, tool, args, s)

\* Mutant: an edit is approved for the arguments that were shown first.
ArgsToApproveOriginal(c, decision) == call[c].args

\* _decision_to_outcome: the arguments the approval is minted for.
ArgsToApprove(c, decision) == IF decision = "yes" THEN call[c].args ELSE decision

Decided(c, decision, st) ==
  LET k == call[c]
      x == ArgsContentId(k.args)
      shown == ArgsToApprove(c, decision)
      final == IF decision = "yes" THEN k.args ELSE decision
      r == Resume(st, x, k.tool, shown, IF decision = "yes" THEN "approved" ELSE "edited")
  IN CASE decision = "malformed" -> End(c) /\ store' = st /\ UNCHANGED minted
       [] decision = "no" -> End(c) /\ store' = (IF st[x].status = "pending" THEN Reject(st, x) ELSE st)
                             /\ UNCHANGED minted
       [] OTHER -> /\ store' = r.store /\ minted' = r.minted
                   /\ IF r.ok THEN Set(c, [k EXCEPT !.pc = "run", !.by = r.by, !.final = final])
                      ELSE End(c)

\* The decision reaches the waiting frame.  A framework that replays runs the frame from
\* its top, with a second record of the call and a second pause, before the decision is
\* looked at.  `decision` is "yes", "no", "malformed" or other arguments.
InFrameDecision(c, decision) ==
  LET k == call[c]
      x == ArgsContentId(k.args)
      fresh == [status |-> "pending", tool |-> k.tool, effect |-> k.effect, by |-> 0]
  IN
  /\ Adapter[framework].inFrame /\ k.pc = "wait"
  /\ \/ Decided(c, decision, store) /\ UNCHANGED <<chain, last>>
     \/ /\ Adapter[framework].replays
        /\ Capture("call", k.session, k.tool, k.args, k.effect)
        /\ \E st \in {store, [store EXCEPT ![x] = fresh]} : Decided(c, decision, st)
  /\ UNCHANGED <<framework, gating, life, ran, begun>>

\* Mutant: a tool that raised is tried again under the same approval.
ForwardRetries(c) ==
  /\ call[c].pc = "run"
  /\ ran' = Append(ran, [tool |-> call[c].tool, args |-> call[c].final, by |-> call[c].by,
                         shown |-> call[c].args, effect |-> call[c].effect, at |-> Len(chain)])
  /\ Len(ran) < MaxRuns
  /\ Set(c, [call[c] EXCEPT !.pc = "ran"]) \/ UNCHANGED call
  /\ UNCHANGED <<framework, gating, chain, last, life, store, minted, begun>>

\* The tool runs with the final arguments.  It may raise: then no receipt follows, except
\* under CrewAI, whose after hook is called in any case.
Forward(c) ==
  /\ call[c].pc = "run"
  /\ ran' = Append(ran, [tool |-> call[c].tool, args |-> call[c].final, by |-> call[c].by,
                         shown |-> call[c].args, effect |-> call[c].effect, at |-> Len(chain)])
  /\ \/ call[c].side = "client" /\ Set(c, [call[c] EXCEPT !.pc = "ran"])
     \/ framework # "crewai" /\ End(c)
  /\ UNCHANGED <<framework, gating, chain, last, life, store, minted, begun>>

\* The receipt, with the effect of the call (A2A classifies the answer anew).  CrewAI's
\* after hook swallows what goes wrong.
SignReceipt(c) ==
  LET k == call[c] IN
  /\ k.pc = "ran"
  /\ \/ Capture("result", k.session, k.tool, k.final, k.effect)
     \/ framework = "crewai" /\ UNCHANGED <<chain, last>>
  /\ End(c)
  /\ UNCHANGED <<framework, gating, life, store, minted, ran, begun>>

\* on_event_callback: an ADK event is recorded as unclassified.
AdkEvent(s) ==
  /\ framework = "adk" /\ begun < MaxRuns /\ begun' = begun + 1
  /\ Capture("event", s, "none", "none", Destructive)
  /\ UNCHANGED <<framework, gating, life, store, minted, call, ran>>

\* A2A's request handler: an inbound message is recorded, held to the grant, handed on.
A2aOnMessage(c, tool, args, s) ==
  LET effect == ResolveEffect(tool, args) IN
  /\ framework = "a2a" /\ call[c].pc = "idle" /\ begun < MaxRuns /\ begun' = begun + 1
  /\ Capture("call", s, tool, args, effect)
  /\ IF Authorized(effect) THEN Set(c, Begun(tool, args, s, "run", effect)) ELSE End(c)
  /\ UNCHANGED <<framework, gating, life, store, minted, ran>>

\* record_server_tool_call: the server side of MCP records a call and hands it to the
\* operator's handler.  There is no grant on this side, and no record of the answer.
RecordServerToolCall(c, tool, args, s) ==
  /\ framework = "mcp" /\ ~gating /\ call[c].pc = "idle" /\ begun < MaxRuns /\ begun' = begun + 1
  /\ Capture("call", s, tool, args, ResolveEffect(tool, args))
  /\ Set(c, [Begun(tool, args, s, "run", ResolveEffect(tool, args)) EXCEPT !.side = "server"])
  /\ UNCHANGED <<framework, gating, life, store, minted, ran>>

\* OpenAI: needs_approval makes the SDK raise an interruption.  Nothing is recorded yet.
OpenAIAsk(c, tool, args, s) ==
  LET effect == ResolveEffect(tool, args) IN
  /\ framework = "openai" /\ call[c].pc = "idle" /\ begun < MaxRuns /\ begun' = begun + 1
  /\ Set(c, Begun(tool, args, s, IF RequiresApproval(effect) THEN "wait" ELSE "enter", effect))
  /\ UNCHANGED <<framework, gating, chain, last, life, store, minted, ran>>

\* resolve_interruption: pause, resume, and only then state.approve.  On a refusal the
\* interruption stays open.
OpenAIResolve(c, decision) ==
  LET k == call[c]
      x == ArgsContentId(k.args)
      fresh == [status |-> "pending", tool |-> k.tool, effect |-> k.effect, by |-> 0]
  IN
  /\ framework = "openai" /\ k.pc = "wait" /\ decision \in {"yes", "no"}
  /\ \E st \in {[store EXCEPT ![x] = fresh]} \cup (IF store[x] = Absent THEN {} ELSE {store}) :
       LET r == Resume(st, x, k.tool, k.args, "approved") IN
       IF decision = "no"
       THEN /\ store' = (IF st[x].status = "pending" THEN Reject(st, x) ELSE st)
            /\ UNCHANGED <<minted, call>>
       ELSE /\ store' = r.store /\ minted' = r.minted
            /\ IF r.ok THEN Set(c, [k EXCEPT !.pc = "enter", !.by = r.by]) ELSE UNCHANGED call
  /\ UNCHANGED <<framework, gating, chain, last, life, ran, begun>>

\* The wrapped tool body: record and authorize, then run.
OpenAITool(c) ==
  LET k == call[c] IN
  /\ framework = "openai" /\ k.pc = "enter"
  /\ Capture("call", k.session, k.tool, k.args, k.effect)
  /\ IF Authorized(k.effect) THEN Set(c, [k EXCEPT !.pc = "run"]) ELSE End(c)
  /\ UNCHANGED <<framework, gating, life, store, minted, ran, begun>>

\* MSAF's process is run from its top on every invocation: it reads the stored status.
MsafProcess(c, tool, args, s) ==
  LET effect == ResolveEffect(tool, args)
      held == store[ArgsContentId(args)]
      gated == RequiresApproval(effect)
  IN
  /\ framework = "msaf" /\ call[c].pc = "idle" /\ begun < MaxRuns /\ begun' = begun + 1
  /\ CASE gated /\ held = Absent ->
            Pause(tool, args, effect) /\ End(c) /\ UNCHANGED <<chain, last>>
       [] gated /\ held # Absent /\ held.status # "approved" ->
            End(c) /\ UNCHANGED <<store, chain, last>>
       [] OTHER ->
            /\ Capture("call", s, tool, args, effect)
            /\ IF Authorized(effect)
               THEN Set(c, [Begun(tool, args, s, "run", effect) EXCEPT !.by = IF gated THEN held.by ELSE 0])
               ELSE End(c)
            /\ UNCHANGED store
  /\ UNCHANGED <<framework, gating, life, minted, ran>>

MsafResolve(x, args, decision) ==
  LET r == Resume(store, x, store[x].tool, args, "approved") IN
  /\ framework = "msaf" /\ x = ArgsContentId(args) /\ store[x] # Absent
  /\ IF decision = "no"
     THEN store[x].status = "pending" /\ store' = Reject(store, x) /\ UNCHANGED minted
     ELSE r.ok /\ store' = r.store /\ minted' = r.minted
  /\ UNCHANGED <<framework, gating, chain, last, life, call, ran, begun>>

\* The process dies: what is in memory is lost.  A frame that waits in a checkpointed
\* framework, and an open interruption, are found again; everything else is gone.
Restart ==
  /\ life < MaxRestarts /\ life' = life + 1
  /\ last' = [s \in Sessions |-> 0]
  /\ call' = [c \in Calls |->
       IF call[c].pc = "wait" /\ framework \in {"langgraph", "llamaindex", "openai"} THEN call[c] ELSE Idle]
  /\ UNCHANGED <<framework, gating, chain, store, minted, ran, begun>>

Decisions == {"yes", "no", "malformed"} \cup (IF Adapter[framework].edits THEN Args ELSE {})

GuardsNext ==
  \/ \E c \in Calls, tool \in Tools, args \in Args, s \in Sessions :
       \/ LangGraphCall(c, tool, args, s) \/ LlamaIndexCall(c, tool, args, s)
       \/ CrewBeforeHook(c, tool, args, s) \/ AdkBeforeTool(c, tool, args, s)
       \/ McpCallTool(c, tool, args, s) \/ A2aBefore(c, tool, args, s)
       \/ A2aOnMessage(c, tool, args, s) \/ RecordServerToolCall(c, tool, args, s)
       \/ OpenAIAsk(c, tool, args, s) \/ MsafProcess(c, tool, args, s)
  \/ \E c \in Calls : \E d \in Decisions : InFrameDecision(c, d) \/ OpenAIResolve(c, d)
  \/ \E c \in Calls : Forward(c) \/ SignReceipt(c) \/ OpenAITool(c)
  \/ \E args \in Args, d \in {"yes", "no"} : MsafResolve(ArgsContentId(args), args, d)
  \/ \E s \in Sessions : AdkEvent(s)
  \/ Restart

GuardsSpec == GuardsInit /\ [][GuardsNext]_guardvars

------------------------------------------------------------------------------
Gated(r) == RequiresApproval(r.effect) /\ Approves
Runs == DOMAIN ran

(* A gated tool runs only under an approval that binds the content id of the *)
(* arguments it runs with, edited ones included; and the human who gave it   *)
(* was asked for that very tool and those very arguments, because the call   *)
(* waits for its own decision (on_effecting_action, before_tool_call_hook,   *)
(* resolve_interruption).  MSAF looks the approval up by content id alone:   *)
(* there it is good for any tool, and for other arguments that encode alike, *)
(* True and 1, 1.5 and "1.5", though msaf_adapter.py:237-239 binds it to the *)
(* exact arguments.                                                          *)
RunsUnderItsApproval ==
  \A i \in Runs : Gated(ran[i]) =>
    /\ ran[i].by \in DOMAIN minted
    /\ minted[ran[i].by].binds = ArgsContentId(ran[i].args)
    /\ framework # "msaf" => minted[ran[i].by].tool = ran[i].tool /\ minted[ran[i].by].args = ran[i].args

(* One approval, one run, with replayed frames, concurrent calls with equal  *)
(* arguments and restarts in between: "single-use, args-bound".  MSAF is     *)
(* left out: its approvals are not used up by running.                       *)
OneRunPerApproval ==
  framework # "msaf" =>
    \A i, j \in Runs : Gated(ran[i]) /\ Gated(ran[j]) /\ ran[i].by = ran[j].by => i = j

(* msaf_adapter.py:120: "else approved: fall through to the real path below, *)
(* exactly once".                                                            *)
MsafRunsOnce == \A i, j \in Runs : Gated(ran[i]) /\ Gated(ran[j]) /\ ran[i].by = ran[j].by => i = j

(* The records of a session in one life of the process form one chain: each  *)
(* names as its cause the latest one before it, or none when it is the first *)
(* of that life, however calls and answers interleave (ChainRecorder.append  *)
(* and last_cause).                                                          *)
OfOneLife(j, k) == chain[j].session = chain[k].session /\ chain[j].life = chain[k].life

ChainIsLinear ==
  \A k \in DOMAIN chain :
    /\ chain[k].cause # 0 => chain[k].cause \in 1..(k - 1) /\ OfOneLife(chain[k].cause, k)
    /\ \A j \in 1..(k - 1) : OfOneLife(j, k) => j <= chain[k].cause

(* No tool runs unrecorded or beyond the grant: its call record, with the    *)
(* effect that was authorized, is in the stream first; and a receipt is for  *)
(* a run of its own ("no receipt claiming success" for a refused call).      *)
RecordedAndWithinGrant ==
  /\ \A i \in Runs :
       /\ gating => ran[i].effect <= Cap
       /\ \E k \in 1..ran[i].at : /\ chain[k].what = "call" /\ chain[k].tool = ran[i].tool
                                  /\ chain[k].args = ran[i].shown /\ chain[k].effect = ran[i].effect
  /\ \A tool \in Tools, args \in Args :
       Cardinality({k \in DOMAIN chain : chain[k].what = "result" /\ chain[k].tool = tool /\ chain[k].args = args})
         <= Cardinality({i \in Runs : ran[i].tool = tool /\ ran[i].args = args})

(* What the recorder wrote reads back record by record, and a stream that    *)
(* was cut off, wherever, never reads as something else: it is refused or is *)
(* a prefix of the records (ChainRecorder.read_all).                         *)
StreamReadsBack ==
  LET written == [i \in DOMAIN chain |-> <<i, i>>] IN
  \A cut \in 0..Len(Written(written)) :
    LET got == Recorder(written, cut) IN
    IF cut % 3 = 0 THEN got = SubSeq(written, 1, cut \div 3) ELSE got[Len(got)] = "truncated"

(* In every framework a gated tool runs within its grant and under an        *)
(* approval, in one linear record that reads back; in all but MSAF the       *)
(* approval is for that tool and those arguments, and for one run            *)
(* (on_effecting_action, resume, ChainRecorder).                             *)
GuardedRuns ==
  /\ RunsUnderItsApproval
  /\ OneRunPerApproval
  /\ ChainIsLinear
  /\ RecordedAndWithinGrant
  /\ StreamReadsBack
==============================================================================
