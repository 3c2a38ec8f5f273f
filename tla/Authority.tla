------------------------------ MODULE Authority ------------------------------
(***************************************************************************)
(* Who may do what: delegation chains (delegation.py), the effect lattice  *)
(* (policy.py), and the gates that spend an approval of one shared ledger: *)
(* destructive actions (delegation.py), charges (payment.py), tool calls   *)
(* (mcp.py, and the bridge that carries MCP's JSON into them) and          *)
(* consume_approval (approval.py).                                         *)
(*                                                                         *)
(* A content id is the thing it identifies.  The ledger is used by its     *)
(* contract (SingleUse): consume succeeds once per approval.               *)
(***************************************************************************)
EXTENDS Integers, FiniteSets, FiniteSetsExt, SequencesExt

CONSTANTS
  Anchors,          \* trusted root issuers
  Issuers,          \* keys that sign grants, anchors included
  Bodies,           \* grant bodies they sign (maps; some malformed)
  Actions,          \* [signer, effect, scope] that agents attempt
  Charges,          \* payment imports
  ToolDefs,         \* MCP tool definitions: [name, annotations]
  Approvals,        \* approval records somebody may sign
  Human, Impostor,  \* the approver's key, and another
  Segments,         \* of which scopes are made
  MaxTime,          \* bound on the clock
  MaxGrants,        \* bound on grants presented
  MaxInputs         \* bound on grants, revocations, and approvals and tool calls counted twice

ASSUME AuthorityConstants == MaxTime \in Nat /\ \A r \in Approvals : r.not_after \in Int

\* The numbers of a grant are unsigned, and effects and scopes are what their types say.
ASSUME DelegationConstants ==
  /\ MaxGrants \in Nat
  /\ \A b \in Bodies : (\A k \in DOMAIN b \cap 2..5 : b[k] \in Nat) /\ (6 \in DOMAIN b => b[6] \in Seq(Segments))
  /\ \A x \in Actions : x.effect \in Nat /\ x.scope \in Seq(Segments)

VARIABLES
  today,      \* the verifier's position
  grants,     \* GrantSet: the grants that verified
  revoked,    \* grant id -> position of its revocation
  approvals,  \* approvals signed, [record, key]
  spent,      \* approval ids the ledger has consumed
  performed,  \* what the gates let through (history)
  bridged     \* the last carried tool call, as sent and as received
authvars == <<today, grants, revoked, approvals, spent, performed, bridged>>

ReadOnly == 0
IdempotentWrite == 1
NonIdempotentWrite == 2
Destructive == 3

Authorizes(ceiling, action) == action <= ceiling

------------------------------------------------------------------------------
(* Delegation.  A scope is the sequence of its segments; << >> is no scope.  *)

GrantFromBody(b) ==
  IF DOMAIN b \subseteq 1..6 /\ 1..5 \subseteq DOMAIN b /\ b[2] <= Destructive
  THEN [verdict |-> "ok", subject |-> b[1], effect_cap |-> b[2], max_depth |-> b[3],
        not_before |-> b[4], not_after |-> b[5], scope |-> IF 6 \in DOMAIN b THEN b[6] ELSE << >>]
  ELSE [verdict |-> "ChainBroken"]

\* o = [key, signer, kind, effect, body, causes]: signed with key, naming signer, of a channel, kind
\* and tier ("grant" are those of a DelegationGrant) and with an effect of its own.
VerifyGrantObject(o, key) ==
  IF o.key # key THEN "BadSignature"
  ELSE IF o.kind # "grant" \/ o.effect # NonIdempotentWrite THEN "ChainBroken"
  ELSE IF o.signer # key THEN "SignerMismatch"
  ELSE GrantFromBody(o.body).verdict

Resolved(o) == [issuer |-> o.key, grant |-> GrantFromBody(o.body), causes |-> o.causes]

RevokedAt(g) == g \in DOMAIN revoked /\ revoked[g] <= today

\* Mutant: any scope that shares the first segment.
ScopeFirstSegment(child, parent) == parent = << >> \/ (child # << >> /\ child[1] = parent[1])

ScopeContained(child, parent) == parent = << >> \/ (child # << >> /\ IsPrefix(parent, child))

MatchingCauses(causes, subject) == {g \in grants \cap causes : g.grant.subject = subject}

\* What is tested of one grant of the walk, in order.
CheckHop(st) ==
  LET g == st.g.grant IN
  IF st.g \in st.visited                          THEN "ChainBroken"
  ELSE IF today < g.not_before                    THEN "GrantNotYetValid"
  ELSE IF today > g.not_after                     THEN "GrantExpired"
  ELSE IF RevokedAt(st.g)                         THEN "GrantRevoked"
  ELSE IF ~Authorizes(g.effect_cap, st.effect)    THEN "CapExceedsParent"
  ELSE IF ~ScopeContained(st.scope, g.scope)      THEN "CapExceedsParent"
  ELSE IF st.pos > g.max_depth                    THEN "DelegationDepthExceeded"
  ELSE "ok"

Hop(st) ==
  LET parents == MatchingCauses(st.g.causes, st.g.issuer)
      p == CHOOSE x \in parents : TRUE
  IN IF st.verdict # "walking" THEN st
     ELSE IF CheckHop(st) # "ok" THEN [st EXCEPT !.verdict = CheckHop(st)]
     ELSE IF Cardinality(parents) > 1 THEN [st EXCEPT !.verdict = "ChainBroken"]
     ELSE IF parents = {} THEN [st EXCEPT !.verdict = IF st.g.issuer \in Anchors THEN "ok" ELSE "UntrustedChainRoot"]
     ELSE IF p.grant.max_depth = 0 \/ st.g.grant.max_depth >= p.grant.max_depth
       THEN [st EXCEPT !.verdict = "DelegationDepthExceeded"]
     ELSE [st EXCEPT !.g = p, !.effect = st.g.grant.effect_cap, !.scope = st.g.grant.scope,
                     !.pos = @ + 1, !.visited = @ \cup {st.g}]

\* The walk from the leaf to the root; visited bounds it by the number of grants.
Walk(start, n) == LET at[i \in 0..n] == IF i = 0 THEN start ELSE Hop(at[i - 1]) IN at[n]

VerifyChain(action, causes) ==
  LET leaves == MatchingCauses(causes, action.signer)
      start == [verdict |-> "walking", g |-> CHOOSE x \in leaves : TRUE, effect |-> action.effect,
                scope |-> action.scope, pos |-> 0, visited |-> {}]
  IN IF leaves = {} THEN "EffectNotAuthorized"
     ELSE IF Cardinality(leaves) > 1 THEN "ChainBroken"
     ELSE Walk(start, Cardinality(grants) + 1).verdict

------------------------------------------------------------------------------
(* Approvals *)

VerifyApproval(a, cid) ==
  CASE a.key # Human -> "BadSignature"
    [] a.record.approves # cid -> "ApprovalMismatch"
    [] today > a.record.not_after -> "ApprovalExpired"
    [] OTHER -> "ok"

Consumable(a) == a.record \notin spent

\* Mutant: an approval may be charged again.
ChargeVerdictReusable(p, a) ==
  CASE p.format \notin 1..3 -> "UnknownPaymentFormat"
    [] VerifyApproval(a, p) # "ok" -> VerifyApproval(a, p)
    [] ~Authorizes(a.record.grant, NonIdempotentWrite) -> "ApprovalRequired"
    [] OTHER -> "ok"

\* A charge binding has the import's fields, with the payload's id for the payload.
ChargeVerdict(p, a) ==
  CASE p.format \notin 1..3 -> "UnknownPaymentFormat"
    [] VerifyApproval(a, p) # "ok" -> VerifyApproval(a, p)
    [] ~Authorizes(a.record.grant, NonIdempotentWrite) -> "ApprovalRequired"
    [] ~Consumable(a) -> "AlreadyConsumed"
    [] OTHER -> "ok"

DestructiveVerdict(action, causes, a) ==
  CASE VerifyChain(action, causes) # "ok" -> VerifyChain(action, causes)
    [] VerifyApproval(a, action) # "ok" -> "ApprovalRequired"
    [] ~Authorizes(a.record.grant, action.effect) -> "ApprovalRequired"
    [] ~Consumable(a) -> "AlreadyConsumed"
    [] OTHER -> "ok"

\* consume_approval also refuses a grant outside the lattice.
ConsumeApprovalVerdict(a, cid, effect) ==
  CASE VerifyApproval(a, cid) # "ok" -> VerifyApproval(a, cid)
    [] a.record.grant > Destructive \/ ~Authorizes(a.record.grant, effect) -> "ApprovalRequired"
    [] ~Consumable(a) -> "AlreadyConsumed"
    [] OTHER -> "ok"

------------------------------------------------------------------------------
(* MCP tool calls.  Annotations are the hints that are present (1 readOnly,  *)
(* 2 destructive, 3 idempotent, 4 openWorld).                                *)

AnnotationsToValue(ann) == [k \in DOMAIN ann |-> IF ann[k] THEN 1 ELSE 0]

AnnotationsFromValue(v) ==
  IF DOMAIN v \subseteq 1..4 /\ \A k \in DOMAIN v : v[k] \in {0, 1}
  THEN [verdict |-> "ok", hints |-> [k \in DOMAIN v |-> v[k] = 1]]
  ELSE [verdict |-> "MalformedAnnotation"]

\* Mutant: an absent destructiveHint counts as false.
MapAnnotationsMild(ann) ==
  LET hint(k, default) == IF k \in DOMAIN ann THEN ann[k] ELSE default
  IN IF hint(1, FALSE) THEN ReadOnly ELSE IF hint(2, FALSE) THEN Destructive
     ELSE IF hint(3, FALSE) THEN IdempotentWrite ELSE NonIdempotentWrite

MapAnnotationsToEffect(ann) ==
  LET hint(k, default) == IF k \in DOMAIN ann THEN ann[k] ELSE default
  IN IF hint(1, FALSE) THEN ReadOnly ELSE IF hint(2, TRUE) THEN Destructive
     ELSE IF hint(3, FALSE) THEN IdempotentWrite ELSE NonIdempotentWrite

ResolveEnforcedEffect(mapped, declared) ==
  CASE declared > Destructive -> "EffectOutsideLattice"
    [] declared < mapped -> "EffectUnderDeclared"
    [] OTHER -> "ok"

\* The body of a signed call, {1: tool, 2: args, 3: annotations}.
ToolCall(def, args, ann) == [k \in 1..3 |-> <<def, args, AnnotationsToValue(ann)>>[k]]

ToolCallFromBody(b) ==
  IF DOMAIN b # 1..3 THEN [verdict |-> "ToolCallMalformed"]
  ELSE LET ann == AnnotationsFromValue(b[3]) IN
    IF ann.verdict # "ok" THEN [verdict |-> ann.verdict]
    ELSE [verdict |-> "ok", tool |-> b[1], args |-> b[2], annotations |-> ann.hints]

\* The binding an approval names: the two ids, whatever the annotations.
CallBinding(tc) == [tool_id |-> tc.tool, args_id |-> tc.args]

\* o = [effect, body], its envelope already verified.
VerifyToolCall(o) ==
  LET tc == ToolCallFromBody(o.body)
      mapped == MapAnnotationsToEffect(tc.annotations)
  IN CASE tc.verdict # "ok" -> [verdict |-> tc.verdict]
       [] ResolveEnforcedEffect(mapped, o.effect) # "ok" -> [verdict |-> ResolveEnforcedEffect(mapped, o.effect)]
       [] OTHER -> [verdict |-> "ok", tool_call |-> tc, mapped |-> mapped, enforced |-> o.effect]

CallVerdict(r, a) ==
  LET v == VerifyApproval(a, CallBinding(r.tool_call)) IN
  CASE v # "ok" -> IF v = "ApprovalMismatch" THEN "ApprovalRequired" ELSE v
    [] ~Authorizes(a.record.grant, r.enforced) -> "ApprovalRequired"
    [] ~Consumable(a) -> "AlreadyConsumed"
    [] OTHER -> "ok"

\* The bridge: a hint that is no JSON boolean refuses the whole definition.
AnnotationsFromMcp(def) ==
  IF \E k \in DOMAIN def.annotations : def.annotations[k] \notin BOOLEAN
  THEN [verdict |-> "ForeignToolNotJSON"] ELSE [verdict |-> "ok", hints |-> def.annotations]

CarryToolCall(def, name, args, declared) ==
  LET ann == AnnotationsFromMcp(def)
      mapped == MapAnnotationsToEffect(ann.hints)
      effect == IF declared = -1 THEN mapped ELSE declared
  IN CASE name # def.name -> [verdict |-> "ToolNameMismatch"]
       [] ann.verdict # "ok" -> [verdict |-> ann.verdict]
       [] effect > Destructive -> [verdict |-> "EffectOutsideLattice"]
       [] OTHER -> [verdict |-> "ok", object |-> [effect |-> effect, body |-> ToolCall(def, args, ann.hints)]]

\* What a body may carry instead of a definition and of arguments: octets that are no JSON.
NoDefinition == [octets |-> "binary"]
NoArguments == "binary"

\* The definition and the arguments are read back out of the signed body.
ReceiveToolCall(o) ==
  LET r == VerifyToolCall(o) IN
  IF r.verdict # "ok" THEN r
  ELSE IF r.tool_call.tool = NoDefinition THEN [verdict |-> "ForeignToolNotJSON"]
  ELSE IF r.tool_call.args = NoArguments THEN [verdict |-> "ForeignBodyNotJSON"]
  ELSE [verdict |-> "ok", tool_definition |-> r.tool_call.tool, arguments |-> r.tool_call.args,
        annotation_mapped |-> r.mapped, enforced |-> r.enforced, resolved |-> r]

------------------------------------------------------------------------------
NoCall == [verdict |-> "none"]
NoBridge == [sent |-> NoCall, got |-> NoCall]

AuthInit ==
  /\ today = 0 /\ grants = {} /\ revoked = << >> /\ approvals = {} /\ spent = {}
  /\ performed = {} /\ bridged = NoBridge

Inputs == Cardinality(grants) + Cardinality(DOMAIN revoked) + 2 * Cardinality(approvals)
            + (IF bridged = NoBridge THEN 0 ELSE 2)

Tick == today < MaxTime /\ today' = today + 1 /\ UNCHANGED <<grants, revoked, approvals, spent, performed, bridged>>

\* A grant is signed and handed to the verifier, which checks it under the key of `key`.
PresentGrant(o, key) ==
  /\ Cardinality(grants) < MaxGrants /\ Inputs < MaxInputs
  /\ grants' = IF VerifyGrantObject(o, key) = "ok" THEN grants \cup {Resolved(o)} ELSE grants
  /\ UNCHANGED <<today, revoked, approvals, spent, performed, bridged>>

Revoke(g) ==
  /\ g \notin DOMAIN revoked /\ Inputs < MaxInputs
  /\ revoked' = [x \in DOMAIN revoked \cup {g} |-> IF x = g THEN today ELSE revoked[x]]
  /\ UNCHANGED <<today, grants, approvals, spent, performed, bridged>>

SignApproval(record, key) ==
  /\ Inputs + 2 <= MaxInputs
  /\ approvals' = approvals \cup {[record |-> record, key |-> key]}
  /\ UNCHANGED <<today, grants, revoked, spent, performed, bridged>>

Spend(a, gate, what, effect) ==
  /\ spent' = spent \cup {a.record}
  /\ performed' = performed \cup {[gate |-> gate, what |-> what, effect |-> effect, by |-> a, at |-> today,
                                   again |-> a.record \in spent]}
  /\ UNCHANGED <<today, grants, revoked, approvals, bridged>>

AuthorizeDestructive(action, a) ==
  DestructiveVerdict(action, grants, a) = "ok" /\ Spend(a, "destructive", action, action.effect)

AuthorizeCharge(p, a) == ChargeVerdict(p, a) = "ok" /\ Spend(a, "charge", p, NonIdempotentWrite)

AuthorizeCall(a) ==
  /\ bridged.got.verdict = "ok" /\ CallVerdict(bridged.got.resolved, a) = "ok"
  /\ Spend(a, "call", CallBinding(bridged.got.resolved.tool_call), bridged.got.enforced)

ConsumeApproval(action, a) ==
  ConsumeApprovalVerdict(a, action, action.effect) = "ok" /\ Spend(a, "consume", action, action.effect)

\* An MCP call is carried over and received.
BridgeCall(def, name, args, declared) ==
  /\ Inputs + 2 <= MaxInputs
  /\ LET c == CarryToolCall(def, name, args, declared) IN
     bridged' = [sent |-> [verdict |-> c.verdict, def |-> def, args |-> args, name |-> name],
                 got |-> IF c.verdict = "ok" THEN ReceiveToolCall(c.object) ELSE NoCall]
  /\ UNCHANGED <<today, grants, revoked, approvals, spent, performed>>

\* Somebody signs a call body by hand.
HandmadeCall(def, args, value, effect) ==
  /\ Inputs + 2 <= MaxInputs
  /\ bridged' = [sent |-> NoCall,
                 got |-> ReceiveToolCall([effect |-> effect, body |-> [k \in 1..3 |-> <<def, args, value>>[k]]])]
  /\ UNCHANGED <<today, grants, revoked, approvals, spent, performed>>

Chains == {{}} \cup {{g} : g \in grants} \cup {grants}

\* Annotations as a peer may put them on the wire, and the tool they are put on.
HintValues == {[k \in ks |-> n] : ks \in {{}, {1}, {2}, {2, 3}, {5}}, n \in 0..2}
SomeDef == CHOOSE d \in ToolDefs : TRUE

AuthNext ==
  \/ Tick
  \/ \E k, s \in Issuers, kind \in {"grant", "other"}, e \in {IdempotentWrite, NonIdempotentWrite},
        b \in Bodies, cs \in Chains :
       (IF cs = {} THEN TRUE ELSE k = s /\ kind = "grant" /\ MatchingCauses(cs, k) # {})
          /\ PresentGrant([key |-> k, signer |-> s, kind |-> kind, effect |-> e, body |-> b, causes |-> cs], k)
  \/ \E g \in grants : Revoke(g)
  \/ \E r \in Approvals, key \in {Human, Impostor} : SignApproval(r, key)
  \/ \E action \in Actions, a \in approvals : AuthorizeDestructive(action, a) \/ ConsumeApproval(action, a)
  \/ \E p \in Charges, a \in approvals : AuthorizeCharge(p, a)
  \/ \E a \in approvals : AuthorizeCall(a)
  \/ /\ grants = {} /\ bridged = NoBridge
     /\ \/ \E def \in ToolDefs, name \in {d.name : d \in ToolDefs}, declared \in {-1, 2, 4} :
              BridgeCall(def, name, "args", declared)
        \/ \E def \in {SomeDef, NoDefinition}, args \in {"args", NoArguments}, effect \in 0..3, v \in HintValues :
             HandmadeCall(def, args, v, effect)

AuthSpec == AuthInit /\ [][AuthNext]_authvars

------------------------------------------------------------------------------
Paths == UNION {[1..n -> grants] : n \in 1..MaxGrants}

(* Authority never grows on the way down, and reaches all the way.  An agent *)
(* may act if and only if one unambiguous path of grants leads from a trust  *)
(* anchor to it, all of them in force at this moment, with the action inside *)
(* the effect and the scope of every one (not only of the nearest), each     *)
(* grant inside the one above it, no more hops below a grant than it allows  *)
(* and each allowing fewer than its parent (verify_chain).                   *)
AuthorityNeverGrows ==
  \A action \in Actions, causes \in {grants} \cup {{g} : g \in grants} :
    VerifyChain(action, causes) = "ok" <=>
      \E path \in Paths : LET n == Len(path)  g(i) == path[i].grant IN
        /\ {x \in causes : x.grant.subject = action.signer} = {path[1]}
        /\ \A i \in 1..(n - 1) : {x \in path[i].causes \cap grants : x.grant.subject = path[i].issuer} = {path[i + 1]}
        /\ {x \in path[n].causes \cap grants : x.grant.subject = path[n].issuer} = {} /\ path[n].issuer \in Anchors
        /\ \A i \in 1..n :
             /\ today \in g(i).not_before..g(i).not_after /\ (path[i] \in DOMAIN revoked => revoked[path[i]] > today)
             /\ action.effect <= g(i).effect_cap /\ (g(i).scope = << >> \/ IsPrefix(g(i).scope, action.scope))
             /\ i - 1 <= g(i).max_depth
             /\ \A j \in 1..(i - 1) : /\ g(j).effect_cap <= g(i).effect_cap /\ g(j).max_depth < g(i).max_depth
                                      /\ g(i).scope # << >> => g(j).scope # << >> /\ IsPrefix(g(i).scope, g(j).scope)

(* One approval, one act, whichever of the four gates it goes through: what  *)
(* was performed is exactly what the human signed for, in time and within    *)
(* the granted effect, the ledger shows exactly the approvals of what was    *)
(* performed, and a refused attempt costs none.                              *)
OneActPerApproval ==
  /\ \A e \in performed :
       /\ ~e.again /\ e.by.key = Human /\ e.by.record.approves = e.what
       /\ e.at <= e.by.record.not_after /\ e.effect <= e.by.record.grant
  /\ spent = {e.by.record : e \in performed}

(* A tool is never treated as milder than its own annotations: a call that   *)
(* came over the bridge is enforced at least at the effect that MCP's        *)
(* defaults give the definition it carries (a tool that says nothing is      *)
(* destructive), and arrives as the call that was made                       *)
(* (map_annotations_to_effect, carry_tool_call, receive_tool_call).          *)
ToolEffectNotUnderstated ==
  LET s == bridged.sent  g == bridged.got IN
  s.verdict = "ok" /\ g.verdict = "ok" =>
    LET says(k) == k \in DOMAIN s.def.annotations /\ s.def.annotations[k]
        denies(k) == k \in DOMAIN s.def.annotations /\ ~s.def.annotations[k]
    IN /\ g.tool_definition = s.def /\ g.arguments = s.args /\ s.name = s.def.name
       /\ g.enforced \in 0..3
       /\ ~says(1) /\ ~denies(2) => g.enforced = Destructive
       /\ ~says(1) => g.enforced >= IdempotentWrite
       /\ ~says(1) /\ ~says(3) => g.enforced >= NonIdempotentWrite

(* What the four gates let through is what the human signed for, once, and a *)
(* tool call is held to its own annotations (authorize_destructive,          *)
(* authorize_charge, consume_approval, carry_tool_call).                     *)
ActsWithinApproval ==
  /\ OneActPerApproval
  /\ ToolEffectNotUnderstated
==============================================================================
