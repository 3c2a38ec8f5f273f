------------------------------ MODULE Admission ------------------------------
(***************************************************************************)
(* Services that let something in at the moment it is used: the            *)
(* verify-at-use guard, the fingerprint cache, the mixed-mode endpoint     *)
(* with its migration policy and the OPA engine, and the evidentiality     *)
(* verifier.  They share no state: `desk` says which one a behaviour is    *)
(* about.                                                                  *)
(***************************************************************************)
EXTENDS Integers, Sequences, FiniteSets

CONSTANTS
  Users,          \* threads that call the verify-at-use guard
  UseApprovals,   \* approvals in circulation: [id, approves, grant, not_after, audience, signed]
  UseActions,     \* guarded actions: [args, effect]
  Keys,           \* keys of one identity, numbered as it rotates through them
  Rotations,      \* rotation objects in circulation: [from, to, legs], legs the keys that signed
  RequestBodies,  \* request bodies the endpoint may be sent
  Assertions,     \* assertions presented to the evidentiality verifier
  Evidences,      \* the evidence presented with them
  MaxNow, MaxUses

Never == 99     \* later than every position
NoKey == 0

ASSUME AdmissionConstants ==
  /\ Keys \subseteq Nat \ {0}
  /\ MaxNow \in Nat /\ MaxNow < Never /\ MaxUses \in Nat
  /\ \A a \in UseApprovals : a.not_after \in Int /\ a.grant \in Int
  /\ \A x \in UseActions : x.effect \in Int
  /\ \A e \in Evidences : e.form = "authority" =>
       Len(e.receipts) \in Nat /\ DOMAIN e.receipts = 1..Len(e.receipts)

VARIABLES
  desk,
  clock, withdrawn, spentAt, use, ran, uses,  \* verify at use
  pin, firstPin, welcomed,  \* fingerprint cache
  allow_legacy, mode, served, serving,  \* endpoint: its option, the migration state, the last result, the request at work
  admitted                  \* evidentiality: the last assertion admitted, and its evidence

useVars == <<clock, withdrawn, spentAt, use, ran, uses>>
pinVars == <<pin, firstPin, welcomed>>
endpointVars == <<allow_legacy, mode, served, serving>>
admvars == <<desk, clock, withdrawn, spentAt, use, ran, uses, pin, firstPin, welcomed,
             allow_legacy, mode, served, serving, admitted>>

NotUsing == [pc |-> "idle", a |-> 0, x |-> 0, pos |-> 0, seen |-> Never]
NoBody == [form |-> "none"]

AdmInit ==
  /\ desk \in {"use", "pin", "endpoint", "evidence"}
  /\ clock = 0 /\ withdrawn = Never /\ spentAt = {} /\ use = [u \in Users |-> NotUsing] /\ ran = {} /\ uses = 0
  /\ pin = NoKey /\ firstPin = NoKey /\ welcomed = {}
  /\ allow_legacy \in (IF desk = "endpoint" THEN BOOLEAN ELSE {FALSE}) /\ mode = "mixed" /\ served = {} /\ serving = NoBody
  /\ admitted = {}

------------------------------------------------------------------------------
(* VerifyAtUseGuard                                                         *)

\* identity.revoked_at for the approver's key, at a position.
AdmissionRevokedAt(pos) == pos > withdrawn

\* Key liveness and audience are judged, at the clock of this moment, before the ledger is touched.
VerifyAtUse(u, a, x) ==
  /\ desk = "use" /\ use[u].pc = "idle" /\ uses < MaxUses /\ uses' = uses + 1
  /\ use' = [use EXCEPT ![u] =
       IF AdmissionRevokedAt(clock) \/ a.audience \notin {"", "here"} THEN NotUsing
       ELSE [pc |-> "consume", a |-> a, x |-> x, pos |-> clock, seen |-> withdrawn]]
  /\ UNCHANGED <<desk, clock, withdrawn, spentAt, ran, pinVars, endpointVars, admitted>>

\* Mutant: the expiry is judged at issue, not at use.
VerdictAtIssue(a, x, pos) ==
  IF ~a.signed THEN "BadSignature"
  ELSE IF a.approves # x.args THEN "ApprovalMismatch"
  ELSE IF a.grant > 3 \/ x.effect > a.grant THEN "ApprovalRequired"
  ELSE IF a.id \in spentAt THEN "AlreadyConsumed" ELSE "ok"

\* consume_approval at the position of use.
ConsumeVerdict(a, x, pos) ==
  IF ~a.signed THEN "BadSignature"
  ELSE IF a.approves # x.args THEN "ApprovalMismatch"
  ELSE IF pos > a.not_after THEN "ApprovalExpired"
  ELSE IF a.grant > 3 \/ x.effect > a.grant THEN "ApprovalRequired"
  ELSE IF a.id \in spentAt THEN "AlreadyConsumed" ELSE "ok"

\* The consume decides; execute() runs the action past it and nowhere else.
ConsumeAndRun(u) ==
  LET s == use[u] IN
  /\ desk = "use" /\ s.pc = "consume"
  /\ use' = [use EXCEPT ![u] = NotUsing]
  /\ IF ConsumeVerdict(s.a, s.x, s.pos) = "ok"
     THEN /\ spentAt' = spentAt \cup {s.a.id}
          /\ ran' = ran \cup {[a |-> s.a, x |-> s.x, pos |-> s.pos, seen |-> s.seen, again |-> s.a.id \in spentAt]}
     ELSE UNCHANGED <<spentAt, ran>>
  /\ UNCHANGED <<desk, clock, withdrawn, uses, pinVars, endpointVars, admitted>>

\* The caller registers one verified record per key.
RegisterRevocation(t) ==
  /\ desk = "use" /\ withdrawn = Never /\ withdrawn' = t
  /\ UNCHANGED <<desk, clock, spentAt, use, ran, uses, pinVars, endpointVars, admitted>>

UseTick ==
  /\ desk = "use" /\ clock < MaxNow /\ clock' = clock + 1
  /\ UNCHANGED <<desk, withdrawn, spentAt, use, ran, uses, pinVars, endpointVars, admitted>>

------------------------------------------------------------------------------
(* FingerprintCache                                                         *)

\* Mutant: the old leg is checked against the key the object names, not against the pin.
RotationVerifiesLoose(r, old, new) == r.legs = <<r.from, r.to>> /\ r.to = new

\* verify_rotation_object: two legs, the first by the old key, the second by the new.
RotationVerifies(r, old, new) == r.legs = <<old, new>>

\* check_and_pin; noProof stands for rotation_object=None.
NoProof == [from |-> NoKey, to |-> NoKey, legs |-> << >>]

CheckAndPin(k, r) ==
  /\ desk = "pin"
  /\ \/ pin = NoKey /\ pin' = k /\ firstPin' = k
     \/ pin = k /\ UNCHANGED <<pin, firstPin>>
     \/ pin \notin {NoKey, k} /\ r # NoProof /\ RotationVerifies(r, pin, k) /\ pin' = k /\ UNCHANGED firstPin
  /\ welcomed' = welcomed \cup {k}
  /\ UNCHANGED <<desk, useVars, endpointVars, admitted>>

------------------------------------------------------------------------------
(* MixedModeEndpoint, MigrationPolicy, OPAEngine                            *)

\* decide: an engine that cannot be reached, fails, times out or answers anything but the JSON
\* value true denies.
EngineReplies == {"unreachable", "timeout", "non-JSON", "error", "undefined", "no expressions",
                  "false", "\"true\"", "true"}
Decide(reply) == reply = "true"

\* Mutant: the engine is told the signer that the body names.
BuildInputNamed(b) == [effect |-> b.effect, audience |-> b.audience, signer |-> b.signer, grant |-> b.grant]

\* build_input: the signer is the id of the key that verified, not the field of the body.
BuildInput(b) == [effect |-> b.effect, audience |-> b.audience, signer |-> b.verified_by, grant |-> b.grant]

\* The Rego rule allow: effect_within_ceiling, signer_matches_grant, audience_ok.
PolicyAllows(input) ==
  /\ input.effect <= input.grant.max_effect
  /\ input.signer = input.grant.principal
  /\ input.audience \in {"", "here"}

\* What the engine may answer: a Boolean is what the policy says, false by default; the
\* other replies are failures, or another policy's values.
EngineMaySay(b, reply) ==
  /\ reply = "true" => b.form = "strict" /\ PolicyAllows(BuildInput(b))
  /\ reply = "false" => ~(b.form = "strict" /\ PolicyAllows(BuildInput(b)))

AuthorizeWithPolicy(b, reply) == b.form = "strict" /\ Decide(reply)

\* _authorize_strict: the registered effect, the grant registered for the signer the body names
\* (obj.signer; nothing compares it with the key that verified), and the audience of a consume-once
\* kind.
AuthorizeStrict(b) ==
  /\ b.effect_registered
  /\ b.grant.principal = b.signer /\ b.effect <= b.grant.max_effect
  /\ b.consume_once => b.audience = "here"

\* Mutant: a claim that is no integer of the lattice counts as read-only.
AuthorizeLegacyRaw(b) ==
  /\ mode = "mixed" /\ b.json = "object"
  /\ b.effect \notin 1..3
  /\ ~(b.consume_once /\ b.names = "both")

\* _handle_legacy: what it asks for is refused unless it is read-only carriage of a kind that is not
\* consume-once; `names` says which of channel and kind the body claims.
AuthorizeLegacy(b) ==
  /\ mode = "mixed" /\ b.json = "object"
  /\ b.effect = 0
  /\ ~(b.consume_once /\ b.names = "both")

\* handle: a body that verifies takes the strict path, whatever comes of it; another one the legacy
\* path if that is allowed at all.
Handle(b) ==
  /\ desk = "endpoint" /\ serving = NoBody
  /\ serving' = IF b.form = "strict" /\ b.verifies
                THEN IF AuthorizeStrict(b) THEN b ELSE NoBody
                ELSE IF allow_legacy /\ b.form = "legacy" /\ AuthorizeLegacy(b) THEN b ELSE NoBody
  /\ serving' # NoBody
  /\ UNCHANGED <<desk, allow_legacy, mode, served, useVars, pinVars, admitted>>

\* The result, with the deprecation headers of the policy as it is by then; the caller may put the
\* object before the policy engine as well.
Serve(reply) ==
  /\ desk = "endpoint" /\ serving # NoBody /\ EngineMaySay(serving, reply)
  /\ serving' = NoBody
  /\ served' = {[body |-> serving, headers |-> mode = "mixed",
                             opa |-> AuthorizeWithPolicy(serving, reply)]}
  /\ UNCHANGED <<desk, allow_legacy, mode, useVars, pinVars, admitted>>

\* Mutant: tightening twice opens the endpoint again.
TightenToggles ==
  /\ desk = "endpoint"
  /\ mode' = IF mode = "mixed" THEN "strict" ELSE "mixed"
  /\ UNCHANGED <<desk, allow_legacy, served, serving, useVars, pinVars, admitted>>

\* tighten_to_strict; a second call raises.
TightenToStrict ==
  /\ desk = "endpoint" /\ mode = "mixed"
  /\ mode' = "strict"
  /\ UNCHANGED <<desk, allow_legacy, served, serving, useVars, pinVars, admitted>>

------------------------------------------------------------------------------
(* verify_and_admit: every basis is derived again from the evidence.         *)
RecheckSignature(a, e) ==
  e.form = "signature" /\ e.key = a.ref.signer /\ e.bytes = a.value /\ e.sig = <<e.key, e.bytes>>

\* The verifier's own oracle; `establish` is its function.
Establish(oracle, input) == IF oracle = "registered" THEN input + 1 ELSE Never

RecheckOracle(a, e) ==
  /\ e.form = "oracle" /\ e.bytes = a.ref.input
  /\ a.ref.oracle = "registered" /\ Establish(a.ref.oracle, e.bytes) = a.value

\* Mutant: the receipt is looked up before the chain is verified, and the chain then is not.
RecheckAuthorityUnchained(a, e) ==
  /\ e.form = "authority" /\ e.key = a.ref.signer
  /\ a.ref.seq \in 0..(Len(e.receipts) - 1) /\ e.receipts[a.ref.seq + 1].obj = a.value

RecheckAuthority(a, e) ==
  /\ e.form = "authority" /\ e.key = a.ref.signer
  /\ a.ref.seq \in 0..(Len(e.receipts) - 1)
  /\ \A i \in DOMAIN e.receipts : /\ e.receipts[i].seq = i - 1 /\ e.receipts[i].by = e.key
                                  /\ e.receipts[i].prev = (IF i = 1 THEN 0 ELSE e.receipts[i - 1].obj)
  /\ e.receipts[a.ref.seq + 1].obj = a.value

RecheckInput(a, e) == e.form = "input" /\ e.bytes = a.ref.input /\ e.bytes = a.value

VerifyAndAdmit(a, e) ==
  /\ a.basis \in 0..3
  /\ CASE a.basis = 0 -> RecheckSignature(a, e)
       [] a.basis = 1 -> RecheckOracle(a, e)
       [] a.basis = 2 -> RecheckAuthority(a, e)
       [] a.basis = 3 -> RecheckInput(a, e)

Admit(a, e) ==
  /\ desk = "evidence"
  /\ VerifyAndAdmit(a, e) /\ admitted' = {<<a, e>>}
  /\ UNCHANGED <<desk, useVars, pinVars, endpointVars>>

------------------------------------------------------------------------------
AdmNext ==
  \/ desk = "use" /\ \E u \in Users : ConsumeAndRun(u) \/ \E a \in UseApprovals, x \in UseActions : VerifyAtUse(u, a, x)
  \/ \E t \in 0..MaxNow : RegisterRevocation(t)
  \/ UseTick
  \/ desk = "pin" /\ \E k \in Keys : \E r \in Rotations \cup {NoProof} : CheckAndPin(k, r)
  \/ desk = "endpoint" /\ serving = NoBody /\ \E b \in RequestBodies : Handle(b)
  \/ \E reply \in EngineReplies : Serve(reply)
  \/ TightenToStrict
  \/ desk = "evidence" /\ \E a \in Assertions, e \in Evidences : Admit(a, e)

AdmSpec == AdmInit /\ [][AdmNext]_admvars

------------------------------------------------------------------------------
\* What ran was authorised at its own moment of use: by an approval that had not expired then and
\* binds these arguments and this effect, under a key not revoked then as far as the guard had been
\* told, and by no other run (VerifyAtUseGuard.execute).
AuthorisedAtUse ==
  \A r \in ran :
    /\ ~r.again /\ r.a.signed /\ r.a.approves = r.x.args
    /\ r.pos <= r.a.not_after /\ r.pos <= r.seen /\ r.x.effect <= r.a.grant
    /\ \A q \in ran : q.a.id = r.a.id => q = r

\* A pin only ever moves along rotations that the pinned key itself signed: from the first pin to the
\* present one leads a chain of them, and a key that was rotated away is not welcome again, even with
\* the old proof, if no owner ever rotated backwards (check_and_pin).
ForwardOnly == \A r \in Rotations, j, k \in Keys : r.legs = <<j, k>> => j < k

PinFollowsRotations ==
  [][pin # NoKey /\ pin' # pin => /\ \E r \in Rotations : r.legs = <<pin, pin'>>
                                  /\ ForwardOnly => \A k \in welcomed : pin' > k]_admvars

\* An unsigned body never obtains more than read-only carriage of a kind that is not consume-once,
\* none at all where legacy bodies are not allowed, and no yes of the policy engine, whatever the
\* migration policy does meanwhile (_handle_legacy).
LegacyGainsNothing ==
  \A s \in served : s.body.form = "legacy" =>
    allow_legacy /\ s.body.effect = 0 /\ ~(s.body.consume_once /\ s.body.names = "both") /\ ~s.opa

\* A signed body obtains what the grant registered for the signer it NAMES covers, addressed to this
\* endpoint if its kind is consume-once (_authorize_strict).  The comments there call that signer a
\* signature-derived principal; the code takes it from obj.signer, which the holder of the endpoint's
\* one key fills in as it likes, and so may act within the grant of another.  That is not excluded
\* here.  A body that names its own key stays within that key's grant, and where the policy engine
\* was asked too, which is told the key that verified, the named signer is the proven one and the
\* body is addressed to nobody else (build_input, naalp_authz.rego).
StrictWithinGrant ==
  \A s \in served : s.body.form = "strict" =>
    /\ s.body.verifies /\ s.body.effect_registered
    /\ s.body.grant.principal = s.body.signer /\ s.body.effect <= s.body.grant.max_effect
    /\ s.body.consume_once => s.body.audience = "here"
    /\ s.body.signer = s.body.verified_by \/ s.opa =>
         s.body.grant.principal = s.body.verified_by
    /\ s.opa => s.body.audience \in {"", "here"}

\* Tightening is final: afterwards no legacy body is accepted, only one already at work is finished
\* (MigrationPolicy.tighten_to_strict).
TighteningIsFinal ==
  [][mode = "strict" => mode' = "strict" /\ (serving' # serving /\ serving' # NoBody => serving'.form = "strict")]_admvars

\* An assertion is admitted only with evidence from which its value follows on the basis it states:
\* the named signer signed it, the registered oracle derives it, the authority's whole chain holds it at
\* the named place, or it is the input itself; evidence of another basis never does (verify_and_admit).
AdmittedIsDerivable ==
  \A p \in admitted :
    LET a == p[1]  e == p[2] IN
    \/ a.basis = 0 /\ e.form = "signature" /\ e.sig = <<a.ref.signer, a.value>>
    \/ a.basis = 1 /\ e.form = "oracle" /\ a.ref.oracle = "registered" /\ a.value = a.ref.input + 1
    \/ /\ a.basis = 2 /\ e.form = "authority"
       /\ \A i \in 1..(a.ref.seq + 1) : e.receipts[i].by = a.ref.signer /\ e.receipts[i].seq = i - 1
       /\ \A i \in 2..(a.ref.seq + 1) : e.receipts[i].prev = e.receipts[i - 1].obj
       /\ e.receipts[a.ref.seq + 1].obj = a.value
    \/ a.basis = 3 /\ e.form = "input" /\ a.value = a.ref.input

(* What is let in has its cause at that moment: a use its approval, an       *)
(* unsigned body its harmlessness, a signed one the grant of the signer it   *)
(* names (which only the policy engine ties to the key), an assertion its    *)
(* evidence (VerifyAtUseGuard, MixedModeEndpoint.handle,                     *)
(* authorize_with_policy, verify_and_admit).                                 *)
AdmittedForCause ==
  /\ AuthorisedAtUse
  /\ LegacyGainsNothing
  /\ StrictWithinGrant
  /\ AdmittedIsDerivable

(* Trust moves in one direction: a pin along rotations the pinned key        *)
(* signed, the endpoint's mode to strict and not back (check_and_pin,        *)
(* MigrationPolicy.tighten_to_strict).                                       *)
TrustMovesForward ==
  /\ PinFollowsRotations
  /\ TighteningIsFinal
=============================================================================
