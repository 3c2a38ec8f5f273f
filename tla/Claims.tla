------------------------------- MODULE Claims -------------------------------
(***************************************************************************)
(* Statements that a verifier judges one at a time: hazard claims against  *)
(* a hazard authorization (hazard.py), effects against a capability and    *)
(* safety labels (policy.py), payment imports (payment.py), refusals and   *)
(* independent freshness (approval.py).                                    *)
(*                                                                         *)
(* A map on the wire is the function of its keys that are present, Bad a   *)
(* value of the wrong type.  A machine moves as its accepted claim allows. *)
(***************************************************************************)
EXTENDS SignedObjects, Sequences, FiniteSets

CONSTANTS
  Bad,          \* a value of the wrong CBOR type
  Coords,       \* coordinates, speeds and times
  Peers,        \* signing keys
  GrantWire,    \* hazard authorizations on the wire
  ClaimWire     \* hazard claims on the wire

VARIABLES
  granted,      \* the hazard authorization the verifier holds
  claimed,      \* the accepted claim, or NoClaim
  moved,        \* the motions made under it: [class, frame, at (per axis), speed, time]
  judged        \* the last other statement, with the verdict on it
claimvars == <<granted, claimed, moved, judged>>

Only(v, mandatory) == DOMAIN v = mandatory /\ \A k \in mandatory : v[k] # Bad

------------------------------------------------------------------------------
(* Hazard envelopes *)

HazardClass == 0..4
FromCode(code) == IF code \in HazardClass THEN code ELSE 4

\* "nfd" stands for a frame name that is not in Unicode NFC.
SpatialWellFormed(sb) ==
  /\ sb.axes # << >> /\ \A i \in DOMAIN sb.axes : sb.axes[i][1] <= sb.axes[i][2]
  /\ sb.frame \notin {"", "nfd"}

SpatialFromValue(v) ==
  IF Only(v, {1, 2}) /\ SpatialWellFormed([frame |-> v[1], axes |-> v[2]])
  THEN [ok |-> TRUE, frame |-> v[1], axes |-> v[2]] ELSE [ok |-> FALSE]

\* not_before after not_after is not refused.
WindowFromValue(v) ==
  IF Only(v, {1, 2}) THEN [ok |-> TRUE, not_before |-> v[1], not_after |-> v[2]] ELSE [ok |-> FALSE]

EnvelopeFromValue(v) ==
  IF ~Only(v, {1, 2, 3}) THEN [ok |-> FALSE]
  ELSE LET s == SpatialFromValue(v[1])  w == WindowFromValue(v[3]) IN
    IF s.ok /\ w.ok THEN [ok |-> TRUE, spatial |-> s, speed |-> v[2], window |-> w] ELSE [ok |-> FALSE]

BodyFromValue(v) ==
  IF ~Only(v, {1, 2}) \/ v[1] \notin HazardClass \/ ~EnvelopeFromValue(v[2]).ok THEN [verdict |-> "HazardMalformed"]
  ELSE [verdict |-> "ok", class |-> FromCode(v[1]), envelope |-> EnvelopeFromValue(v[2])]

\* Mutant: the axes that both have.
SpatialContainedZip(c, g) ==
  /\ c.frame = g.frame
  /\ \A i \in DOMAIN c.axes \cap DOMAIN g.axes :
       c.axes[i][1] >= g.axes[i][1] /\ c.axes[i][2] <= g.axes[i][2]

SpatialContained(c, g) ==
  /\ c.frame = g.frame /\ Len(c.axes) = Len(g.axes)
  /\ \A i \in DOMAIN c.axes : c.axes[i][1] >= g.axes[i][1] /\ c.axes[i][2] <= g.axes[i][2]

EnvelopeContained(c, g) ==
  /\ SpatialContained(c.spatial, g.spatial) /\ c.speed <= g.speed
  /\ g.window.not_before <= c.window.not_before /\ c.window.not_after <= g.window.not_after

HazardAuthorized(claim, grant) ==
  IF claim.class = grant.class /\ EnvelopeContained(claim.envelope, grant.envelope) THEN "ok" ELSE "HazardNotCovered"

\* A coordinate, a speed or a time that the decoder accepts is an integer.
ASSUME ClaimsConstants ==
  /\ Coords \subseteq Int
  /\ \A v \in GrantWire \cup ClaimWire : BodyFromValue(v).verdict = "ok" =>
       LET e == BodyFromValue(v).envelope IN
       /\ e.spatial.axes \in Seq(Int \X Int) /\ e.speed \in Int
       /\ e.window.not_before \in Int /\ e.window.not_after \in Int

NoClaim == [verdict |-> "none"]
HazardAuthorizedOptional(claim, grant) == IF claim = NoClaim THEN "HazardUnknown" ELSE HazardAuthorized(claim, grant)

------------------------------------------------------------------------------
(* Capabilities and safety labels *)

READ_ONLY == 0
DestructiveEffect == 3
NormalizeEffect(v) == IF v \in 0..3 THEN v ELSE DestructiveEffect

ResolveAuthPrincipal(src, presented) ==
  IF src # "signature" \/ presented = "" THEN "UnauthenticatedPrincipal" ELSE "ok"

\* Mutant: the effect is compared as it is on the wire, wrapped to two bits.
AuthorizeObjectRaw(g, src, presented, effect) ==
  CASE ResolveAuthPrincipal(src, presented) # "ok" -> "UnauthenticatedPrincipal"
    [] presented # g.principal -> "EffectNotAuthorized"
    [] effect % 4 > g.max_effect -> "EffectNotAuthorized"
    [] OTHER -> "ok"

AuthorizeObject(g, src, presented, effect) ==
  CASE ResolveAuthPrincipal(src, presented) # "ok" -> "UnauthenticatedPrincipal"
    [] presented # g.principal -> "EffectNotAuthorized"
    [] NormalizeEffect(effect) > g.max_effect -> "EffectNotAuthorized"
    [] OTHER -> "ok"

\* The label of an extension map, if key 1 is there; a broken one is an error.
SafetyLabelFromExt(ext) ==
  CASE 1 \notin DOMAIN ext -> [verdict |-> "absent"]
    [] ext[1] = Bad \/ ~Only(ext[1], {1, 2}) -> [verdict |-> "MalformedSafetyLabel"]
    [] OTHER -> [verdict |-> "ok", risk |-> ext[1][1], scope |-> ext[1][2]]

------------------------------------------------------------------------------
(* Payment imports, refusals, freshness *)

\* Keys beyond 1 to 6 are not looked at.
ParsePaymentImport(b) ==
  IF 1..6 \subseteq DOMAIN b /\ \A k \in 1..6 : b[k] # Bad
  THEN [verdict |-> "ok", format |-> b[1], amount |-> b[2], currency |-> b[3], payee |-> b[4],
        not_after |-> b[5], foreign |-> b[6]]
  ELSE [verdict |-> "PayMalformed"]

\* Mutant: the closed registry is not consulted.
VerifyPaymentAnyFormat(o, profile, key) ==
  IF VerifySign1(o, profile, key) # "ok" THEN [verdict |-> VerifySign1(o, profile, key)] ELSE ParsePaymentImport(o.body)

VerifyPaymentImport(o, profile, key) ==
  LET sig == VerifySign1(o, profile, key)  p == ParsePaymentImport(o.body) IN
  CASE sig # "ok" -> [verdict |-> sig]
    [] p.verdict # "ok" -> p
    [] p.format \notin 1..3 -> [verdict |-> "UnknownPaymentFormat"]
    [] OTHER -> p

\* Exactly {1: outcome, 2: record}: anything more would leak why.
ParseRefusal(b) ==
  CASE ~Only(b, {1, 2}) \/ b[2] = "" -> "RefusalDetailLeak"
    [] b[1] \notin 0..2 -> "UnknownRefusalOutcome"
    [] OTHER -> "ok"

\* a: approval [key, approves, not_after]; r: receipt [key, ledger].
VerifyFreshIndependent(a, human, cid, now, r, ledgerKey, party) ==
  CASE a.key # human -> "BadSignature"
    [] a.approves # cid -> "ApprovalMismatch"
    [] now > a.not_after -> "ApprovalExpired"
    [] r.ledger = "" \/ r.key # ledgerKey -> "ConsumeReceiptUnsigned"
    [] r.ledger = party -> "FreshnessSelfAsserted"
    [] OTHER -> "ok"

------------------------------------------------------------------------------
ClaimsInit ==
  /\ \E v \in GrantWire : BodyFromValue(v).verdict = "ok" /\ granted = BodyFromValue(v)
  /\ claimed = NoClaim /\ moved = {} /\ judged = [kind |-> "none"]

Idle == judged.kind = "none"

\* A claim, or none, arrives; the machine is released only if it is covered.
Claim(v) ==
  LET c == BodyFromValue(v) IN
  /\ Idle /\ claimed = NoClaim
  /\ c.verdict = "ok" /\ HazardAuthorizedOptional(c, granted) = "ok" /\ claimed' = c
  /\ UNCHANGED <<granted, moved, judged>>

\* The machine does what its claim says it may do.
Move(at, speed, time) ==
  /\ Idle /\ claimed # NoClaim
  /\ LET e == claimed.envelope IN
     /\ Len(at) = Len(e.spatial.axes)
     /\ \A i \in DOMAIN at : at[i] \in e.spatial.axes[i][1]..e.spatial.axes[i][2]
     /\ speed <= e.speed /\ time \in e.window.not_before..e.window.not_after
     /\ moved' = {[class |-> claimed.class, frame |-> e.spatial.frame, at |-> at, speed |-> speed, time |-> time]}
  /\ UNCHANGED <<granted, claimed, judged>>

Judge(statement) == Idle /\ claimed = NoClaim /\ judged' = statement /\ UNCHANGED <<granted, claimed, moved>>

JudgeObject(g, src, presented, effect) ==
  Judge([kind |-> "object", grant |-> g, src |-> src, presented |-> presented, effect |-> effect,
         verdict |-> AuthorizeObject(g, src, presented, effect)])

JudgeLabel(ext) == Judge([kind |-> "label", ext |-> ext, verdict |-> SafetyLabelFromExt(ext).verdict])

JudgePayment(o, profile, key) ==
  Judge([kind |-> "payment", object |-> o, profile |-> profile, key |-> key,
         result |-> VerifyPaymentImport(o, profile, key)])

JudgeRefusal(b) == Judge([kind |-> "refusal", body |-> b, verdict |-> ParseRefusal(b)])

JudgeFreshness(a, r, party) ==
  Judge([kind |-> "fresh", approval |-> a, receipt |-> r, party |-> party,
         verdict |-> VerifyFreshIndependent(a, "human", "cid", 1, r, "ledger", party)])

Without(v, ks) == {v} \cup {[k \in DOMAIN v \ {x} |-> v[k]] : x \in ks} \cup {[v EXCEPT ![x] = Bad] : x \in ks}
PaymentBodies == UNION {Without([k \in 1..6 |-> <<f, 5, "eur", "shop", 9, "payload">>[k]], {1, 6}) : f \in {1, 3, 4}}

Statement ==
  \/ \E e \in 0..9, m \in 0..3, src \in {"signature", "transport", "header", "client"}, who \in {"", "a", "b"} :
       JudgeObject([principal |-> "a", max_effect |-> m], src, who, e)
  \/ \E ext \in {<< >>} \cup {[k \in {1} |-> l] : l \in {Bad, [k \in {1} |-> "r"], [k \in 1..2 |-> "r"], [k \in 1..3 |-> "r"]}} :
       JudgeLabel(ext)
  \/ \E b \in PaymentBodies, signer, key \in Peers, p \in {1, 3} : JudgePayment(SignedBy(signer, b), p, key)
  \/ \E o \in 0..3, r \in {"", "cid"}, ks \in {{1}, {1, 2}, {1, 2, 3}} : JudgeRefusal([k \in ks |-> IF k = 1 THEN o ELSE r])
  \/ \E k, l \in {"human", "ledger", "party"}, na \in {0, 1}, who \in {"", "ledger", "party"} :
       JudgeFreshness([key |-> k, approves |-> "cid", not_after |-> na], [key |-> l, ledger |-> who], "party")

ClaimsNext ==
  \/ Idle /\ claimed = NoClaim /\ \E v \in ClaimWire : Claim(v)
  \/ Idle /\ claimed = NoClaim /\ Statement
  \/ /\ claimed # NoClaim
     /\ \E n \in 1..2 : \E at \in [1..n -> Coords], speed, time \in Coords : Move(at, speed, time)

ClaimsSpec == ClaimsInit /\ [][ClaimsNext]_claimvars

------------------------------------------------------------------------------
(* Containment means containment: whatever the machine does under an         *)
(* accepted claim, in its own frame, at any place, speed and moment the      *)
(* claim allows, the authorization allows too, and for the same class of     *)
(* hazard (hazard_authorized).                                               *)
StaysInsideGrant ==
  \A m \in moved : LET g == granted.envelope IN
    /\ m.class = granted.class /\ m.frame = g.spatial.frame /\ Len(m.at) = Len(g.spatial.axes)
    /\ \A i \in DOMAIN m.at : m.at[i] \in g.spatial.axes[i][1]..g.spatial.axes[i][2]
    /\ m.speed <= g.speed /\ m.time \in g.window.not_before..g.window.not_after

(* Only the signer's own authority counts and an effect outside the lattice  *)
(* is the worst one: an object passes exactly when its signature names the   *)
(* grant's principal and its effect, unknown ones taken as destructive, is   *)
(* within the ceiling (Grant.authorize_object).                              *)
UnknownEffectIsWorst ==
  judged.kind = "object" =>
    (judged.verdict = "ok" <=>
       /\ judged.src = "signature" /\ judged.presented = judged.grant.principal
       /\ judged.effect <= judged.grant.max_effect \/ judged.grant.max_effect = DestructiveEffect)

(* What is accepted is what its signer stated: a payment import verifies     *)
(* only under the key that made it, of the profile's strength, whole and in  *)
(* a registered format; an accepted refusal says an outcome and nothing      *)
(* else; freshness is never the word of the party it is about                *)
(* (verify_payment_import, parse_refusal, verify_fresh_independent).         *)
AcceptedAsStated ==
  /\ judged.kind = "payment" /\ judged.result.verdict = "ok" =>
       /\ judged.object.key = judged.key /\ judged.key.alg # ALG.ed25519
       /\ judged.profile = PROFILE.sovereign => judged.key.alg = ALG.mldsa87
       /\ \E f \in 1..3 : judged.object.body = [k \in 1..6 |-> <<f, 5, "eur", "shop", 9, "payload">>[k]]
  /\ judged.kind = "refusal" /\ judged.verdict = "ok" => DOMAIN judged.body = {1, 2} /\ judged.body[1] \in 0..2
  /\ judged.kind = "fresh" /\ judged.verdict = "ok" =>
       judged.receipt.ledger # judged.party /\ judged.receipt.key = "ledger" /\ judged.approval.key = "human"

(* A claim, an object or a statement is accepted only inside what was        *)
(* granted or stated for it, with everything unknown taken at its worst      *)
(* (hazard_authorized, Grant.authorize_object, verify_payment_import).       *)
ClaimsContained ==
  /\ StaysInsideGrant
  /\ UnknownEffectIsWorst
  /\ AcceptedAsStated
==============================================================================
