------------------------------- MODULE Gateway -------------------------------
(***************************************************************************)
(* The gateway's signed statements (gateway.py): decisions, decision       *)
(* records, egress attestations, and the checkpoints, witness cosignatures *)
(* and inclusion proofs of the log that holds them.                        *)
(*                                                                         *)
(* The log's operator may keep two views and show either; whoever presents *)
(* a proof may build its path from any hashes that exist.  A hash is its   *)
(* own preimage; a body is the function of the keys that are present.      *)
(***************************************************************************)
EXTENDS SignedObjects, Functions, Sequences, FiniteSetsExt

CONSTANTS
  Bad, Absent,   \* a value of the wrong type, and a key that is not there
  Leaves,        \* content ids of logged records
  Views,         \* the operator's views of the log
  MaxLog,        \* bound on the leaves of all views
  MaxCheckpoints \* bound on the checkpoints signed

ASSUME GatewayConstants == MaxLog \in Nat

VARIABLES
  views,         \* view -> its leaves
  checkpoints,   \* signed checkpoints, each with the leaves it was made of (history)
  cosigned,      \* witness cosignatures: the ids of the roots they name
  received,      \* the last signed statement a verifier was handed, with its verdict
  crossed        \* the last object that left through the gateway, with its attestation
gwvars == <<views, checkpoints, cosigned, received, crossed>>

Allow == 0
Deny == 1
Hold == 2
IsKnownDecision(code) == code \in {Allow, Deny, Hold}

NormalizeEffect(e) == IF e \in 0..3 THEN e ELSE 3

Has(body, k) == k \in DOMAIN body
Field(body, k, default) == IF Has(body, k) THEN body[k] ELSE default

------------------------------------------------------------------------------
(* Ordering disclosures and foreign profiles.  The empty string is encoded *)
(* by leaving its key out.                                                 *)

CorrespondenceOnly == 0
SingleBoundary == 1
ExternalMechanism == 2
IsKnownOrderingBasis(code) == code \in {CorrespondenceOnly, SingleBoundary, ExternalMechanism}

OrderingDisclosure == [basis : 0..3, boundary : {"", "x"}, mechanism : {"", "x"}, relation : {"", "x"}]

\* Keys 2 to 4 are written only when they say something.
OrderingToCbor(o) ==
  LET present == {1} \cup (IF o.boundary = "" THEN {} ELSE {2})
                     \cup (IF o.mechanism = "" THEN {} ELSE {3})
                     \cup (IF o.relation = "" THEN {} ELSE {4})
  IN [k \in present |-> <<o.basis, o.boundary, o.mechanism, o.relation>>[k]]

OrderingFromCbor(m) ==
  IF ~Has(m, 1) \/ \E k \in DOMAIN m : m[k] = Bad THEN Bad
  ELSE [basis |-> m[1], boundary |-> Field(m, 2, ""), mechanism |-> Field(m, 3, ""), relation |-> Field(m, 4, "")]

ValidateOrdering(o) ==
  CASE ~IsKnownOrderingBasis(o.basis) -> "UnknownOrderingBasis"
    [] o.basis = CorrespondenceOnly /\ {o.boundary, o.mechanism, o.relation} # {""} -> "OrderingDisclosureMalformed"
    [] o.basis = SingleBoundary /\ (o.boundary = "" \/ {o.mechanism, o.relation} # {""}) -> "OrderingDisclosureMalformed"
    [] o.basis = ExternalMechanism /\ (o.boundary # "" \/ o.mechanism = "") -> "OrderingDisclosureMalformed"
    [] OTHER -> "ok"

\* A pin with a key other than 1 and 2 is refused, unlike every other map here.
ForeignProfileFromCbor(m) ==
  IF \E k \in DOMAIN m \cap {1, 2} : m[k] = Bad THEN Bad
  ELSE [id |-> Field(m, 1, ""), revision |-> Field(m, 2, ""), unknown |-> DOMAIN m \ {1, 2} # {}]

ValidateForeignProfile(p) ==
  IF p.id = "" \/ p.revision = "" \/ p.unknown THEN "ForeignProfileMalformed" ELSE "ok"

\* {1: kind, 2: source}, the source only when there is one.
TermDispositionToCbor(t) ==
  [k \in {1} \cup (IF t.source = "" THEN {} ELSE {2}) |-> IF k = 1 THEN t.kind ELSE t.source]

TermDispositionFromCbor(m) ==
  IF ~Has(m, 1) \/ \E k \in DOMAIN m : m[k] = Bad THEN Bad
  ELSE [kind |-> m[1], source |-> Field(m, 2, "")]

------------------------------------------------------------------------------
(* Decisions *)

ParseDecision(body) ==
  LET ordering == IF Has(body, 5) THEN OrderingFromCbor(body[5]) ELSE Absent
      foreign == IF Has(body, 6) THEN ForeignProfileFromCbor(body[6]) ELSE Absent
  IN IF \/ \E k \in 1..4 : Field(body, k, Bad) = Bad
        \/ ordering = Bad \/ foreign = Bad
     THEN [verdict |-> "GwMalformed"]
     ELSE [verdict |-> "ok", decision |-> body[1], action |-> body[2], policy |-> body[3],
           effect |-> body[4], ordering |-> ordering, foreign |-> foreign]

VerifyDecision(o, profile, key) ==
  LET sig == VerifySign1(o, profile, key)
      d == ParseDecision(o.body)
  IN CASE sig # "ok" -> sig
       [] d.verdict # "ok" -> d.verdict
       [] ~IsKnownDecision(d.decision) -> "UnknownGatewayDecision"
       [] d.ordering # Absent /\ ValidateOrdering(d.ordering) # "ok" -> ValidateOrdering(d.ordering)
       [] d.foreign # Absent /\ ValidateForeignProfile(d.foreign) # "ok" -> ValidateForeignProfile(d.foreign)
       [] OTHER -> "ok"

------------------------------------------------------------------------------
(* Decision records *)

TermDisposition == {[kind |-> 1, source |-> ""], [kind |-> 2, source |-> "relay"]}
DecisionRecord ==
  [action : {"act"}, governing : {{}, {"grant"}}, consume : {"", "receipt"}, outcome : 0..3,
   ordering : OrderingDisclosure, enforcement : {0, 2},
   terms : {<< >>} \cup [{1} -> TermDisposition] \cup [{6} -> TermDisposition]]

\* Mutant: enforcement is left out.
DecisionRecordBytesShort(d) ==
  LET present == {1, 2, 4, 5} \cup (IF d.consume = "" THEN {} ELSE {3}) \cup (IF DOMAIN d.terms = {} THEN {} ELSE {6})
  IN [k \in present |-> <<d.action, d.governing, d.consume, d.outcome, OrderingToCbor(d.ordering),
                          [t \in DOMAIN d.terms |-> TermDispositionToCbor(d.terms[t])]>>[k]]

\* Keys 3, 6 and 7 are written only when they say something.
DecisionRecordBytes(d) ==
  LET present == {1, 2, 4, 5} \cup (IF d.consume = "" THEN {} ELSE {3})
                   \cup (IF DOMAIN d.terms = {} THEN {} ELSE {6}) \cup (IF d.enforcement = 0 THEN {} ELSE {7})
  IN [k \in present |-> <<d.action, d.governing, d.consume, d.outcome, OrderingToCbor(d.ordering),
                          [t \in DOMAIN d.terms |-> TermDispositionToCbor(d.terms[t])], d.enforcement>>[k]]

ParseDecisionRecord(body) ==
  LET ordering == IF Has(body, 5) THEN OrderingFromCbor(body[5]) ELSE Bad
      raw == Field(body, 6, << >>)
      terms == [k \in DOMAIN raw |-> TermDispositionFromCbor(raw[k])]
  IN IF \/ \E k \in {1, 2, 4} : Field(body, k, Bad) = Bad
        \/ \E k \in {3, 7} : Field(body, k, Absent) = Bad
        \/ ordering = Bad \/ \E k \in DOMAIN terms : terms[k] = Bad
     THEN [verdict |-> "DecisionMalformed"]
     ELSE [verdict |-> "ok",
           record |-> [action |-> body[1], governing |-> body[2], consume |-> Field(body, 3, ""), outcome |-> body[4],
                       ordering |-> ordering, terms |-> terms, enforcement |-> Field(body, 7, 0)]]

\* Mutant: the order of the two tests on outcome and consume is lost.
ValidateDecisionRecordLoose(d) ==
  CASE ~IsKnownDecision(d.outcome) -> "UnknownGatewayDecision"
    [] ~(DOMAIN d.terms \subseteq 1..5) -> "TermDispositionMalformed"
    [] OTHER -> ValidateOrdering(d.ordering)

ValidateDecisionRecord(d) ==
  IF ~IsKnownDecision(d.outcome)                 THEN "UnknownGatewayDecision"
  ELSE IF ValidateOrdering(d.ordering) # "ok"    THEN ValidateOrdering(d.ordering)
  ELSE IF d.outcome # Allow /\ d.consume # ""    THEN "DecisionMalformed"
  ELSE IF ~(DOMAIN d.terms \subseteq 1..5)       THEN "TermDispositionMalformed"
  ELSE "ok"

VerifyDecisionRecord(o, profile, key) ==
  LET sig == VerifySign1(o, profile, key)
      p == ParseDecisionRecord(o.body)
  IN IF sig # "ok" THEN sig ELSE IF p.verdict # "ok" THEN p.verdict ELSE ValidateDecisionRecord(p.record)

------------------------------------------------------------------------------
(* Egress attestations *)

ContentBound == 0
ContentFree == 1

ParseEgress(body) ==
  LET ordering == IF Has(body, 6) THEN OrderingFromCbor(body[6]) ELSE Absent
  IN IF (\E k \in 1..5 : Field(body, k, Bad) = Bad) \/ ordering = Bad THEN [verdict |-> "EgMalformed"]
     ELSE [verdict |-> "ok", binding |-> body[1], digest |-> body[2], effect |-> NormalizeEffect(body[3]),
           audience |-> body[4], at |-> body[5], ordering |-> ordering]

ValidateEgress(a) ==
  CASE a.binding \notin {ContentBound, ContentFree} -> "UnknownEgressBinding"
    [] a.ordering # Absent -> ValidateOrdering(a.ordering)
    [] OTHER -> "ok"

VerifyEgress(o, profile, key) ==
  LET sig == VerifySign1(o, profile, key)
      a == ParseEgress(o.body)
  IN CASE sig # "ok" -> sig [] a.verdict # "ok" -> a.verdict [] OTHER -> ValidateEgress(a)

\* Mutant: the salt is left out of the commitment.
EgressCommitUnsalted(cid, salt) == cid

\* The hash of the two concatenated: octet strings are sequences.
EgressCommit(cid, salt) == cid \o salt

OpenEgressCommitment(a, cid, salt) == a.binding = ContentFree /\ EgressCommit(cid, salt) = a.digest

------------------------------------------------------------------------------
(* The Merkle tree of the log *)

LeafHash(leaf) == <<"leaf", leaf>>
NodeHash(l, r) == <<"node", l, r>>

\* The largest power of two below n > 1: k doubles while 2k < n.
SplitPoint(n) == LET from[k \in 1..n] == IF 2 * k < n THEN from[2 * k] ELSE k IN from[1]

\* A slice of the leaves is the n leaves after the first lo: its root is Subtree[n][lo].
Subtree(leaves) ==
  LET root[n \in 0..Len(leaves)] == [lo \in 0..(Len(leaves) - n) |->
        IF n = 0 THEN <<"empty">> ELSE IF n = 1 THEN LeafHash(leaves[lo + 1])
        ELSE NodeHash(root[SplitPoint(n)][lo], root[n - SplitPoint(n)][lo + SplitPoint(n)])]
  IN root

MerkleRoot(leaves) == Subtree(leaves)[Len(leaves)][0]

GenPath(leaves, index) ==
  LET path[n \in 0..Len(leaves)] == [lo \in 0..(Len(leaves) - n) |->
        LET k == SplitPoint(n) IN
        IF n <= 1 THEN << >>
        ELSE IF index < lo + k THEN Append(path[k][lo], Subtree(leaves)[n - k][lo + k])
        ELSE Append(path[n - k][lo + k], Subtree(leaves)[k][lo])]
  IN path[Len(leaves)][0]

Mismatch == <<"length mismatch">>

\* The same slices, with the first m hashes of the path left to use.
RecomputeRoot(leaf, index, size, path) ==
  LET root[n \in 1..size] == [lo \in 0..(size - n) |-> [m \in 0..Len(path) |->
        LET k == SplitPoint(n)
            sub == IF index < lo + k THEN root[k][lo][m - 1] ELSE root[n - k][lo + k][m - 1]
        IN IF n = 1 THEN IF m = 0 THEN leaf ELSE Mismatch
           ELSE IF m = 0 THEN Mismatch
           ELSE IF sub = Mismatch THEN Mismatch
           ELSE IF index < lo + k THEN NodeHash(sub, path[m]) ELSE NodeHash(path[m], sub)]]
  IN root[size][0][Len(path)]

\* Mutant: the index is not compared with the size.
VerifyInclusionUnbounded(leaf, index, size, path, root) ==
  IF size # 0 /\ RecomputeRoot(LeafHash(leaf), index, size, path) = root THEN "ok" ELSE "InclusionProofInvalid"

VerifyInclusionProof(leaf, index, size, path, root) ==
  IF size # 0 /\ index < size /\ RecomputeRoot(LeafHash(leaf), index, size, path) = root
  THEN "ok" ELSE "InclusionProofInvalid"

------------------------------------------------------------------------------
(* Checkpoints and witnesses *)

Genesis == << >>
CheckpointRoot(log, leaves, prev, at) ==
  [log |-> log, size |-> Len(leaves), root |-> MerkleRoot(leaves), prev |-> prev, at |-> at]

WitnessCosign(checkpoint) == [witness |-> "w", root |-> checkpoint, at |-> 0]

\* Mutant: only the root hash is compared, not the checkpoint's id.
ValidateWitnessRootOnly(w, checkpoint) == IF w.root.root = checkpoint.root THEN "ok" ELSE "WitnessRootMismatch"

\* A checkpoint stands for its content id.
ValidateWitnessCosign(w, checkpoint) == IF w.root = checkpoint THEN "ok" ELSE "WitnessRootMismatch"

------------------------------------------------------------------------------
Gate == [alg |-> ALG.mldsa65, id |-> "gate"]
Other == [alg |-> ALG.ed25519, id |-> "other"]
Cids == {<<1, 1>>, <<1, 2>>, <<2, 1>>}
Salts == {<< >>, <<1>>, <<2, 1>>}
NoObject == [cid |-> << >>, salt |-> << >>, digest |-> << >>, binding |-> ContentBound]

GatewayInit ==
  /\ views = [v \in Views |-> << >>] /\ checkpoints = << >> /\ cosigned = {}
  /\ received = [kind |-> "none"] /\ crossed = NoObject

Quiet == received.kind = "none" /\ crossed = NoObject

Fresh == Quiet /\ views = [v \in Views |-> << >>] /\ checkpoints = << >>

LogRecord(v, leaf) ==
  /\ Quiet /\ FoldSet(LAMBDA w, n : n + Len(views[w]), 0, Views) < MaxLog
  /\ views' = [views EXCEPT ![v] = Append(@, leaf)]
  /\ UNCHANGED <<checkpoints, cosigned, received, crossed>>

SignCheckpoint(v) ==
  /\ Quiet /\ Len(checkpoints) < MaxCheckpoints
  /\ LET prev == IF checkpoints = << >> THEN Genesis ELSE <<checkpoints[Len(checkpoints)].root>>
     IN checkpoints' = Append(checkpoints,
          [root |-> CheckpointRoot("log", views[v], prev, Len(checkpoints)), leaves |-> views[v]])
  /\ UNCHANGED <<views, cosigned, received, crossed>>

SignWitnessCosign(i) ==
  /\ Quiet /\ cosigned' = cosigned \cup {WitnessCosign(checkpoints[i].root)}
  /\ UNCHANGED <<views, checkpoints, received, crossed>>

\* A decision record is signed, by the gateway or by someone else, and verified.
SignDecisionRecord(key, d) ==
  /\ Fresh
  /\ LET o == SignedBy(key, DecisionRecordBytes(d)) IN
     received' = [kind |-> "record", signed |-> d, by |-> key, object |-> o,
                  verdict |-> VerifyDecisionRecord(o, PROFILE.public, Gate)]
  /\ UNCHANGED <<views, checkpoints, cosigned, crossed>>

\* Somebody with the gateway's key writes a body by hand.
ForeignBody(kind, body) ==
  /\ Fresh
  /\ LET o == SignedBy(Gate, body) IN
     received' = [kind |-> kind, by |-> Gate, object |-> o,
                  verdict |-> IF kind = "decision" THEN VerifyDecision(o, PROFILE.public, Gate)
                              ELSE VerifyEgress(o, PROFILE.public, Gate)]
  /\ UNCHANGED <<views, checkpoints, cosigned, crossed>>

\* An object leaves; its attestation commits to it.
Cross(cid, salt, binding) ==
  /\ Fresh
  /\ crossed' = [cid |-> cid, salt |-> salt, binding |-> binding,
                 digest |-> IF binding = ContentFree THEN EgressCommit(cid, salt) ELSE cid]
  /\ UNCHANGED <<views, checkpoints, cosigned, received>>

\* Bodies with a key missing, of the wrong type or outside its set.
Orderings == {OrderingToCbor(o) : o \in {x \in OrderingDisclosure : x.relation = ""}} \cup {[k \in {1, 2} |-> Bad]}
Partial(full, extra) ==
  {[k \in ks |-> full[k]] : ks \in {DOMAIN full} \cup {DOMAIN full \ {k} : k \in DOMAIN full}} \cup extra
DecisionBodies ==
  UNION {Partial([k \in 1..6 |-> <<d, "a", "p", e, ord, [j \in js |-> "v"]>>[k]], {}) :
           d \in {Allow, 3}, e \in {1, 7}, ord \in Orderings, js \in {{1, 2}, {1}, {1, 2, 3}}}
EgressBodies ==
  UNION {Partial([k \in 1..6 |-> <<b, "d", e, "aud", 0, ord>>[k]], {}) : b \in 0..2, e \in {1, 7}, ord \in Orderings}

GatewayNext ==
  \/ \E v \in Views, leaf \in Leaves : LogRecord(v, leaf)
  \/ \E v \in Views : SignCheckpoint(v)
  \/ \E i \in DOMAIN checkpoints : SignWitnessCosign(i)
  \/ Fresh /\ \E key \in {Gate, Other}, d \in DecisionRecord : SignDecisionRecord(key, d)
  \/ Fresh /\ \E body \in DecisionBodies : ForeignBody("decision", body)
  \/ Fresh /\ \E body \in EgressBodies : ForeignBody("egress", body)
  \/ \E cid \in Cids, salt \in Salts, b \in {ContentBound, ContentFree} : Cross(cid, salt, b)

GatewaySpec == GatewayInit /\ [][GatewayNext]_gwvars

------------------------------------------------------------------------------
\* The hashes of all slices of the leaves that a checkpoint was made of.
KnownHashes ==
  UNION {UNION {{Subtree(cp.leaves)[n][lo] : lo \in 0..(Len(cp.leaves) - n)} : n \in 1..Len(cp.leaves)} : cp \in Range(checkpoints)}
PathsUpTo(n) == UNION {[1..m -> KnownHashes] : m \in 0..n}

(* Against a signed checkpoint, with the size it states, a leaf is proven at *)
(* an index if and only if it was there when the checkpoint was made, by     *)
(* exactly the generated path, whatever hashes a path is built from          *)
(* (generate_inclusion_proof_path, verify_inclusion_proof).                  *)
InclusionIffLogged ==
  checkpoints # << >> => LET cp == checkpoints[Len(checkpoints)] IN
    \A leaf \in Leaves, index \in 0..MaxLog, path \in PathsUpTo(MaxLog - 1) :
      VerifyInclusionProof(leaf, index, cp.root.size, path, cp.root.root) = "ok"
        <=> /\ index < Len(cp.leaves) /\ cp.leaves[index + 1] = leaf
            /\ path = GenPath(cp.leaves, index)

(* A cosignature speaks for one checkpoint only: with two views of the log,  *)
(* the checkpoint a witness vouches for was made of the very leaves that the *)
(* witness saw, in the same place of the chain (validate_witness_cosign).    *)
WitnessSawThis ==
  \A w \in cosigned, i \in DOMAIN checkpoints :
    ValidateWitnessCosign(w, checkpoints[i].root) = "ok" =>
      w.root.size = Len(checkpoints[i].leaves) /\ w.root.at = checkpoints[i].root.at /\
      MerkleRoot(checkpoints[i].leaves) = w.root.root

(* What a verifier accepts is what the gateway stated: an accepted record    *)
(* was signed by the gateway and parses back to all that was said, and a     *)
(* refusal or a hold never claims to have spent an approval                  *)
(* (DecisionRecord.bytes, parse_decision_record, verify_decision_record).    *)
RecordsSurviveTheWire ==
  received.kind = "record" /\ received.verdict = "ok" =>
    /\ received.by = Gate
    /\ ParseDecisionRecord(received.object.body).record = received.signed
    /\ received.signed.consume # "" => received.signed.outcome = Allow

(* A hiding commitment opens to the object that crossed and to no other      *)
(* content id, and only with its salt; a content-bound digest never opens    *)
(* (egress_commit, open_egress_commitment).                                  *)
CommitmentBinds ==
  \A cid \in Cids, salt \in Salts :
    OpenEgressCommitment(crossed, cid, salt) <=>
      crossed.binding = ContentFree /\ cid = crossed.cid /\ salt = crossed.salt

(* Every statement of the gateway is about what really happened: leaves are  *)
(* proven where they are logged, witnesses vouch for what they saw, records  *)
(* arrive as they were signed, commitments open to what crossed              *)
(* (gateway.py).                                                             *)
GatewaySpeaksTrue ==
  /\ InclusionIffLogged
  /\ WitnessSawThis
  /\ RecordsSurviveTheWire
  /\ CommitmentBinds
==============================================================================
