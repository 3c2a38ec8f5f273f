------------------------------- MODULE Envelope ------------------------------
(***************************************************************************)
(* The signed object (envelope.py, cose.py, the registry of channels.py    *)
(* and the facade ez.py): drafts are annotated and signed in one of three  *)
(* forms (one signature, a composite of two legs, the two legs of a key    *)
(* rotation), and a verifier is handed any message that can be put         *)
(* together from the signatures that exist.  Key "m" and "n" are           *)
(* Mallory's: she signs anything with them.                                *)
(*                                                                         *)
(* A behaviour is about one of three things (role): the drafts and what    *)
(* their setters do, the messages and what a verifier makes of them, or    *)
(* the copies of one signer and the reuse of their forward-only counter.   *)
(***************************************************************************)
EXTENDS SignedObjects, SequencesExt, FiniteSets

CONSTANTS
  Drafts,        \* the objects that are signed
  Edits,         \* bound on the calls of the setters
  MaxActs,       \* bound on the honest signing acts
  MaxShown,      \* bound on the objects presented to the duplication check
  MaxCount,      \* bound on the forward-only counter
  KnownCext,     \* critical extensions the caller of verify understands
  Bad            \* a value of the wrong type

VARIABLES
  role,          \* "edit" | "wire" | "clone"
  draft,         \* the object under construction
  wanted,        \* the last value given to each setter (history)
  edits,         \* calls so far
  acts,          \* honest signing acts: [form, keys, header, payload]
  got,           \* the last message a verifier accepted
  next,          \* counter of each running copy of the signer
  made,          \* objects the copies signed
  shown          \* objects presented, in order of arrival, with repetitions
envvars == <<role, draft, wanted, edits, acts, got, next, made, shown>>

------------------------------------------------------------------------------
(* The registry: declared effect of every kind, by channel.                  *)
RO == 0
IW == 1
NIW == 2
DE == 3
VARIABLE_EFFECT == {<<12, 0>>, <<13, 0>>}
TABLE ==
  << <<RO, IW, RO, RO>>,                          \* Control
     <<IW, IW, NIW, RO, DE, DE>>,                 \* Memory
     <<NIW, NIW, DE, RO>>,                        \* Capability
     <<NIW, DE, IW, RO>>,                         \* Identity
     <<NIW, NIW, RO, NIW, NIW, NIW, NIW, NIW>>,   \* Governance
     <<RO, DE, NIW>>,                             \* Immune
     <<RO, NIW>>,                                 \* Federation
     <<NIW, NIW, IW, NIW, NIW>>,                  \* Settlement
     <<NIW, RO, RO>>,                             \* Compliance
     <<RO, IW, IW>>,                              \* Sensory
     <<RO, RO>>,                                  \* Telemetry
     <<NIW, RO, RO, NIW, NIW, RO>>,               \* Audit
     <<RO, RO, RO>>,                              \* Stream
     <<RO>>,                                      \* Bridge
     <<RO, NIW, NIW, DE>>,                        \* Commerce
     <<RO, IW, NIW, NIW>>,                        \* Interaction
     <<RO, RO>>,                                  \* Discovery
     <<NIW, NIW, DE, NIW>>,                       \* Workflow
     <<NIW, DE, RO>>,                             \* Knowledge
     <<IW, RO, RO, RO>> >>                        \* Spatial

Lookup(channel, kind) == channel + 1 \in DOMAIN TABLE /\ kind + 1 \in DOMAIN TABLE[channel + 1]

CheckEffect(channel, kind, effect) ==
  IF ~Lookup(channel, kind) THEN "UnknownKind"
  ELSE IF IF <<channel, kind>> \in VARIABLE_EFFECT THEN effect > DE ELSE effect # TABLE[channel + 1][kind + 1]
  THEN "EffectDeclarationMismatch"
  ELSE "ok"

------------------------------------------------------------------------------
(* Annotations: ext and cext are sequences of <<key, value>>.                *)
RECHECK_KEY == 13
SIGNER_COUNTER_KEY == 14
PRODUCING_BOUNDARY_KEY == 15
IsKnownRecheck(id) == id \in 1..4
OBSERVED == 1
REPORTED == 2

At(m, key) == {i \in DOMAIN m : m[i][1] = key}
ValueAt(m, key) == m[CHOOSE i \in At(m, key) : \A j \in At(m, key) : i <= j][2]
IsUint(v) == v # Bad

\* Mutant: the setter starts the map afresh.
SetEntryAlone(m, key, v) == << <<key, v>> >>

\* Replace the key's entry where it stands, or append one.
SetEntry(m, key, v) ==
  IF At(m, key) = {} THEN Append(m, <<key, v>>)
  ELSE [i \in DOMAIN m |-> IF m[i][1] = key THEN <<key, v>> ELSE m[i]]

\* -1 when the key is absent or not a uint.
GetUint(m, key) == IF At(m, key) # {} /\ IsUint(ValueAt(m, key)) THEN ValueAt(m, key) ELSE -1

Recheck(o) ==
  IF GetUint(o.cext, RECHECK_KEY) # -1
  THEN [proc |-> GetUint(o.cext, RECHECK_KEY), critical |-> TRUE]
  ELSE [proc |-> GetUint(o.ext, RECHECK_KEY), critical |-> FALSE]

SignerCounter(o) == GetUint(o.ext, SIGNER_COUNTER_KEY)

NoBoundary == [boundary |-> "", kind |-> 0, reporting |-> ""]
WellFormedBoundary(pb) ==
  /\ pb.boundary # "" /\ pb.kind \in {OBSERVED, REPORTED}
  /\ pb.reporting # "" => pb.kind = REPORTED

ProducingBoundary(o) ==
  LET pb == ValueAt(o.ext, PRODUCING_BOUNDARY_KEY)
  IN IF At(o.ext, PRODUCING_BOUNDARY_KEY) # {} /\ pb # Bad /\ WellFormedBoundary(pb) THEN pb ELSE NoBoundary

\* An observer relays from no one: its reporting boundary is left out.
BoundaryValue(pb) == IF pb.kind = REPORTED THEN pb ELSE [pb EXCEPT !.reporting = ""]

Boundaries == [boundary : {"", "b"}, kind : {OBSERVED, REPORTED}, reporting : {"", "r"}]

\* A map has one entry for a key, and a value of the wrong type is none of the right one.
Keyed(m) == m \in Seq(ToSet(m)) /\ \A i, j \in DOMAIN m : m[i][1] = m[j][1] => i = j
ASSUME EnvelopeConstants ==
  /\ Bad \notin Int /\ Bad \notin Boundaries
  /\ \A d \in Drafts : {"ext", "cext", "body"} \subseteq DOMAIN d /\ Keyed(d.ext) /\ Keyed(d.cext)

Editing == role = "edit" /\ edits < Edits /\ edits' = edits + 1
EditFrame == UNCHANGED <<role, acts, got, next, made, shown>>

SetRecheck(id, critical) ==
  /\ Editing /\ EditFrame
  /\ draft' = IF critical THEN [draft EXCEPT !.cext = SetEntry(@, RECHECK_KEY, id)]
                          ELSE [draft EXCEPT !.ext = SetEntry(@, RECHECK_KEY, id)]
  /\ wanted' = IF critical THEN [wanted EXCEPT !.critical = id] ELSE [wanted EXCEPT !.recheck = id]

SetSignerCounter(seq) ==
  /\ Editing /\ EditFrame
  /\ draft' = [draft EXCEPT !.ext = SetEntry(@, SIGNER_COUNTER_KEY, seq)]
  /\ wanted' = [wanted EXCEPT !.counter = seq]

SetProducingBoundary(pb) ==
  /\ Editing /\ EditFrame
  /\ draft' = [draft EXCEPT !.ext = SetEntry(@, PRODUCING_BOUNDARY_KEY, BoundaryValue(pb))]
  /\ wanted' = [wanted EXCEPT !.boundary = pb]

------------------------------------------------------------------------------
(* Signing.  A signature is [key, tbs]; the content id is the object itself. *)
COMPOSITE == -65537
COMPOSITE_44 == -65538
KEYS == [a1 |-> ALG.mldsa65, a2 |-> ALG.mldsa87, e |-> ALG.ed25519,
         m |-> ALG.mldsa65, n |-> ALG.ed25519]
KeyNames == DOMAIN KEYS
Honest == {"a1", "a2", "e"}

Version == 1
ProtectedHeader(alg, o) == [alg |-> alg, signer |-> o.signer, profile |-> o.profile, version |-> Version]
Payload(o) == [obj |-> o, id |-> o]

Sign1Tbs(header, payload) == [ctx |-> "Signature1", alg |-> 0, header |-> header, payload |-> payload]
LegTbs(header, alg, payload) == [ctx |-> "Signature", alg |-> alg, header |-> header, payload |-> payload]
MPrime(tbs) == [tbs EXCEPT !.ctx = "Composite"]

IsRotation(o) == o.channel = 3 /\ o.kind = 0

SignPure(o, k) ==
  [form |-> "pure", keys |-> <<k>>, header |-> ProtectedHeader(KEYS[k], o), payload |-> Payload(o)]

SignComposite(o, k, ed) ==
  LET composite == [o EXCEPT !.suite = 1]
  IN [form |-> "composite", keys |-> <<k, ed>>, header |-> ProtectedHeader(COMPOSITE, composite),
      payload |-> Payload(composite)]

\* Only for the rotation object, and never composite: the suite field is cleared.
SignRotationObject(o, old, new) ==
  LET plain == [o EXCEPT !.suite = 0]
  IN [form |-> "rotation", keys |-> <<old, new>>, header |-> ProtectedHeader(KEYS[new], plain),
      payload |-> Payload(plain)]

\* What the key at position i of a signing act signs.
TbsOf(act, i) ==
  CASE act.form = "pure"       -> Sign1Tbs(act.header, act.payload)
    [] act.form = "composite"  -> MPrime(Sign1Tbs(act.header, act.payload))
    [] act.form = "rotation"   -> LegTbs(act.header, KEYS[act.keys[i]], act.payload)

Signatures(act) == {[key |-> act.keys[i], tbs |-> TbsOf(act, i)] : i \in DOMAIN act.keys}

------------------------------------------------------------------------------
(* Verification.  A message is [tag, header, payload, sigs]; a leg of a      *)
(* rotation carries its algorithm.  Oversized, too deep or unparsable bytes  *)
(* are the object with big = TRUE.                                           *)
MAX_CHANNEL == 19
MAX_CAUSES == 2      \* 1024 in the code
MAX_EXT == 3         \* 64 in the code

ObjectFromMap(o) ==
  IF o.causes > MAX_CAUSES                                THEN "TooManyCauses"
  ELSE IF Len(o.ext) > MAX_EXT \/ Len(o.cext) > MAX_EXT   THEN "TooManyExtensions"
  ELSE "ok"

\* Mutant: an unknown procedure is no reason to refuse.
CheckCriticalLoose(o) ==
  IF \E i \in DOMAIN o.cext : o.cext[i][1] # RECHECK_KEY THEN "UnknownCriticalExt" ELSE "ok"

\* Every critical extension must be understood, a re-check with a known procedure; the first that
\* is not, in the order of the keys, decides the verdict.
CheckCritical(o) ==
  LET malformed(e) == e = <<RECHECK_KEY, Bad>>
      unknown(e) == IF e[1] = RECHECK_KEY THEN ~IsKnownRecheck(e[2]) ELSE e[1] \notin KnownCext
      bad == {i \in DOMAIN o.cext : malformed(o.cext[i]) \/ unknown(o.cext[i])}
      first == CHOOSE i \in bad : \A j \in bad : o.cext[i][1] <= o.cext[j][1]
  IN IF bad = {} THEN "ok" ELSE IF malformed(o.cext[first]) THEN "Malformed" ELSE "UnknownCriticalExt"

ParseSign1(msg) == msg.tag = 18
ParseSign(msg) == msg.tag = 98
LegAlg(msg, i) == KEYS[msg.sigs[i].key]

\* The checks both verifiers make before any signature; rotation tells them apart.
CheckObject(msg, rotation) ==
  LET o == msg.payload.obj
      h == msg.header
  IN IF o.big                                                       THEN "TooLarge"
     ELSE IF IF rotation THEN ~ParseSign(msg) ELSE ~ParseSign1(msg) THEN "Malformed"
     ELSE IF msg.payload.id # o                                     THEN "ContentIdMismatch"
     ELSE IF ObjectFromMap(o) # "ok"                                THEN ObjectFromMap(o)
     ELSE IF ~rotation /\ IsRotation(o)                             THEN "RotationUnauthorized"
     ELSE IF o.channel > MAX_CHANNEL \/ o.effect > DE \/ o.profile \notin 1..3 THEN "RangeError"
     ELSE IF h.version # Version                                    THEN "UnsupportedVersion"
     ELSE IF h.signer # o.signer \/ h.profile # o.profile           THEN "HeaderBodyMismatch"
     ELSE IF CheckCritical(o) # "ok"                                THEN CheckCritical(o)
     ELSE IF rotation /\ ~IsRotation(o)                             THEN "UnknownKind"
     ELSE IF ~Lookup(o.channel, o.kind)                             THEN "UnknownKind"
     ELSE "ok"

Verifies(sig, key, tbs) == sig = [key |-> key, tbs |-> tbs]

\* Mutant: one leg is enough.
CompositeVerifyEither(keys, tbs, sigs) ==
  /\ Len(sigs) = 2 /\ Len(keys) = 2 /\ \E i \in 1..2 : Verifies(sigs[i], keys[i], MPrime(tbs))

CompositeVerify(keys, tbs, sigs) ==
  /\ Len(sigs) = 2 /\ Len(keys) = 2 /\ KEYS[keys[1]] = ALG.mldsa65 /\ KEYS[keys[2]] = ALG.ed25519
  /\ \A i \in 1..2 : Verifies(sigs[i], keys[i], MPrime(tbs))

Verify(profile, keys, msg) ==
  LET o == msg.payload.obj
      tbs == Sign1Tbs(msg.header, msg.payload)
      alg == msg.header.alg
  IN IF CheckObject(msg, FALSE) # "ok"                        THEN CheckObject(msg, FALSE)
     ELSE IF alg = COMPOSITE THEN
       IF profile = PROFILE.sovereign                         THEN "CompositeRefused"
       ELSE IF o.suite # 1                                    THEN "SuiteMismatch"
       ELSE IF ~CompositeVerify(keys, tbs, msg.sigs)          THEN "BadSignature"
       ELSE "ok"
     ELSE IF o.suite # 0                                      THEN "SuiteMismatch"
     ELSE IF alg \notin Registered                            THEN "UnknownAlg"
     ELSE IF AlgLevel(alg) < ProfileMinLevel(profile)         THEN "ProfileDowngrade"
     ELSE IF \/ Len(keys) # 1 \/ KEYS[keys[1]] # alg
             \/ ~Verifies(msg.sigs[1], keys[1], tbs)          THEN "BadSignature"
     ELSE "ok"

\* Legs in the order (old, new), both strong enough, both over this header and payload.
VerifyRotationObject(profile, keys, msg) ==
  LET level(i) == AlgLevel(KEYS[keys[i]])
  IN IF CheckObject(msg, TRUE) # "ok"                                    THEN CheckObject(msg, TRUE)
     ELSE IF msg.header.alg \in {COMPOSITE, COMPOSITE_44}                THEN "Malformed"
     ELSE IF msg.header.alg # KEYS[keys[2]]                              THEN "KeyAlgMismatch"
     ELSE IF Len(msg.sigs) # 2                                           THEN "RotationUnauthorized"
     ELSE IF \E i \in 1..2 : LegAlg(msg, i) # KEYS[keys[i]]              THEN "RotationUnauthorized"
     ELSE IF \E i \in 1..2 : level(i) < ProfileMinLevel(profile)         THEN "ProfileDowngrade"
     ELSE IF \E i \in 1..2 :
               ~Verifies(msg.sigs[i], keys[i], LegTbs(msg.header, KEYS[keys[i]], msg.payload))
     THEN "RotationUnauthorized"
     ELSE "ok"

\* An object for a consuming authority; an empty audience is nobody in particular.
CheckAudience(o, self, consumeOnce) ==
  IF IF o.audience = "" THEN consumeOnce ELSE o.audience # self THEN "WrongAudience" ELSE "ok"

------------------------------------------------------------------------------
Nothing == [by |-> "nobody"]
WireFrame == UNCHANGED <<role, draft, wanted, edits, next, made, shown>>

\* ez.Signer holds an ML-DSA key and only signs registered surfaces with their effect.
EzSignable(o, k) ==
  /\ KEYS[k] \in {ALG.mldsa65, ALG.mldsa87}
  /\ CheckEffect(o.channel, o.kind, o.effect) = "ok"

\* The acts of an honest signer: through ez, by envelope.sign itself, which looks nothing up,
\* as a composite, or as a rotation.
SigningActs ==
  {SignPure(o, k) : o \in Drafts, k \in {"a1", "a2"}}
    \cup {SignComposite(o, "a1", "e") : o \in Drafts}
    \cup {SignRotationObject(o, "a1", "a2") : o \in {d \in Drafts : IsRotation(d)}}

EzSign(o, k) ==
  /\ role = "wire" /\ got = Nothing /\ Cardinality(acts) < MaxActs /\ EzSignable(o, k)
  /\ acts' = acts \cup {SignPure(o, k)}
  /\ UNCHANGED got /\ WireFrame

Sign(act) ==
  /\ role = "wire" /\ got = Nothing /\ Cardinality(acts) < MaxActs
  /\ acts' = acts \cup {act}
  /\ UNCHANGED got /\ WireFrame

\* What Mallory puts together: a header and a payload she has seen, changed or not, and
\* signatures she has seen or makes over what the verifier is going to check.
Tampered(o) == {o, [o EXCEPT !.suite = 1 - @], [o EXCEPT !.effect = RO], [o EXCEPT !.cext = << >>]}
SeenPayloads == UNION {UNION {{Payload(t), [obj |-> t, id |-> a.payload.obj]} : t \in Tampered(a.payload.obj)}
                         : a \in acts}
SeenHeaders == UNION {{a.header} \cup {[a.header EXCEPT !.alg = KEYS[k]] : k \in {"a1", "m"}} : a \in acts}
HerSignatures(h, p) ==
  {[key |-> k, tbs |-> tbs] : k \in {"m", "n"},
     tbs \in {Sign1Tbs(h, p), MPrime(Sign1Tbs(h, p)), LegTbs(h, ALG.mldsa65, p)}}
SeenSignatures == UNION {Signatures(a) : a \in acts}
MessagesOver(h, p) ==
  LET s == SeenSignatures \cup HerSignatures(h, p)
  IN [tag : {18, 98}, header : {h}, payload : {p}, sigs : {<<x>> : x \in s} \cup (s \X s)]
Messages == UNION {MessagesOver(h, p) : h \in SeenHeaders, p \in SeenPayloads}

PublicKeys == {<<"a1">>, <<"a2">>, <<"m">>, <<"a1", "e">>, <<"a1", "n">>}
KeyPairs == {<<"a1", "a2">>, <<"m", "a2">>, <<"a1", "m">>, <<"a2", "a1">>}

Accepted(by, profile, keys, msg) == [by |-> by, profile |-> profile, keys |-> keys, msg |-> msg]

Receive(profile, keys, msg) ==
  /\ role = "wire" /\ Verify(profile, keys, msg) = "ok"
  /\ got' = Accepted("verify", profile, keys, msg)
  /\ UNCHANGED acts /\ WireFrame

ReceiveRotation(profile, keys, msg) ==
  /\ role = "wire" /\ VerifyRotationObject(profile, keys, msg) = "ok"
  /\ got' = Accepted("rotation", profile, keys, msg)
  /\ UNCHANGED acts /\ WireFrame

------------------------------------------------------------------------------
(* Copies of one signer.  Every copy stamps a forward-only counter; copy 2   *)
(* is a restored snapshot of copy 1, if anyone makes it.                     *)
CloneFrame == UNCHANGED <<role, draft, wanted, edits, acts, got>>

Restore ==
  /\ role = "clone" /\ Len(next) = 1
  /\ next' = Append(next, next[1])
  /\ UNCHANGED <<made, shown>> /\ CloneFrame

\* The body tells which copy made it; stamped is FALSE for an object without a counter.
Emit(copy, stamped) ==
  /\ role = "clone" /\ copy \in DOMAIN next /\ next[copy] <= MaxCount
  /\ next' = [next EXCEPT ![copy] = @ + 1]
  /\ made' = made \cup
       {[signer |-> "s", body |-> <<copy, next[copy]>>,
         ext |-> IF stamped THEN SetEntry(<< >>, SIGNER_COUNTER_KEY, next[copy]) ELSE << >>]}
  /\ UNCHANGED shown /\ CloneFrame

Show(o) ==
  /\ role = "clone" /\ Len(shown) < MaxShown
  /\ shown' = Append(shown, o)
  /\ UNCHANGED <<next, made>> /\ CloneFrame

\* Mutant: counts presentations instead of distinct content ids.
DetectRepeats(objs) ==
  LET idx(c) == {i \in DOMAIN objs : SignerCounter(objs[i]) = c}
  IN {[counter |-> c, ids |-> {objs[i] : i \in idx(c)}] : c \in {d \in 0..MaxCount : Cardinality(idx(d)) > 1}}

\* One finding for each (signer, counter) that two distinct objects carry.
DetectSignerDuplication(objs) ==
  LET stamped == {o \in ToSet(objs) : SignerCounter(o) # -1}
      group(o) == {p \in stamped : p.signer = o.signer /\ SignerCounter(p) = SignerCounter(o)}
  IN {[counter |-> SignerCounter(o), ids |-> group(o)] : o \in {q \in stamped : Cardinality(group(q)) > 1}}

------------------------------------------------------------------------------
NoWish == [critical |-> -1, recheck |-> -1, counter |-> -1, boundary |-> NoBoundary]

EnvInit ==
  /\ role \in {"edit", "wire", "clone"}
  /\ draft \in (IF role = "edit" THEN Drafts ELSE {CHOOSE d \in Drafts : TRUE})
  /\ wanted = NoWish /\ edits = 0
  /\ acts = {} /\ got = Nothing
  /\ next = <<0>> /\ made = {} /\ shown = << >>

EnvNext ==
  \/ \E id \in {1, 4, 5}, critical \in BOOLEAN : SetRecheck(id, critical)
  \/ \E seq \in {0, 1} : SetSignerCounter(seq)
  \/ \E pb \in Boundaries : SetProducingBoundary(pb)
  \/ \E o \in Drafts, k \in KeyNames \ {"m", "n"} : EzSign(o, k)
  \/ \E act \in SigningActs : Sign(act)
  \/ /\ got = Nothing
     /\ \E msg \in Messages, profile \in {1, 3} :
          \/ \E keys \in PublicKeys : Receive(profile, keys, msg)
          \/ \E keys \in KeyPairs : ReceiveRotation(profile, keys, msg)
  \/ Restore
  \/ \E copy \in 1..2, stamped \in BOOLEAN : Emit(copy, stamped)
  \/ \E o \in made : Show(o)

EnvSpec == EnvInit /\ [][EnvNext]_envvars

------------------------------------------------------------------------------
(* No combination of headers, payloads and signatures passes for something   *)
(* that was not signed: for every honest key the verifier was given, its     *)
(* owner signed exactly this header and payload in exactly this form and     *)
(* place, so a composite is never stripped to one leg and a rotation never   *)
(* accepted on one signature (envelope.verify, verify_rotation_object).      *)
AcceptedWasSigned ==
  got # Nothing =>
    LET form == IF got.by = "rotation" THEN "rotation"
                ELSE IF got.msg.header.alg = COMPOSITE THEN "composite" ELSE "pure"
    IN /\ \A i \in DOMAIN got.keys : got.keys[i] \in Honest =>
            \E act \in acts : /\ act.form = form /\ act.keys[i] = got.keys[i]
                              /\ act.header = got.msg.header /\ act.payload = got.msg.payload
       /\ IsRotation(got.msg.payload.obj) <=> form = "rotation"

(* A relying party can act on what it accepted: a key it relied on meets the *)
(* level of its profile (the Ed25519 leg of a composite has none), on the    *)
(* Sovereign profile every key does, and the re-check a critical annotation  *)
(* demands is one it knows how to run (cose.profile_min_level, verify).      *)
AcceptedIsUsable ==
  got # Nothing =>
    LET o == got.msg.payload.obj
    IN /\ \E i \in DOMAIN got.keys : AlgLevel(KEYS[got.keys[i]]) >= ProfileMinLevel(got.profile)
       /\ got.profile = PROFILE.sovereign =>
            \A i \in DOMAIN got.keys : KEYS[got.keys[i]] = ALG.mldsa87
       /\ Recheck(o).critical => IsKnownRecheck(Recheck(o).proc)

(* Annotations do not disturb one another: after any calls of the three      *)
(* setters, each getter gives back the last value its own setter was given,  *)
(* a critical re-check before an ordinary one, an ill-formed boundary as     *)
(* none, and the entries nobody set stay where they were.                    *)
AnnotationsKept ==
  LET pb == BoundaryValue(wanted.boundary)
      foreign(m) == {i \in DOMAIN m : m[i][1] \notin {RECHECK_KEY, SIGNER_COUNTER_KEY, PRODUCING_BOUNDARY_KEY}}
  IN edits > 0 =>
       /\ wanted.critical # -1 => Recheck(draft) = [proc |-> wanted.critical, critical |-> TRUE]
       /\ wanted.recheck # -1 /\ ~Recheck(draft).critical => Recheck(draft).proc = wanted.recheck
       /\ wanted.counter # -1 => SignerCounter(draft) = wanted.counter
       /\ wanted.boundary # NoBoundary =>
            ProducingBoundary(draft) = IF WellFormedBoundary(pb) THEN pb ELSE NoBoundary
       /\ \E d \in Drafts : /\ d.body = draft.body /\ foreign(d.ext) = foreign(draft.ext)
                            /\ \A i \in foreign(d.ext) : draft.ext[i] = d.ext[i]
       /\ Keyed(draft.ext) /\ Keyed(draft.cext)

(* A signer that runs once is never accused, however often and in whatever   *)
(* order its objects arrive; two copies that stamped one counter value are   *)
(* found as soon as an object of each is shown (detect_signer_duplication).  *)
DuplicationExact ==
  LET found == DetectSignerDuplication(shown)
      stamped(i) == SignerCounter(shown[i]) # -1
  IN /\ Len(next) = 1 => found = {}
     /\ \A i, j \in DOMAIN shown :
          stamped(i) /\ SignerCounter(shown[i]) = SignerCounter(shown[j]) /\ shown[i].body[1] # shown[j].body[1]
            => \E f \in found : {shown[i], shown[j]} \subseteq f.ids
     /\ \A f \in found : \A o \in f.ids : o \in ToSet(shown) /\ SignerCounter(o) = f.counter

(* An accepted envelope is what every named key's owner signed, strong       *)
(* enough and understood, with the annotations that were set; and a copied   *)
(* signer is found out, an honest one not (envelope.verify,                  *)
(* detect_signer_duplication).                                               *)
EnvelopeSpeaksTrue ==
  /\ AcceptedWasSigned
  /\ AcceptedIsUsable
  /\ AnnotationsKept
  /\ DuplicationExact
==============================================================================
