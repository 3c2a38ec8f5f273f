------------------------------- MODULE PreSend -------------------------------
(***************************************************************************)
(* The check before signing (naalp-validator) against the check after      *)
(* receiving (Envelope): an agent fills in a candidate field by field,     *)
(* sometimes with values of the wrong type or out of range, asks the       *)
(* firewall hook, and signs and sends what it allows to a peer.            *)
(***************************************************************************)
EXTENDS Envelope

CONSTANTS
  Blank,         \* the candidate an agent starts from
  MaxFills,      \* bound on the fields it changes
  Fillings       \* field |-> the values it may be given, Bad among them

VARIABLES
  outgoing,      \* the candidate
  fills,         \* fields changed so far
  decision,      \* what pre_send_hook said: Unasked, or the violations it found
  answer         \* what the peer made of the signed object, "" before
prevars == <<outgoing, fills, decision, answer>>

CONSUME_ONCE_KINDS == {<<4, 3>>}
UintFields == {"kind", "channel", "tier", "created", "effect", "profile", "suite"}

\* A size is a number of octets; any other number may be given wrongly.
ASSUME PreSendConstants ==
  /\ UintFields \cup {"size"} \subseteq DOMAIN Blank
  /\ Blank.size \in Nat /\ \A f \in UintFields : Blank[f] \in Nat \cup {Bad}
  /\ "size" \in DOMAIN Fillings => Fillings["size"] \subseteq Nat
  /\ \A f \in UintFields \cap DOMAIN Fillings : Fillings[f] \subseteq Nat \cup {Bad}

\* Octets: 1 fits; 2 fits, but the signed object around it does not; 3 does not.
MAX_OBJECT_SIZE == 2
SignedSize(c) == c.size + 1

Violation(error, field) == <<error, field>>
Unasked == {Violation("unasked", "")}

\* Mutant: off by one.
TooManyPlusOne(n, limit) == n > limit + 1

TooMany(n, limit) == n > limit

Mistyped(c) ==
  {Violation("Malformed", f) : f \in {g \in UintFields \cup {"audience", "causes", "ext", "cext"} : c[g] = Bad}}

\* Ranges and counts, of the fields that have their type.
OutOfBounds(c) ==
  {v \in {Violation("RangeError", "channel")}         : c.channel # Bad /\ c.channel > MAX_CHANNEL}
    \cup {v \in {Violation("RangeError", "effect")}   : c.effect # Bad /\ c.effect > DE}
    \cup {v \in {Violation("RangeError", "profile")}  : c.profile # Bad /\ c.profile \notin 1..3}
    \cup {v \in {Violation("TooManyCauses", "causes")} : c.causes # Bad /\ TooMany(c.causes, MAX_CAUSES)}
    \cup {Violation("TooManyExtensions", f) : f \in {g \in {"ext", "cext"} : c[g] # Bad /\ TooMany(Len(c[g]), MAX_EXT)}}

\* Mutant: every effecting kind must name its audience.
AudienceRuleForAll(c, self) ==
  {v \in {Violation("WrongAudience", "audience")} :
     IF c.audience = "" THEN c.effect # RO ELSE self # "" /\ c.audience # self}

\* A consume-once kind names its consuming authority; a known authority sees only its own.
AudienceRule(c, self) ==
  {v \in {Violation("WrongAudience", "audience")} :
     IF <<c.channel, c.kind>> \in CONSUME_ONCE_KINDS /\ c.audience = "" THEN TRUE
     ELSE self # "" /\ c.audience # "" /\ c.audience # self}

OnSurface(c) == c.channel # Bad /\ c.kind # Bad /\ c.channel <= MAX_CHANNEL

Registry(c) ==
  {v \in {Violation("UnknownKind", "kind")} : OnSurface(c) /\ ~Lookup(c.channel, c.kind)}
    \cup {v \in {Violation("EffectDeclarationMismatch", "effect")} :
            /\ OnSurface(c) /\ c.effect # Bad /\ c.effect <= DE
            /\ CheckEffect(c.channel, c.kind, c.effect) = "EffectDeclarationMismatch"}

\* Only a candidate whose every field has its type is encoded and read back.
Encoded(c) ==
  {v \in {Violation("TooLarge", "")}             : Mistyped(c) = {} /\ c.size > MAX_OBJECT_SIZE}
    \cup {v \in {Violation("DepthExceeded", "")} : Mistyped(c) = {} /\ c.deep}

Validate(c, self) ==
  Mistyped(c) \cup OutOfBounds(c) \cup Registry(c) \cup Encoded(c)
    \cup (IF c.audience # Bad /\ OnSurface(c) THEN AudienceRule(c, self) ELSE {})

------------------------------------------------------------------------------
Fill(f, v) ==
  /\ answer = "" /\ fills < MaxFills /\ fills' = fills + 1
  /\ outgoing' = [outgoing EXCEPT ![f] = v] /\ decision' = Unasked
  /\ UNCHANGED answer

PreSendHook(self) ==
  /\ answer = "" /\ decision = Unasked
  /\ decision' = Validate(outgoing, self)
  /\ UNCHANGED <<outgoing, fills, answer>>

\* The object the envelope knows: what is too large or too deep is big.
SealedObject(c) ==
  [channel |-> c.channel, kind |-> c.kind, effect |-> c.effect, profile |-> c.profile, ext |-> c.ext,
   cext |-> c.cext, signer |-> "a", body |-> 0, causes |-> c.causes, audience |-> c.audience,
   suite |-> c.suite, big |-> SignedSize(c) > MAX_OBJECT_SIZE \/ c.deep]

PeerSays(c) == Verify(PROFILE.public, <<"a1">>,
                      [tag |-> 18, header |-> ProtectedHeader(KEYS["a1"], SealedObject(c)), payload |-> Payload(SealedObject(c)),
                       sigs |-> <<[key |-> "a1", tbs |-> TbsOf(SignPure(SealedObject(c), "a1"), 1)]>>])

SignAndSend ==
  /\ answer = "" /\ decision = {}
  /\ answer' = PeerSays(outgoing)
  /\ UNCHANGED <<outgoing, fills, decision>>

PreInit == outgoing = Blank /\ fills = 0 /\ decision = Unasked /\ answer = ""

PreNext ==
  /\ \/ \E f \in DOMAIN Fillings : \E v \in Fillings[f] : Fill(f, v)
     \/ \E self \in {"", "ledger"} : PreSendHook(self)
     \/ SignAndSend
  /\ UNCHANGED envvars

PreSpec == PreInit /\ [][PreNext]_prevars

------------------------------------------------------------------------------
(* What the firewall lets through the peer accepts: an object that was       *)
(* allowed is refused only for what validate() does not look at, a rotation  *)
(* under one signature, a critical extension the peer does not know, a suite *)
(* the signature is not of, or the octets the signature adds (validate).     *)
AllowedIsAccepted ==
  answer # "" =>
    \/ answer = "ok"
    \/ answer = "RotationUnauthorized" /\ IsRotation(outgoing)
    \/ answer \in {"UnknownCriticalExt", "Malformed"} /\ outgoing.cext # << >>
    \/ answer = "SuiteMismatch" /\ outgoing.suite # 0
    \/ answer = "TooLarge" /\ outgoing.size = MAX_OBJECT_SIZE

(* The firewall stops nothing the wire would accept, but an effect that is   *)
(* not the declared one and an audience that is missing where something is   *)
(* consumed or is not the one consuming ("it never rejects a perfectly valid *)
(* non-consume-once effecting object that the wire itself accepts").         *)
DeniedForCause ==
  decision # Unasked /\ decision # {} /\ Mistyped(outgoing) = {} =>
    \/ PeerSays(outgoing) # "ok"
    \/ CheckEffect(outgoing.channel, outgoing.kind, outgoing.effect) # "ok"
    \/ <<outgoing.channel, outgoing.kind>> \in CONSUME_ONCE_KINDS /\ outgoing.audience = ""
    \/ outgoing.audience \notin {"", "ledger"}

(* The firewall judges as the peer will: what it lets through is accepted,   *)
(* what it stops would not be, up to the named differences                   *)
(* (validator.validate, pre_send_hook).                                      *)
FirewallMatchesPeer ==
  /\ AllowedIsAccepted
  /\ DeniedForCause
==============================================================================
