------------------------------ MODULE WireForms ------------------------------
(***************************************************************************)
(* What travels between two parties: the one canonical form of a value     *)
(* (cbor.py, naalp-codec), the error object (naalperror.py), and a foreign *)
(* message carried over one transport after another (carriage.py,          *)
(* transport.py).  A behaviour is about one of them (wiredesk): bytes that *)
(* arrive one by one, a value that is built up, an error sent to a peer    *)
(* with another edition of the registry, or a carriage that is relayed.    *)
(***************************************************************************)
EXTENDS Integers, SequencesExt, FiniteSetsExt

CONSTANTS
  Alphabet,      \* the bytes that arrive
  MaxBytes,      \* bound on how many of them
  MaxBuild,      \* bound on the steps that build a value
  MaxHops,       \* bound on the transports a carriage passes
  NAMES,         \* the registry of error names, in order
  OlderEdition   \* how many of them the older peer knows

VARIABLES
  wiredesk,      \* "bytes" | "value" | "error" | "carry"
  buffer,        \* the bytes that arrived
  value,         \* the value being built
  steps,         \* steps taken to build it
  report,        \* the error map on the wire
  unit,          \* what is on the wire: a message unit, or Idle
  trail          \* history: the transports that carried it, and with which demands
wirevars == <<wiredesk, buffer, value, steps, report, unit, trail>>

------------------------------------------------------------------------------
(* Values are <<"U", n>>, <<"N", n>>, <<"B", bytes>>, <<"T", bytes>>,         *)
(* <<"A", items>>, <<"M", pairs>>, <<"Tag", n, content>>; <<"F", 0>> is a     *)
(* float, which only a caller can hand in.  A result is [err, v, rest] or     *)
(* [err, bytes].                                                              *)
Decoded(v, rest) == [err |-> "", v |-> v, rest |-> rest]
DecodeFails(err) == [err |-> err, v |-> <<"U", 0>>, rest |-> << >>]
EncodeFails(err) == [err |-> err, bytes |-> << >>]

\* The additional information 24..27 announces 1, 2, 4 or 8 octets.
Octets(ai) == CASE ai = 24 -> 1 [] ai = 25 -> 2 [] ai = 26 -> 4 [] ai = 27 -> 8 [] OTHER -> 0
FromBytes(bs) == FoldLeft(LAMBDA n, b : n * 256 + b, 0, bs)
ToBytes(n, width) == [i \in 1..width |-> (n \div 256^(width - i)) % 256]

\* Mutant: a longer head than needed is let through.
ShortestAlways(bs) == TRUE

\* An argument that fits in half the octets, or below 24 in one, is not the shortest.
Shortest(bs) ==
  IF Len(bs) = 1 THEN bs[1] >= 24 ELSE \E i \in 1..(Len(bs) \div 2) : bs[i] # 0

\* Heads of 8 octets are above the integers of this model, and above Alphabet.
InitialBytes(major, n) ==
  CASE n < 24     -> << 32 * major + n >>
    [] n < 256    -> << 32 * major + 24, n >>
    [] n < 65536  -> << 32 * major + 25 >> \o ToBytes(n, 2)
    [] OTHER      -> << 32 * major + 26 >> \o ToBytes(n, 4)

\* Characters of one and of two octets; no longer one is in the texts of this model.
Utf8(bs) ==
  LET lead(i) == i \in DOMAIN bs /\ bs[i] \in 194..223
      more(i) == i \in DOMAIN bs /\ bs[i] \in 128..191
  IN \A i \in DOMAIN bs : bs[i] < 128 \/ (lead(i) /\ more(i + 1)) \/ (more(i) /\ lead(i - 1))

\* Python's order on bytes: a proper prefix comes first.
BytesLess(s, t) ==
  \E n \in 0..Len(s) :
    /\ n <= Len(t) /\ SubSeq(s, 1, n) = SubSeq(t, 1, n)
    /\ n < Len(t) /\ (n = Len(s) \/ s[n + 1] < t[n + 1])

Drop(bs, n) == SubSeq(bs, n + 1, Len(bs))

RECURSIVE Dec(_, _, _), DecItems(_, _, _, _), DecPairs(_, _, _, _, _)
Dec(data, depth, max) ==
  IF depth > max THEN DecodeFails("DepthExceeded")
  ELSE IF data = << >> THEN DecodeFails("NonCanonical")
  ELSE
    LET major == data[1] \div 32
        ai == data[1] % 32
        n == Octets(ai)
        arg == IF ai < 24 THEN ai ELSE FromBytes(SubSeq(data, 2, 1 + n))
        rest == Drop(data, 1 + n)
    IN CASE ai > 27 \/ Len(data) < 1 + n                     -> DecodeFails("NonCanonical")
         [] n > 0 /\ ~Shortest(SubSeq(data, 2, 1 + n))       -> DecodeFails("NonCanonical")
         [] major = 0                                        -> Decoded(<<"U", arg>>, rest)
         [] major = 1                                        -> Decoded(<<"N", -1 - arg>>, rest)
         [] major \in {2, 3} /\ Len(rest) < arg              -> DecodeFails("NonCanonical")
         [] major = 2                                        -> Decoded(<<"B", SubSeq(rest, 1, arg)>>, Drop(rest, arg))
         [] major = 3 ->
              IF Utf8(SubSeq(rest, 1, arg)) THEN Decoded(<<"T", SubSeq(rest, 1, arg)>>, Drop(rest, arg))
              ELSE DecodeFails("UnicodeDecodeError")
         [] major = 4                                        -> DecItems(arg, rest, depth + 1, max)
         [] major = 5                                        -> DecPairs(arg, rest, << >>, depth + 1, max)
         [] major = 6 ->
              LET c == Dec(rest, depth + 1, max)
              IN IF c.err # "" THEN c ELSE Decoded(<<"Tag", arg, c.v>>, c.rest)
         [] OTHER                                            -> DecodeFails("NonCanonical")
DecItems(n, data, depth, max) ==
  IF n = 0 THEN Decoded(<<"A", << >> >>, data)
  ELSE LET it == Dec(data, depth, max)
       IN IF it.err # "" THEN it
          ELSE LET more == DecItems(n - 1, it.rest, depth, max)
               IN IF more.err # "" THEN more ELSE Decoded(<<"A", <<it.v>> \o more.v[2]>>, more.rest)
\* prev is the encoded key before; the next one must be greater.
DecPairs(n, data, prev, depth, max) ==
  IF n = 0 THEN Decoded(<<"M", << >> >>, data)
  ELSE LET k == Dec(data, depth, max)
           kbytes == SubSeq(data, 1, Len(data) - Len(k.rest))
           val == Dec(k.rest, depth, max)
       IN CASE k.err # ""                                      -> k
            [] val.err # ""                                    -> val
            [] prev # << >> /\ ~BytesLess(prev, kbytes)        -> DecodeFails("NonCanonical")
            [] OTHER ->
                 LET more == DecPairs(n - 1, val.rest, kbytes, depth, max)
                 IN IF more.err # "" THEN more
                    ELSE Decoded(<<"M", << <<k.v, val.v>> >> \o more.v[2]>>, more.rest)

UNBOUNDED == 100       \* 2^20 in the code
DecodeBounded(data, max) ==
  LET d == Dec(data, 1, max) IN IF d.err = "" /\ d.rest # << >> THEN DecodeFails("NonCanonical") ELSE d
Decode(data) == DecodeBounded(data, UNBOUNDED)

\* Mutant: the pairs stay in the caller's order.
EncodePairsAsGiven(enc) ==
  [err |-> "", bytes |-> InitialBytes(5, Len(enc)) \o FlattenSeq([i \in DOMAIN enc |-> enc[i][1] \o enc[i][2]])]

\* By encoded key, and no key twice.
EncodePairs(enc) ==
  LET sorted == SetToSortSeq(ToSet(enc), LAMBDA p, q : BytesLess(p[1], q[1]))
  IN IF Cardinality({p[1] : p \in ToSet(enc)}) # Len(enc) THEN EncodeFails("NonCanonical")
     ELSE [err |-> "",
            bytes |-> InitialBytes(5, Len(enc)) \o FlattenSeq([i \in DOMAIN sorted |-> sorted[i][1] \o sorted[i][2]])]

RECURSIVE Encode(_)
Encode(v) ==
  LET plain(bs) == [err |-> "", bytes |-> bs]
      join(head, parts) == IF \E i \in DOMAIN parts : parts[i].err # "" THEN EncodeFails("NonCanonical")
                           ELSE plain(head \o FlattenSeq([i \in DOMAIN parts |-> parts[i].bytes]))
  IN CASE v[1] = "U"    -> plain(InitialBytes(0, v[2]))
       [] v[1] = "N"    -> plain(InitialBytes(1, -1 - v[2]))
       [] v[1] = "B"    -> plain(InitialBytes(2, Len(v[2])) \o v[2])
       [] v[1] = "T"    -> plain(InitialBytes(3, Len(v[2])) \o v[2])
       [] v[1] = "A"    -> join(InitialBytes(4, Len(v[2])), [i \in DOMAIN v[2] |-> Encode(v[2][i])])
       [] v[1] = "Tag"  -> join(InitialBytes(6, v[2]), << Encode(v[3]) >>)
       [] v[1] = "M" ->
            LET enc == [i \in DOMAIN v[2] |-> <<Encode(v[2][i][1]), Encode(v[2][i][2])>>]
            IN IF \E i \in DOMAIN enc : \E j \in 1..2 : enc[i][j].err # "" THEN EncodeFails("NonCanonical")
               ELSE EncodePairs([i \in DOMAIN enc |-> <<enc[i][1].bytes, enc[i][2].bytes>>])
       [] OTHER         -> EncodeFails("NonCanonical")        \* a float, anywhere inside

VerifyRoundtrip(v) == Encode(Decode(Encode(v).bytes).v) = Encode(v)

\* The nesting of a value, the value itself being 1.
RECURSIVE Depth(_)
Depth(v) ==
  CASE v[1] = "A"   -> 1 + Max({0} \cup {Depth(v[2][i]) : i \in DOMAIN v[2]})
    [] v[1] = "M"   -> 1 + Max({0} \cup {Depth(v[2][i][j]) : i \in DOMAIN v[2], j \in 1..2})
    [] v[1] = "Tag" -> 1 + Depth(v[3])
    [] OTHER        -> 1

------------------------------------------------------------------------------
ByteArrives(b) ==
  /\ wiredesk = "bytes" /\ Len(buffer) < MaxBytes
  /\ buffer' = Append(buffer, b)
  /\ UNCHANGED <<wiredesk, value, steps, report, unit, trail>>

Leaves == {<<"U", 0>>, <<"U", 24>>, <<"U", 300>>, <<"N", -1>>, <<"B", << >> >>, <<"T", <<97>> >>, <<"F", 0>>}
Wrapped(v) ==
  {<<"A", <<v>> >>, <<"Tag", 0, v>>, <<"M", << <<v, v>> >> >>}
    \cup {<<"A", <<v, l>> >> : l \in Leaves}
    \cup {<<"M", << <<l, v>>, <<k, l>> >> >> : l \in Leaves, k \in Leaves}

Build(v) ==
  /\ wiredesk = "value" /\ steps < MaxBuild
  /\ value' = v /\ steps' = steps + 1
  /\ UNCHANGED <<wiredesk, buffer, report, unit, trail>>

------------------------------------------------------------------------------
(* Error objects are maps of pairs <<key, value>>: 1 the code, 2 the name,   *)
(* 3 a detail, 4 the subject.  A peer knows an edition of the registry: a    *)
(* prefix of NAMES.                                                          *)
NoReport == << >>
NameForCode(edition, code) == IF code \in 1..edition THEN NAMES[code] ELSE "unregistered"
CodeForName(edition, name) ==
  IF \E c \in 1..edition : NAMES[c] = name THEN CHOOSE c \in 1..edition : NAMES[c] = name ELSE 0

EncodeError(code, name, detail, subject) ==
  << <<1, <<"U", code>> >>, <<2, <<"T", name>> >> >>
    \o (IF detail THEN << <<3, <<"T", "detail">> >> >> ELSE << >>)
    \o (IF subject THEN << <<4, <<"B", "subject">> >> >> ELSE << >>)

\* Mutant: a registered code is believed whatever name comes with it.
NameAgreesAlways(edition, code, name) == TRUE

NameAgrees(edition, code, name) == code \in 1..edition => NAMES[code] = name

FieldTypes == <<"U", "T", "T", "B">>
DecodeError(edition, m) ==
  LET at(k) == {i \in DOMAIN m : m[i][1] = k}
      get(k) == m[CHOOSE i \in at(k) : TRUE][2][2]
  IN CASE \E i \in DOMAIN m : m[i][1] \notin 1..4 \/ m[i][2][1] # FieldTypes[m[i][1]]  -> [err |-> "Malformed"]
       [] at(1) = {} \/ at(2) = {}                                                   -> [err |-> "Malformed"]
       [] ~NameAgrees(edition, get(1), get(2))                                       -> [err |-> "Malformed"]
       [] OTHER -> [err |-> "", code |-> get(1), name |-> get(2)]

\* A peer of either edition reports one of the errors it knows.
ReportError(edition, name, detail, subject) ==
  /\ wiredesk = "error" /\ report = NoReport /\ CodeForName(edition, name) # 0
  /\ report' = EncodeError(CodeForName(edition, name), name, detail, subject)
  /\ UNCHANGED <<wiredesk, buffer, value, steps, unit, trail>>

\* On the way a field is lost, added, retyped, or the name replaced.
Garbled(m) ==
  {RemoveAt(m, i) : i \in DOMAIN m}
    \cup {Append(m, <<5, <<"U", 0>> >>)}
    \cup {[m EXCEPT ![i][2][1] = "N"] : i \in DOMAIN m}
    \cup {[i \in DOMAIN m |-> IF m[i][1] = 2 THEN <<2, <<"T", NAMES[c]>> >> ELSE m[i]] : c \in DOMAIN NAMES}
GarbleError(m) ==
  /\ wiredesk = "error" /\ steps < MaxBuild
  /\ report' = m /\ steps' = steps + 1
  /\ UNCHANGED <<wiredesk, buffer, value, unit, trail>>

------------------------------------------------------------------------------
(* Carriage: [class, foreign] inside an object, over a transport.            *)
MEDIA_TYPE == "naalp+cbor"
CLASS_OPAQUE == 5
TRANSPORTS ==
  [npamp |-> [confidential |-> TRUE,  peer |-> TRUE],   quic |-> [confidential |-> TRUE,  peer |-> TRUE],
   wss   |-> [confidential |-> TRUE,  peer |-> FALSE],  ws   |-> [confidential |-> FALSE, peer |-> FALSE],
   https |-> [confidential |-> TRUE,  peer |-> FALSE],  http |-> [confidential |-> FALSE, peer |-> FALSE]]

ValidateClass(class) == IF class \in 0..CLASS_OPAQUE THEN "ok" ELSE "MappingError"

\* Every field of the wrong type or under an unknown key is refused; foreign must be there.
CarriageFromValue(body) ==
  CASE body.odd # ""                     -> "Malformed"
    [] body.foreign = ""                 -> "Malformed"
    [] OTHER                             -> ValidateClass(body.class)

\* Mutant: an authenticated peer makes up for a transport in the clear.
EmitOr(t, sensitive, auth) ==
  IF sensitive /\ ~t.confidential /\ ~auth THEN "ConfidentialTransportRequired" ELSE "ok"

EmitBytes(t, sensitive, auth) ==
  CASE sensitive /\ ~t.confidential      -> "ConfidentialTransportRequired"
    [] auth /\ ~t.peer                   -> "PeerUnauthenticated"
    [] OTHER                             -> "ok"

Idle == [at |-> "nowhere"]
Frame(name, body) == [at |-> name, media |-> MEDIA_TYPE, body |-> body]
UnitObject(u) == IF u.media = MEDIA_TYPE THEN "ok" ELSE "Malformed"
Hop(name, sensitive, auth) == [name |-> name, sensitive |-> sensitive, auth |-> auth]

\* carry, then emit: the class must be one there is.
CarryOut(name, class, sensitive, auth) ==
  /\ wiredesk = "carry" /\ unit = Idle
  /\ ValidateClass(class) = "ok" /\ EmitBytes(TRANSPORTS[name], sensitive, auth) = "ok"
  /\ unit' = Frame(name, [class |-> class, foreign |-> "request", odd |-> ""])
  /\ trail' = << Hop(name, sensitive, auth) >>
  /\ UNCHANGED <<wiredesk, buffer, value, steps, report>>

\* A relay takes the object out and frames it again; it may ask for more than the sender.
RelayOn(name, auth) ==
  /\ wiredesk = "carry" /\ unit # Idle /\ Len(trail) < MaxHops
  /\ UnitObject(unit) = "ok"
  /\ EmitBytes(TRANSPORTS[name], trail[1].sensitive, auth) = "ok"
  /\ unit' = Frame(name, unit.body)
  /\ trail' = Append(trail, Hop(name, trail[1].sensitive, auth))
  /\ UNCHANGED <<wiredesk, buffer, value, steps, report>>

\* A middlebox relabels the unit, or the carriage inside is not what carry() makes.
Mislabel(media, odd, class) ==
  /\ wiredesk = "carry" /\ unit # Idle /\ steps < 1
  /\ unit' = [unit EXCEPT !.media = media, !.body.odd = odd, !.body.class = class] /\ steps' = steps + 1
  /\ UNCHANGED <<wiredesk, buffer, value, report, trail>>

\* What the receiving end hands to the foreign protocol, "" if nothing.
HandedOver ==
  IF unit # Idle /\ UnitObject(unit) = "ok" /\ CarriageFromValue(unit.body) = "ok" THEN unit.body.foreign ELSE ""

------------------------------------------------------------------------------
WireInit ==
  /\ wiredesk \in {"bytes", "value", "error", "carry"}
  /\ buffer = << >> /\ value \in (IF wiredesk = "value" THEN Leaves ELSE {<<"U", 0>>}) /\ steps = 0
  /\ report = NoReport /\ unit = Idle /\ trail = << >>

WireNext ==
  \/ \E b \in Alphabet : ByteArrives(b)
  \/ wiredesk = "value" /\ \E v \in Wrapped(value) : Build(v)
  \/ \E edition \in {OlderEdition, Len(NAMES)}, c \in DOMAIN NAMES, detail, subject \in BOOLEAN :
       ReportError(edition, NAMES[c], detail, subject)
  \/ report # NoReport /\ \E m \in Garbled(report) : GarbleError(m)
  \/ \E name \in DOMAIN TRANSPORTS, class \in {0, 5, 6}, sensitive, auth \in BOOLEAN :
       CarryOut(name, class, sensitive, auth)
  \/ \E name \in DOMAIN TRANSPORTS, auth \in BOOLEAN : RelayOn(name, auth)
  \/ \E media \in {MEDIA_TYPE, "json"}, odd \in {"", "type", "key"}, class \in {0, 6} : Mislabel(media, odd, class)

WireSpec == WireInit /\ [][WireNext]_wirevars

------------------------------------------------------------------------------
(* There is one encoding of everything: bytes that decode are exactly what   *)
(* encoding the result gives, so no second form of an object has a content   *)
(* id of its own; and no accepted string begins another, so where an item    *)
(* ends is never in doubt (_dec, encode, decode).                            *)
OneEncoding ==
  wiredesk = "bytes" /\ Decode(buffer).err = "" =>
    /\ Encode(Decode(buffer).v) = [err |-> "", bytes |-> buffer]
    /\ \A n \in 1..(Len(buffer) - 1) : Decode(SubSeq(buffer, 1, n)).err # ""

(* Whatever can be encoded is read back as the same value, up to the order   *)
(* of its pairs, within any bound that admits its nesting and in no smaller  *)
(* one; a float or a repeated key anywhere inside is refused before anything *)
(* is sent (encode, _reject_bare_float, verify_roundtrip, decode_bounded).   *)
ReadBackAsSent ==
  wiredesk = "value" /\ Encode(value).err = "" =>
    /\ VerifyRoundtrip(value)
    /\ \A max \in 1..4 :
         DecodeBounded(Encode(value).bytes, max).err = (IF Depth(value) <= max THEN "" ELSE "DepthExceeded")

(* A peer with the older registry understands every report of a peer with    *)
(* the newer one and the other way round, and neither is ever shown a code   *)
(* it knows under a name that is not that code's (naalperror.decode).        *)
ErrorsMeanTheSame ==
  wiredesk = "error" /\ report # NoReport =>
    \A edition \in {OlderEdition, Len(NAMES)} :
      LET e == DecodeError(edition, report)
      IN /\ steps = 0 => e.err = "" /\ NAMES[e.code] = e.name
         /\ e.err = "" /\ e.code <= edition => e.name = NameForCode(edition, e.code)

(* A sensitive carriage crosses no transport in the clear and none with an   *)
(* unauthenticated peer where a hop asked for one, and what the far end      *)
(* hands over is what was carried, through any number of relays, or nothing  *)
(* (emit, frame, MessageUnit.object, carriage_from_value).                   *)
CarriedInConfidence ==
  /\ \A i \in DOMAIN trail : /\ trail[i].sensitive => TRANSPORTS[trail[i].name].confidential
                             /\ trail[i].auth => TRANSPORTS[trail[i].name].peer
  /\ HandedOver \in {"", "request"}
  /\ unit # Idle /\ steps = 0 => HandedOver = "request"
  /\ HandedOver # "" => unit.body.class \in 0..CLASS_OPAQUE /\ unit.body.odd = ""

(* Nothing changes on the wire: one encoding per value and one value per     *)
(* encoding, errors that peers of two editions read alike, carriage that     *)
(* arrives as sent and never in the clear when it must not be (cbor,         *)
(* naalperror, transport, carriage).                                         *)
WireExact ==
  /\ OneEncoding
  /\ ReadBackAsSent
  /\ ErrorsMeanTheSame
  /\ CarriedInConfidence
==============================================================================
