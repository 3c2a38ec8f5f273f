-------------------------------- MODULE Flows --------------------------------
(***************************************************************************)
(* Long exchanges under few signatures: native streams and their guard     *)
(* (streaming.py), flow continuations (continuation.py), and negotiations, *)
(* risk labels and trust references (negotiation.py).                      *)
(*                                                                         *)
(* Digests, heads and content ids are the values they are computed from.   *)
(* Chunks and continuations are not signed: whoever relays them may drop,  *)
(* repeat, reorder, relabel and splice them.  A behaviour is about one of  *)
(* the three exchanges (topic).                                            *)
(***************************************************************************)
EXTENDS Integers, SequencesExt, FiniteSets

CONSTANTS
  Streams,           \* stream ids of one connection
  GrantedMax,        \* effect ceiling of the connection
  Pieces,            \* data a chunk can carry
  MAX_STREAM_CHUNKS, \* 65536 in the code
  MaxLinks,          \* bound on the continuations of a flow
  MaxSeals,          \* bound on the FlowCommits signed
  MaxU64,            \* the largest sequence number a checkpoint can name
  MaxMessages        \* bound on the messages of negotiations

(* Chunks carry octets, and the bounds are within what a checkpoint can name. *)
DataOctets == UNION {ToSet(p) : p \in Pieces}
ASSUME FlowsConstants ==
  /\ Pieces \subseteq Seq(DataOctets)
  /\ {MAX_STREAM_CHUNKS, MaxLinks, MaxU64, MaxMessages} \subseteq Nat
  /\ MaxLinks <= MaxU64

VARIABLES
  topic,         \* "stream" | "flow" | "deal"
  guard,         \* state of each stream
  sent,          \* chunks its sender produced, in order
  commit,        \* the StreamCommit each sender signed (over: for which chunks), or NoCommit
  held,          \* chunks each receiver holds, in order of arrival
  passed,        \* chunks the guard let through that are not stored yet
  settled,       \* what the receiver held when the guard committed the stream
  chain,         \* continuations of the honest flow
  sealed,        \* FlowCommits its owner signed, with the chain each was signed over
  marks,         \* checkpoints, likewise
  msgs,          \* negotiation messages that were signed
  known,         \* those a verifier has received
  labeled        \* the labeled object a verifier accepted last
flowvars == <<topic, guard, sent, commit, held, passed, settled, chain, sealed, marks, msgs, known, labeled>>

DESTRUCTIVE == 3
NormalizeEffect(e) == IF e \in 0..DESTRUCTIVE THEN e ELSE DESTRUCTIVE
Authorizes(max, e) == e <= max
InLattice(e) == e \in 0..DESTRUCTIVE

------------------------------------------------------------------------------
(* Streams.                                                                  *)
Chunk(offset, data) == [offset |-> offset, data |-> data]
StreamOctets(chunks) ==
  LET joined[n \in 0..Len(chunks)] == IF n = 0 THEN << >> ELSE joined[n - 1] \o chunks[n].data
  IN joined[Len(chunks)]
NoCommit == [none |-> TRUE]

\* sorted() is stable: chunks at one offset stay in the order they are given in.
GoesBefore(chunks, i, j) ==
  chunks[i].offset < chunks[j].offset \/ (chunks[i].offset = chunks[j].offset /\ i < j)
PlaceOf(chunks, i) == 1 + Cardinality({j \in DOMAIN chunks : GoesBefore(chunks, j, i)})
InOrder(chunks) ==
  [k \in DOMAIN chunks |-> chunks[CHOOSE i \in DOMAIN chunks : PlaceOf(chunks, i) = k]]

\* Mutant: a rolling digest over the chunks as they arrived.
CommitDigestArrival(chunks) == StreamOctets(chunks)

CommitDigest(chunks) == StreamOctets(InOrder(chunks))

OpenStream(effect, max) == IF Authorizes(max, NormalizeEffect(effect)) THEN "ok" ELSE "EffectNotAuthorized"

\* Mutant: a count of the octets stands in for their digest.
VerifyCommitLength(digest, chunks) ==
  IF Len(digest) = Len(StreamOctets(chunks)) THEN "ok" ELSE "StreamDigestMismatch"

VerifyCommit(digest, chunks) ==
  IF Len(chunks) > MAX_STREAM_CHUNKS        THEN "TooManyChunks"
  ELSE IF digest # CommitDigest(chunks)     THEN "StreamDigestMismatch"
  ELSE "ok"

Contiguous(chunks) ==
  LET s == InOrder(chunks) IN \A i \in DOMAIN s : s[i].offset = Len(StreamOctets(SubSeq(s, 1, i - 1)))

VerifyCheckpoint(through, digest, prefix) ==
  IF /\ Len(prefix) <= MAX_STREAM_CHUNKS /\ Contiguous(prefix)
     /\ Len(StreamOctets(prefix)) = through /\ digest = CommitDigest(prefix)
  THEN "ok" ELSE "StreamDigestMismatch"

StreamFrame == topic = "stream" /\ UNCHANGED <<topic, chain, sealed, marks, msgs, known, labeled>>

\* Mutant: only a stream that is open now refuses to be opened.
GuardOpenAgain(s, effect) ==
  /\ StreamFrame /\ guard[s] # "open" /\ OpenStream(effect, GrantedMax) = "ok"
  /\ guard' = [guard EXCEPT ![s] = "open"]
  /\ UNCHANGED <<sent, commit, held, passed, settled>>

GuardOpen(s, effect) ==
  /\ StreamFrame /\ guard[s] = "idle" /\ OpenStream(effect, GrantedMax) = "ok"
  /\ guard' = [guard EXCEPT ![s] = "open"]
  /\ UNCHANGED <<sent, commit, held, passed, settled>>

Produce(s, data) ==
  /\ StreamFrame /\ Len(sent[s]) < MAX_STREAM_CHUNKS
  /\ sent' = [sent EXCEPT ![s] = Append(@, Chunk(Len(StreamOctets(@)), data))]
  /\ UNCHANGED <<guard, commit, held, passed, settled>>

SignCommit(s) ==
  /\ StreamFrame /\ commit[s] = NoCommit
  /\ commit' = [commit EXCEPT ![s] = [digest |-> CommitDigest(sent[s]), over |-> sent[s]]]
  /\ UNCHANGED <<guard, sent, held, passed, settled>>

\* The guard is asked, the lock released, and then the caller stores the chunk.
GuardChunk(s, chunk) ==
  /\ StreamFrame /\ guard[s] = "open" /\ Len(held[s]) + Len(passed[s]) <= MAX_STREAM_CHUNKS
  /\ passed' = [passed EXCEPT ![s] = Append(@, chunk)]
  /\ UNCHANGED <<guard, sent, commit, held, settled>>

StoreChunk(s) ==
  /\ StreamFrame /\ passed[s] # << >>
  /\ held' = [held EXCEPT ![s] = Append(@, Head(passed[s]))]
  /\ passed' = [passed EXCEPT ![s] = Tail(@)]
  /\ UNCHANGED <<guard, sent, commit, settled>>

\* A commit that does not verify leaves the stream open.
GuardCommit(s) ==
  /\ StreamFrame /\ guard[s] = "open" /\ commit[s] # NoCommit
  /\ VerifyCommit(commit[s].digest, held[s]) = "ok"
  /\ guard' = [guard EXCEPT ![s] = "committed"]
  /\ settled' = [settled EXCEPT ![s] = held[s]]
  /\ UNCHANGED <<sent, commit, held, passed>>

GuardExpire(s) ==
  /\ StreamFrame /\ guard[s] = "open"
  /\ guard' = [guard EXCEPT ![s] = "abandoned"]
  /\ UNCHANGED <<sent, commit, held, passed, settled>>

------------------------------------------------------------------------------
(* Flows.  The head and the id of an object are the object.                  *)
FlowOpen(flow, ceiling) == [flow |-> flow, ceiling |-> ceiling]
Continuation(open, seq, effect, payload, prev) ==
  [open |-> open, seq |-> seq, effect |-> effect, payload |-> payload, prev |-> prev]
TheFlow == FlowOpen("f", 2)
OtherFlow == FlowOpen("g", DESTRUCTIVE)

\* Mutant: the link to the previous object is not checked.
VerifyContinuationUnlinked(c, open, prev, seq) ==
  IF c.open # open         THEN "WrongFlow"
  ELSE IF c.seq # seq      THEN "SeqGap"
  ELSE "ok"

VerifyContinuation(c, open, prev, seq) ==
  IF ~InLattice(open.ceiling) \/ ~InLattice(c.effect)     THEN "RangeError"
  ELSE IF c.open # open                                   THEN "WrongFlow"
  ELSE IF c.seq # seq                                     THEN "SeqGap"
  ELSE IF ~Authorizes(open.ceiling, c.effect)             THEN "AboveCeiling"
  ELSE IF c.prev # prev                                   THEN "ChainBroken"
  ELSE "ok"

\* The loop of verify_chain: sequence numbers count from 0, heads from the FlowOpen.
VerifyChain(open, conts) ==
  LET prev(i) == IF i = 1 THEN open ELSE conts[i - 1]
      bad == {i \in DOMAIN conts : VerifyContinuation(conts[i], open, prev(i), i - 1) # "ok"}
  IN IF bad = {} THEN "ok"
     ELSE LET i == CHOOSE k \in bad : \A l \in bad : k <= l
          IN VerifyContinuation(conts[i], open, prev(i), i - 1)
ChainHead(open, conts) == IF conts = << >> THEN open ELSE Last(conts)

VerifyMark(mark, open, prefix) ==
  IF mark.open # open THEN "WrongFlow"
  ELSE IF \/ mark.through = MaxU64
          \/ Len(prefix) # mark.through + 1
          \/ VerifyChain(open, prefix) # "ok"
          \/ mark.head # ChainHead(open, prefix) THEN "GapDetected"
  ELSE "ok"

\* A seal was signed by some key and has some of the fields of a FlowCommit (1 the flow, 2 the head).
VerifyFlowCommit(seal, key, open, conts) ==
  IF seal.by # key                                        THEN "BadSignature"
  ELSE IF ~({1, 2} \subseteq seal.fields)                 THEN "ContMalformed"
  ELSE IF seal.open # open                                THEN "WrongFlow"
  ELSE IF VerifyChain(open, conts) # "ok"                 THEN VerifyChain(open, conts)
  ELSE IF seal.head # ChainHead(open, conts)              THEN "CommitMismatch"
  ELSE "ok"

FlowFrame == topic = "flow" /\ UNCHANGED <<topic, guard, sent, commit, held, passed, settled, msgs, known, labeled>>

Continue(effect, payload) ==
  /\ FlowFrame /\ Len(chain) < MaxLinks
  /\ chain' = Append(chain, Continuation(TheFlow, Len(chain), effect, payload, ChainHead(TheFlow, chain)))
  /\ UNCHANGED <<sealed, marks>>

\* The owner of the flow or somebody who relays it; who relays it sees what has passed.
SignFlowCommit(by, fields) ==
  /\ FlowFrame /\ Cardinality(sealed) < MaxSeals
  /\ sealed' = sealed \cup {[by |-> by, fields |-> fields, open |-> TheFlow,
                              head |-> ChainHead(TheFlow, chain), over |-> chain]}
  /\ UNCHANGED <<chain, marks>>

MakeCheckpoint ==
  /\ FlowFrame /\ chain # << >>
  /\ marks' = marks \cup {[open |-> TheFlow, through |-> Len(chain) - 1, head |-> Last(chain), over |-> chain]}
  /\ UNCHANGED <<chain, sealed>>

------------------------------------------------------------------------------
(* Negotiations.  The id of a message is the message.                        *)
KnownRole(r) == r \in 0..2
OFFER == 0
COUNTER == 1
ACCEPT == 2
IsRegisteredProfile(p) == p \in 0..2
Message(neg, as, profile, causes) == [neg |-> neg, role |-> as, profile |-> profile, causes |-> causes]

\* A message as it arrives: the key it was signed with and the fields of its body.
VerifyMessage(o, key) ==
  LET m == o.body IN
  IF o.by # key                              THEN "BadSignature"
  ELSE IF ~(1..4 \subseteq o.fields)         THEN "NegMalformed"
  ELSE IF ~KnownRole(m.role)                 THEN "UnknownRole"
  ELSE IF ~IsRegisteredProfile(m.profile)    THEN "UnknownProfile"
  ELSE "ok"

\* Mutant: a cause that is not in the index counts as reached.
DescendsTrusting(from, target, index) ==
  LET step(ids) == ids \cup UNION {ToSet(i.causes) : i \in ids}
      reached[n \in 0..MaxMessages] == IF n = 0 THEN ToSet(from.causes) ELSE step(reached[n - 1])
  IN target \in reached[MaxMessages]

\* The walk over the causes; one that is not in the index is reached, never followed.
Descends(from, target, index) ==
  LET step(ids) == ids \cup UNION {ToSet(i.causes) : i \in ids \cap index}
      reached[n \in 0..MaxMessages] == IF n = 0 THEN ToSet(from.causes) ELSE step(reached[n - 1])
  IN target \in reached[MaxMessages]

VerifyAccept(accept, offer, index) ==
  IF offer.role # OFFER                               THEN "NotOffer"
  ELSE IF ~IsRegisteredProfile(offer.profile)         THEN "UnknownProfile"
  ELSE IF accept.role # ACCEPT                        THEN "NotAccept"
  ELSE IF ~IsRegisteredProfile(accept.profile)        THEN "UnknownProfile"
  ELSE IF ~Descends(accept, offer, index)             THEN "NotDescended"
  ELSE "ok"

DealFrame == topic = "deal" /\ UNCHANGED <<topic, guard, sent, commit, held, passed, settled, chain, sealed, marks>>
NewMessage(m) ==
  /\ DealFrame /\ Cardinality(msgs) < MaxMessages
  /\ msgs' = msgs \cup {m} /\ UNCHANGED <<known, labeled>>

NewOffer(neg, profile) == NewMessage(Message(neg, OFFER, profile, << >>))
NewCounter(neg, profile, pred) == NewMessage(Message(neg, COUNTER, profile, <<pred>>))
NewAccept(neg, profile, pred) == NewMessage(Message(neg, ACCEPT, profile, <<pred>>))

Learn(o) ==
  /\ DealFrame /\ VerifyMessage(o, "peer") = "ok"
  /\ known' = known \cup {o.body} /\ UNCHANGED <<msgs, labeled>>

(* Risk labels: 1 and 2 gate, 3 informs; any other code is unknown.          *)
RISK_VOCAB == 1..3
Label(code, critical) == [code |-> code, critical |-> critical]
\* Mutant: codes of the extensible range are ignored whatever they say.
ValidateLabelsExtensible(labels) ==
  LET bad == {i \in DOMAIN labels : labels[i].code < 4096 /\ labels[i].code \notin RISK_VOCAB
                                      /\ labels[i].critical = 1}
  IN [verdict |-> IF bad = {} THEN "ok" ELSE "refused",
      recognized |-> {l \in ToSet(labels) : l.code \in RISK_VOCAB}]

ValidateLabels(labels) ==
  LET bad == {i \in DOMAIN labels : labels[i].critical > 1
                                      \/ (labels[i].code \notin RISK_VOCAB /\ labels[i].critical = 1)}
  IN [verdict |-> IF bad = {} THEN "ok" ELSE "refused",
      recognized |-> {l \in ToSet(labels) : l.code \in RISK_VOCAB}]
EffectClass(o) == NormalizeEffect(o.effect)

AcceptLabeled(o) ==
  /\ DealFrame /\ ValidateLabels(o.labels).verdict = "ok"
  /\ labeled' = [obj |-> o, recognized |-> ValidateLabels(o.labels).recognized, class |-> EffectClass(o)]
  /\ UNCHANGED <<msgs, known>>

BindsRecord(ref, record) == ref.reference = record
VerifyTrustRef(ref, record) == IF BindsRecord(ref, record) THEN "ok" ELSE "ReferenceMismatch"

------------------------------------------------------------------------------
NoLabeled == [obj |-> [effect |-> 0, labels |-> << >>], recognized |-> {}, class |-> 0]
FlowsInit ==
  /\ topic \in {"stream", "flow", "deal"}
  /\ guard = [s \in Streams |-> "idle"] /\ commit = [s \in Streams |-> NoCommit]
  /\ sent = [s \in Streams |-> << >>] /\ held = sent /\ passed = sent /\ settled = sent
  /\ chain = << >> /\ sealed = {} /\ marks = {}
  /\ msgs = {} /\ known = {} /\ labeled = NoLabeled

\* What may arrive: any chunk that was produced, at its offset or at another.
Arriving(s) == ToSet(sent[s]) \cup {[c EXCEPT !.offset = 2] : c \in ToSet(sent[s])}

\* A code of the vocabulary, an unknown one, and one of the extensible range.
LabelCodes == {1, 9, 4096}

FlowsNext ==
  \/ \E s \in Streams :
       \/ \E effect \in {0, 2, 3, 7} : GuardOpen(s, effect)
       \/ \E data \in Pieces : Produce(s, data)
       \/ \E c \in Arriving(s) : GuardChunk(s, c)
       \/ SignCommit(s) \/ StoreChunk(s) \/ GuardCommit(s) \/ GuardExpire(s)
  \/ \E effect \in {1, 3, 9}, payload \in {"x", "y"} : Continue(effect, payload)
  \/ \E by \in {"owner", "relay"}, fields \in {{1}, {1, 2}} : SignFlowCommit(by, fields)
  \/ MakeCheckpoint
  \/ \E neg \in {"n", "k"}, profile \in {0, 5} : NewOffer(neg, profile)
  \/ \E neg \in {"n", "k"}, m \in msgs : NewCounter(neg, 1, m) \/ NewAccept(neg, 1, m)
  \/ \E m \in msgs, k \in msgs : NewMessage(Message("n", ACCEPT, 2, <<m, k>>)) \/ NewMessage(Message("n", 7, 0, <<m>>))
  \/ \E m \in msgs, by \in {"peer", "other"}, fields \in {1..3, 1..4} : Learn([by |-> by, fields |-> fields, body |-> m])
  \/ \E effect \in {0, 7}, code \in LabelCodes, critical \in 0..2 :
       AcceptLabeled([effect |-> effect, labels |-> <<Label(3, 0), Label(code, critical)>>])

FlowsSpec == FlowsInit /\ [][FlowsNext]_flowvars

------------------------------------------------------------------------------
(* One signature speaks for the whole stream: what the guard commits is, to  *)
(* the octet, what the sender signed for, although chunks are unsigned and   *)
(* arrive lost, repeated, reordered or relabelled (verify_commit), and a     *)
(* checkpoint only ever confirms a true prefix (verify_checkpoint).          *)
CommittedIsWhatWasSent ==
  \A s \in Streams :
    /\ guard[s] = "committed" => StreamOctets(InOrder(settled[s])) = StreamOctets(commit[s].over)
    /\ \A n \in 0..Len(StreamOctets(sent[s])) :
         VerifyCheckpoint(n, SubSeq(StreamOctets(sent[s]), 1, n), held[s]) = "ok" =>
           IsPrefix(CommitDigest(held[s]), StreamOctets(sent[s]))

(* The order of arrival never matters: a receiver that holds every chunk     *)
(* the sender signed for, once each, can commit (commit_digest sorts), empty *)
(* chunks that share an offset with others included.                         *)
AnyOrderWillDo ==
  \A s \in Streams :
    /\ commit[s] # NoCommit /\ commit[s].digest = StreamOctets(sent[s])
    /\ Len(held[s]) = Len(sent[s])
    /\ \E place \in Bijection(DOMAIN held[s], DOMAIN sent[s]) :
         \A i \in DOMAIN held[s] : held[s][i] = sent[s][place[i]]
    => VerifyCommit(commit[s].digest, held[s]) = "ok"

(* A stream that is committed or abandoned stays so: neither a late chunk,   *)
(* nor a timer that fires late, nor a replayed StreamOpen brings it back     *)
(* (streaming.Guard, which never evicts a terminal entry).                   *)
TerminalIsFinal ==
  [][\A s \in Streams : guard[s] \in {"committed", "abandoned"} =>
       guard'[s] = guard[s] /\ settled'[s] = settled[s]]_flowvars

(* A FlowCommit or a checkpoint of the owner accepts the continuations it    *)
(* was made over and no other list: none dropped, repeated, reordered,       *)
(* spliced in from another flow, or above the ceiling the one signature      *)
(* fixed; a FlowCommit of somebody else accepts none.                        *)
FlowsExact ==
  LET links == ToSet(chain)
      forged == {[c EXCEPT !.effect = 0] : c \in links} \cup {[c EXCEPT !.seq = @ + 1] : c \in links}
                  \cup {[c EXCEPT !.open = OtherFlow] : c \in links}
      offered == SeqOf(links \cup forged, MaxLinks)
      verdict == VerifyChain(TheFlow, chain)
  IN /\ \A seal \in sealed, conts \in offered :
          VerifyFlowCommit(seal, "owner", TheFlow, conts) = "ok" => seal.by = "owner" /\ conts = seal.over
     /\ \A mark \in marks, conts \in offered :
          VerifyMark(mark, TheFlow, conts) = "ok" => conts = mark.over
     /\ verdict = "ok" <=> \A c \in links : c.effect <= TheFlow.ceiling
     /\ verdict = "ok" =>
          /\ \A seal \in sealed : seal.by = "owner" /\ seal.fields = {1, 2} =>
                                    VerifyFlowCommit(seal, "owner", TheFlow, seal.over) = "ok"
          /\ \A mark \in marks : VerifyMark(mark, TheFlow, mark.over) = "ok"

(* A deal is closed only along messages the verifier has itself received:    *)
(* an accept is good exactly when some path of known messages leads from it  *)
(* to the offer (negotiation.descends); a pointer to a message never seen    *)
(* makes no descent.                                                         *)
AcceptHasPath ==
  \A accept, offer \in known :
    VerifyAccept(accept, offer, known) = "ok" <=>
      /\ accept.role = ACCEPT /\ offer.role = OFFER
      /\ \E path \in SeqOf(known, MaxMessages) :
           /\ Len(path) > 1 /\ path[1] = accept /\ Last(path) = offer
           /\ \A i \in 1..(Len(path) - 1) : path[i + 1] \in ToSet(path[i].causes)

(* Labels inform and never lower anything: the effect class is that of the   *)
(* effect alone, unknown or not, and no critical label goes unrecognized     *)
(* (negotiation.validate_labels, effect_class).                              *)
LabelsFailClosed ==
  /\ labeled.class >= labeled.obj.effect \/ labeled.class = DESTRUCTIVE
  /\ \A i \in DOMAIN labeled.obj.labels :
       labeled.obj.labels[i].critical = 1 => labeled.obj.labels[i] \in labeled.recognized

(* One signature at the end of a stream, a flow or a deal speaks for         *)
(* everything before it, whatever the network did to the unsigned parts      *)
(* (verify_commit, verify_flow_commit, verify_accept).                       *)
FlowsAsSigned ==
  /\ CommittedIsWhatWasSent
  /\ AnyOrderWillDo
  /\ FlowsExact
  /\ AcceptHasPath
  /\ LabelsFailClosed
==============================================================================
