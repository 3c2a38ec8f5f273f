---------------------------- MODULE ProofRecords -----------------------------
(***************************************************************************)
(* Two kinds of proof that are checked long after the fact, away from the  *)
(* parties: a log of signed records (naalp-governance-verify) and a bundle *)
(* of an object, its approval and the receipt that consumed it             *)
(* (naalp-bundle).  A behaviour is about one of them (proofdesk).          *)
(*                                                                         *)
(* Agents write records, which land in a log that whoever stores it may    *)
(* reorder, thin out, repeat, alter, cut off or add to.  The parties sign  *)
(* objects, approvals and receipts, and anyone may put any of them into a  *)
(* bundle, with signatures of Mallory's and keys of her choosing.          *)
(***************************************************************************)
EXTENDS Integers, SequencesExt, FiniteSetsExt

CONSTANTS
  MaxRecords,    \* bound on the records the agents write
  MaxStored,     \* bound on the length of the stored log
  MaxTampering,  \* bound on what happens to the log in storage
  MaxFacts,      \* bound on what the parties sign
  VerifyTimes,   \* clock values
  Missing        \* no anchor, no key

VARIABLES
  proofdesk,     \* "log" | "bundle"
  records,       \* the records the agents wrote, in the order they did
  stored,        \* the log as it is in storage
  torn,          \* the log ends in the middle of a record
  tampering,     \* tampering so far
  facts,         \* what the parties signed: [role, by, thing]
  bundle,        \* a bundle somebody verified, Missing before
  said           \* under which anchor and when it was accepted
logvars == <<records, stored, torn, tampering>>
bundlevars == <<facts, bundle, said>>
proofvars == <<proofdesk, logvars, bundlevars>>

------------------------------------------------------------------------------
(* A record is [id, signer, key, created, causes]: key is the one that       *)
(* really signed it, id its content id, which covers all the rest.  A        *)
(* content id is a digest: ids come in any order.                            *)
Agents == {"a", "b"}
Ids == 1..MaxRecords
ForgedId == 0
RecordOf(id, signer, key, created, causes) ==
  [id |-> id, signer |-> signer, key |-> key, created |-> created, causes |-> causes]

\* Keys by claimed signer, or one key for every record (resolve_pubkey).
Resolvers == {[a |-> "a", b |-> "b"], [a |-> "a", b |-> Missing], [a |-> "a", b |-> "a"]}

LogOk(links, order) == [err |-> "", links |-> links, order |-> order]
LogRefused(err) == [err |-> err, links |-> << >>, order |-> << >>]

\* The length-prefixed records of the file; cut off inside one, nothing is read.
ReadLog(cut) == IF cut THEN "LogMalformed" ELSE "ok"

VerifyOne(r, resolver) ==
  CASE resolver[r.signer] = Missing         -> "UnresolvedSigner"
    [] r.key # resolver[r.signer]        -> "SignatureInvalid"
    [] OTHER                             -> "ok"

\* Mutant: the log's own order decides between records that are ready.
BeforeByPlace(links, i, j) == i < j

\* Smaller created first, then smaller content id.
Before(links, i, j) ==
  \/ links[i].created < links[j].created
  \/ links[i].created = links[j].created /\ links[i].id < links[j].id

At(links, id) == CHOOSE i \in DOMAIN links : links[i].id = id

\* A cause named twice is counted twice, and discharged twice when its record is taken.
Indegree(links, done, i) ==
  Cardinality({k \in DOMAIN links[i].causes : At(links, links[i].causes[k]) \notin done})

TopologicalOrder(links) ==
  LET order[n \in 0..Len(links)] ==
        IF n = 0 THEN << >>
        ELSE LET sofar == order[n - 1]
                 done == ToSet(sofar)
                 ready == {i \in DOMAIN links \ done : Indegree(links, done, i) = 0}
             IN IF ready = {} THEN sofar
                ELSE Append(sofar, CHOOSE i \in ready : \A j \in ready \ {i} : Before(links, i, j))
  IN order[Len(links)]

\* Mutant: a cause anywhere in the log will do.
CauseInPlaceAnywhere(links, i, c) == \E j \in DOMAIN links : links[j].id = c

CauseInPlace(links, i, c) == \E j \in DOMAIN links : j < i /\ links[j].id = c

\* Record by record first (signature, then repetition), then cause by cause.
VerifyRecordChain(links, resolver) ==
  LET bad == {i \in DOMAIN links : \/ VerifyOne(links[i], resolver) # "ok"
                                   \/ \E j \in 1..(i - 1) : links[j].id = links[i].id}
      first == Min(bad)
      stray == {p \in (DOMAIN links) \X (1..2) :
                  p[2] \in DOMAIN links[p[1]].causes /\ ~CauseInPlace(links, p[1], links[p[1]].causes[p[2]])}
      i1 == Min({p[1] : p \in stray})
      k1 == Min({p[2] : p \in {q \in stray : q[1] = i1}})
      order == TopologicalOrder(links)
  IN CASE bad # {} /\ VerifyOne(links[first], resolver) # "ok" -> LogRefused(VerifyOne(links[first], resolver))
       [] bad # {}                                             -> LogRefused("ChainOrderBroken")
       [] stray # {}                                           ->
            LogRefused(IF \E i \in DOMAIN links : links[i].id = links[i1].causes[k1]
                       THEN "ChainOrderBroken" ELSE "BrokenReferent")
       [] Len(order) # Len(links)                              -> LogRefused("ChainOrderBroken")
       [] OTHER                                                -> LogOk(links, order)

Replay(chain) == [n \in DOMAIN chain.order |-> chain.links[chain.order[n]]]

VerifyAndReplay(log, cut, resolver) ==
  IF ReadLog(cut) # "ok" THEN LogRefused(ReadLog(cut)) ELSE VerifyRecordChain(log, resolver)

\* What a verifier signs: how many, a digest of the replayed ids, the first and the last.
VerificationReceipt(chain) ==
  LET ids == [n \in DOMAIN chain.order |-> Replay(chain)[n].id]
  IN [count |-> Len(chain.links), digest |-> ids, ends |-> IF ids = << >> THEN {} ELSE {ids[1], Last(ids)}]

------------------------------------------------------------------------------
\* An agent can only name the content ids of records that exist; its clock may be off.
EmitRecord(id, agent, created, causes) ==
  /\ proofdesk = "log" /\ tampering = 0 /\ Len(records) < MaxRecords
  /\ \A i \in DOMAIN records : records[i].id # id
  /\ \A k \in DOMAIN causes : \E i \in DOMAIN records : records[i].id = causes[k]
  /\ records' = Append(records, RecordOf(id, agent, agent, created, causes))
  /\ stored' = Append(stored, RecordOf(id, agent, agent, created, causes))
  /\ UNCHANGED <<proofdesk, torn, tampering, bundlevars>>

Tamper ==
  /\ proofdesk = "log" /\ tampering < MaxTampering /\ ~torn
  /\ tampering' = tampering + 1
  /\ UNCHANGED <<proofdesk, records, bundlevars>>

SwapStored(i) ==
  /\ Tamper /\ i + 1 \in DOMAIN stored
  /\ stored' = [stored EXCEPT ![i] = stored[i + 1], ![i + 1] = stored[i]]
  /\ UNCHANGED torn

DropStored(i) ==
  /\ Tamper /\ i \in DOMAIN stored
  /\ stored' = RemoveAt(stored, i)
  /\ UNCHANGED torn

RepeatStored(i) ==
  /\ Tamper /\ i \in DOMAIN stored /\ Len(stored) < MaxStored
  /\ stored' = Append(stored, stored[i])
  /\ UNCHANGED torn

\* The bytes no longer carry a signature of anyone; they are refused whatever they say.
AlterStored(i) ==
  /\ Tamper /\ i \in DOMAIN stored
  /\ stored' = [stored EXCEPT ![i].key = "nobody"]
  /\ UNCHANGED torn

\* A record of Mallory's under the name of an agent, about what is there already.
ForgeStored(agent) ==
  /\ Tamper /\ Len(stored) < MaxStored
  /\ stored' = Append(stored, RecordOf(ForgedId, agent, "m", 0, << >>))
  /\ UNCHANGED torn

CutStored ==
  /\ Tamper /\ stored # << >>
  /\ torn' = TRUE
  /\ UNCHANGED stored

LogNext ==
  \/ \E id \in Ids, agent \in Agents, created \in 0..1 :
       \E causes \in UNION {[1..n -> {records[i].id : i \in DOMAIN records}] : n \in 0..2} :
         EmitRecord(id, agent, created, causes)
  \/ \E i \in DOMAIN stored : SwapStored(i) \/ DropStored(i) \/ RepeatStored(i) \/ AlterStored(i)
  \/ \E agent \in Agents : ForgeStored(agent)
  \/ CutStored

------------------------------------------------------------------------------
(* Bundles.  The content id of an object, an approval or a receipt is the    *)
(* thing itself; a signature is the key that really signed the thing.  The   *)
(* position in a receipt, and the grant and nonce of an approval, are not    *)
(* looked at.                                                                *)
ObjectOf(signer, n) == [signer |-> signer, n |-> n]
ApprovalOf(object, approver, notAfter) == [approves |-> object, approver |-> approver, notAfter |-> notAfter]
ReceiptOf(ledger, a) == [ledger |-> ledger, approval |-> a]

\* The three parts, the signature on each, and the keys the bundle claims for them.
ProofBundle(o, a, r, signatures, asserted) ==
  [object |-> o, approval |-> a, receipt |-> r, sigs |-> signatures, asserted |-> asserted]

Objects == {ObjectOf("s", n) : n \in 1..2}
BoundApprovals == {ApprovalOf(o, "p", t) : o \in Objects, t \in VerifyTimes}
Receipts(as) == {ReceiptOf("l", a) : a \in as}

Signed(role) == {f.thing : f \in {g \in facts : g.role = role}}
Fact(role, by, thing) == [role |-> role, by |-> by, thing |-> thing]

\* Role by role the name under which a bundle's key is looked up, and who holds the key.
Holder == [object |-> "s", approval |-> "p", receipt |-> "l"]
RoleNames == DOMAIN Holder
TrustAnchor(known) == [known |-> known, selfDerived |-> FALSE]
FromBundleSelfAsserted(b) == [known |-> b.asserted, selfDerived |-> TRUE]

\* Mutant: a key that the bundle asserts fills a gap of the anchor.
ResolveOrAsserted(anchor, b, role, name) ==
  IF <<role, name>> \in DOMAIN anchor.known THEN anchor.known[<<role, name>>]
  ELSE IF <<role, name>> \in DOMAIN b.asserted THEN b.asserted[<<role, name>>] ELSE Missing

ResolveKey(anchor, b, role, name) ==
  IF <<role, name>> \in DOMAIN anchor.known THEN anchor.known[<<role, name>>] ELSE Missing

KeyName(b, role) ==
  CASE role = "object"    -> b.object.signer
    [] role = "approval"  -> b.approval.approver
    [] role = "receipt"   -> b.receipt.ledger

SignatureHolds(b, anchor, role) == b.sigs[role] = ResolveKey(anchor, b, role, KeyName(b, role))

\* build_bundle: the three parts must name one another before there is a bundle.
BuildBundle(o, a, r) ==
  CASE a.approves # o    -> "ApprovalObjectMismatch"
    [] r.approval # a    -> "ReceiptApprovalMismatch"
    [] OTHER             -> "ok"

\* Mutant: the last moment is already too late.
ExpiredEarly(a, time) == time >= a.notAfter

Expired(a, time) == time > a.notAfter

\* The three parts are there: from_bytes builds no bundle without one.
VerifyBundle(b, anchor, time) ==
  LET resolved(role) == ResolveKey(anchor, b, role, KeyName(b, role)) # Missing
  IN CASE anchor = Missing                                            -> "AnchorRequired"
       [] anchor.selfDerived                                       -> "CircularAnchor"
       [] ~resolved("object")                                      -> "UnresolvedAnchor"
       [] ~SignatureHolds(b, anchor, "object")                     -> "BadSignature"
       [] ~resolved("approval")                                    -> "UnresolvedAnchor"
       [] ~SignatureHolds(b, anchor, "approval")                   -> "BadSignature"
       [] b.approval.approves # b.object                           -> "ApprovalMismatch"
       [] Expired(b.approval, time)                                -> "ApprovalExpired"
       [] b.receipt.approval # b.approval                          -> "ReceiptApprovalMismatch"
       [] ~resolved("receipt")                                     -> "UnresolvedAnchor"
       [] ~SignatureHolds(b, anchor, "receipt")                    -> "ConsumeReceiptUnsigned"
       [] OTHER                                                    -> "ok"

SignFact(role, thing) ==
  /\ proofdesk = "bundle" /\ said = Missing /\ Cardinality(facts) < MaxFacts
  /\ facts' = facts \cup {Fact(role, Holder[role], thing)}
  /\ UNCHANGED <<proofdesk, logvars, bundle, said>>

\* The honest signature, if there is one, and Mallory's over anything.
SignaturesFor(role, thing) == {"m"} \cup IF thing \in Signed(role) THEN {Holder[role]} ELSE {}
AssertedKeys == {<< >>, (<<"object", "s">> :> "m") @@ (<<"approval", "p">> :> "m") @@ (<<"receipt", "l">> :> "m")}

Independent(roles) == TrustAnchor([n \in {<<role, Holder[role]>> : role \in roles} |-> Holder[n[1]]])
\* What stands for no key and no anchor is neither.
ASSUME ProofRecordsConstants ==
  /\ Missing \notin {"a", "b", "s", "p", "l"} /\ Missing # Independent(RoleNames)
  /\ VerifyTimes \subseteq Int

Anchors(b) == {Missing, FromBundleSelfAsserted(b), Independent(RoleNames), Independent({"object", "approval"})}

\* A bundle that is refused leaves no trace.
AcceptBundle(b, anchor, time) ==
  /\ proofdesk = "bundle" /\ said = Missing
  /\ VerifyBundle(b, anchor, time) = "ok"
  /\ bundle' = b /\ said' = [anchor |-> anchor, time |-> time]
  /\ UNCHANGED <<proofdesk, logvars, facts>>

BundleNext ==
  \/ \E o \in Objects : SignFact("object", o)
  \/ \E a \in BoundApprovals : a.approves \in Signed("object") /\ SignFact("approval", a)
  \/ \E r \in Receipts(Signed("approval")) : SignFact("receipt", r)
  \/ /\ proofdesk = "bundle" /\ said = Missing
     /\ \E o \in Objects, a \in BoundApprovals, r \in Receipts(BoundApprovals) :
        \E x \in SignaturesFor("object", o), y \in SignaturesFor("approval", a),
           z \in SignaturesFor("receipt", r), asserted \in AssertedKeys, time \in VerifyTimes :
          \E b \in {ProofBundle(o, a, r, [object |-> x, approval |-> y, receipt |-> z], asserted)} :
            \E anchor \in Anchors(b) : AcceptBundle(b, anchor, time)

------------------------------------------------------------------------------
ProofInit ==
  /\ proofdesk \in {"log", "bundle"}
  /\ records = << >> /\ stored = << >> /\ torn = FALSE /\ tampering = 0
  /\ facts = {} /\ bundle = Missing /\ said = Missing

ProofNext == LogNext \/ BundleNext

ProofSpec == ProofInit /\ [][ProofNext]_proofvars

------------------------------------------------------------------------------
(* A log that is accepted is a part of what the agents really wrote, under   *)
(* keys the verifier knew, without repetition and with every cause in front  *)
(* of its effect; and a log that is all this is never refused, whatever was  *)
(* left out behind its records (verify_chain).                               *)
AcceptedLogIsHistory ==
  \A resolver \in Resolvers :
    LET wrote(r) == r \in ToSet(records) /\ resolver[r.signer] = r.key
        sound == /\ ~torn /\ \A i \in DOMAIN stored : wrote(stored[i])
                 /\ \A i, j \in DOMAIN stored : i # j => stored[i] # stored[j]
                 /\ \A i \in DOMAIN stored : \A c \in ToSet(stored[i].causes) :
                      \E j \in 1..(i - 1) : stored[j].id = c
    IN sound <=> VerifyAndReplay(stored, torn, resolver).err = ""

(* The replay is a function of the records and not of the log: whatever      *)
(* order storage leaves them in, two accepted logs with the same records are *)
(* replayed alike, so their verification receipts agree; and no record is    *)
(* replayed before its causes (_topological_order,                           *)
(* sign_verification_receipt).                                               *)
ReplayIsCanonical ==
  [][\A log \in {stored'}, cut \in {torn'} :
     \A before \in {VerifyAndReplay(stored, torn, [a |-> "a", b |-> "b"])},
        after \in {VerifyAndReplay(log, cut, [a |-> "a", b |-> "b"])} :
       after.err = "" =>
         /\ before.err = "" /\ ToSet(stored) = ToSet(log) => VerificationReceipt(before) = VerificationReceipt(after)
         /\ \A replayed \in {Replay(after)} :
              \A n \in DOMAIN replayed : \A c \in ToSet(replayed[n].causes) :
                \E k \in 1..(n - 1) : replayed[k].id = c]_proofvars

(* A bundle that verifies tells one true story: the object, the approval and *)
(* the receipt were signed by the parties the verifier's own anchor names,   *)
(* each is about the one before it, and the approval had not expired, no     *)
(* matter which keys the bundle brings along (verify_bundle).                *)
BundleTellsOneStory ==
  said # Missing =>
    /\ bundle.object \in Signed("object") /\ bundle.approval \in Signed("approval")
    /\ bundle.receipt \in Signed("receipt")
    /\ bundle.approval.approves = bundle.object /\ bundle.receipt.approval = bundle.approval
    /\ said.time <= bundle.approval.notAfter

(* What build_bundle puts together from true signatures verifies wherever    *)
(* the three keys are known, until the approval expires (build_bundle).      *)
BuiltBundlesVerify ==
  \A o \in Signed("object"), a \in Signed("approval"), r \in Signed("receipt"), time \in VerifyTimes :
    BuildBundle(o, a, r) = "ok" /\ time <= a.notAfter =>
      VerifyBundle(ProofBundle(o, a, r, Holder, << >>), Independent(RoleNames), time) = "ok"

(* A log or a bundle is accepted exactly when it is a true account, whatever *)
(* storage and carriers did to it (verify_chain, verify_bundle,              *)
(* build_bundle).                                                            *)
ProofsTellOneStory ==
  /\ AcceptedLogIsHistory
  /\ BundleTellsOneStory
  /\ BuiltBundlesVerify
==============================================================================
