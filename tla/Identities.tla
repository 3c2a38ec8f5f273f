------------------------------ MODULE Identities -----------------------------
(***************************************************************************)
(* Durable identities: rotation, revocation and foreign-link records       *)
(* (identity.py), the identity thread that a list of rotations proves, and *)
(* the principal registry (rooms.py), which follows rotations.             *)
(*                                                                         *)
(* Owners sign for their own keys only; Mallory signs anything with hers.  *)
(* Whoever presents a record may combine it with any keys and with any     *)
(* signatures that exist.  A signer id is the key it is derived from; a    *)
(* key whose algorithm has no multicodec derives none.                     *)
(***************************************************************************)
EXTENDS SignedObjects, SequencesExt, FiniteSets

CONSTANTS
  Keys,          \* key -> [alg, owner]
  Recovery,      \* keys a deployer trusts to revoke any key
  Principals,    \* semantic ids
  MaxSigned,     \* bound on the signatures of rotations
  MaxOther,      \* bound on those of revocations and links, in behaviours without rotations
  MaxBindings,   \* bound on the bindings of one principal
  Times          \* positions of the ordering authority

VARIABLES
  sigs,          \* every signature made so far, as [key, body]
  bindings,      \* principal -> its chain of bindings
  rebinds,       \* principal -> the rotation evidence of each rebind (history)
  dead           \* key -> revocations accepted for it
idvars == <<sigs, bindings, rebinds, dead>>

KeyIds == DOMAIN Keys
Owner(k) == Keys[k].owner

\* What stands for no id is no id.
NoId == "none"
ASSUME IdentitiesConstants == NoId \notin KeyIds

IdInit ==
  /\ sigs = {} /\ dead = [k \in KeyIds |-> {}]
  /\ bindings = [p \in Principals |-> << >>] /\ rebinds = [p \in Principals |-> << >>]

------------------------------------------------------------------------------
SignerId(k) == IF Keys[k].alg \in Registered THEN k ELSE NoId

CheckSigner(claimed, k) ==
  IF SignerId(k) = NoId THEN "UnknownAlg"
  ELSE IF SignerId(k) # claimed THEN "SignerMismatch" ELSE "ok"

\* Strings are in NFC but for this one.
RequireNFC(s) == IF s = "nfd" THEN "NonNFC" ELSE "ok"

Signature(k, body) == [key |-> k, body |-> body]

RotationRecord == [old : KeyIds, new : KeyIds, not_before : {0}]
RevocationRecord == [key : KeyIds, not_after : {0}]
ForeignLinkRecord == [controls : KeyIds, foreign : {"did:x", "nfd"}, not_after : {0}]

\* Mutant: one of the two signatures is enough.
VerifyRotationOne(r, oldKey, newKey, oldSig, newSig) ==
  IF /\ SignerId(oldKey) = r.old /\ SignerId(newKey) = r.new
     /\ oldSig = Signature(oldKey, r) \/ newSig = Signature(newKey, r)
  THEN "ok" ELSE "RotationUnauthorized"

\* Both keys must derive the ids of the record and both must have signed it.
VerifyRotation(r, oldKey, newKey, oldSig, newSig) ==
  IF /\ SignerId(oldKey) = r.old /\ SignerId(newKey) = r.new
     /\ oldSig = Signature(oldKey, r) /\ newSig = Signature(newKey, r)
  THEN "ok" ELSE "RotationUnauthorized"

\* Mutant: the signature is checked under whatever key is presented.
VerifyRevocationAny(r, k, sig, recovery) ==
  IF sig = Signature(k, r) THEN "ok" ELSE "BadSignature"

\* By the key itself or by a recovery key; membership is tested before the signature.
VerifyRevocation(r, k, sig, recovery) ==
  CASE SignerId(k) = NoId                          -> "UnknownAlg"
    [] SignerId(k) \notin {r.key} \cup recovery    -> "SignerMismatch"
    [] sig # Signature(k, r)                       -> "BadSignature"
    [] OTHER                                       -> "ok"

RevokedAt(r, pos) == pos > r.not_after

\* "link" or "no link": an expired or badly signed link is no error.
VerifyForeignLink(r, foreignKey, sig, now) ==
  CASE RequireNFC(r.foreign) # "ok"        -> "NonNFC"
    [] now > r.not_after                   -> "no link"
    [] sig # Signature(foreignKey, r)      -> "no link"
    [] OTHER                               -> "link"

\* Evidence of one rotation.
RotationEvidence(r, oldKey, newKey, oldSig, newSig) ==
  [record |-> r, oldKey |-> oldKey, newKey |-> newKey, oldSig |-> oldSig, newSig |-> newSig]

EvidenceVerdict(e) == VerifyRotation(e.record, e.oldKey, e.newKey, e.oldSig, e.newSig)

\* The thread of an ordered list of rotations: verdict and the ids from root to current.
ResolveThread(evs) ==
  IF \/ evs = << >>
     \/ \E i \in DOMAIN evs : \/ i > 1 /\ evs[i].record.old # evs[i - 1].record.new
                              \/ EvidenceVerdict(evs[i]) # "ok"
  THEN [verdict |-> "RotationUnauthorized", chain |-> << >>]
  ELSE [verdict |-> "ok", chain |-> <<evs[1].record.old>> \o [i \in DOMAIN evs |-> evs[i].record.new]]

Attributable(thread, id) == id \in ToSet(thread.chain)

------------------------------------------------------------------------------
(* The principal registry *)

BindingHead(b) == Append(b.prev, [principal |-> b.principal, handle |-> b.handle, epoch |-> b.epoch])
Current(p) == Last(bindings[p]).handle

BindVerdict(p, handle) ==
  CASE p = "" \/ handle = ""        -> "RoomOpMismatch"
    [] "nfd" \in {p, handle}        -> "NonNFC"
    [] bindings[p] # << >>          -> "PrincipalExists"
    [] OTHER                        -> "ok"

Bind(p, handle) ==
  /\ BindVerdict(p, handle) = "ok"
  /\ bindings' = [bindings EXCEPT ![p] = <<[principal |-> p, handle |-> handle, epoch |-> 0, prev |-> << >>]>>]
  /\ UNCHANGED <<sigs, rebinds, dead>>

RebindVerdict(p, handle, e) ==
  CASE bindings[p] = << >>                                       -> "PrincipalUnknown"
    [] handle = ""                                               -> "RoomOpMismatch"
    [] RequireNFC(handle) # "ok"                                 -> "NonNFC"
    [] e.record.old # Current(p) \/ e.record.new # handle        -> "RebindUnauthorized"
    [] EvidenceVerdict(e) # "ok"                                 -> "RebindUnauthorized"
    [] OTHER                                                     -> "ok"

\* Mutant: the epoch is not counted up.
RebindSameEpoch(p, handle, e) ==
  /\ RebindVerdict(p, handle, e) = "ok"
  /\ Len(bindings[p]) < MaxBindings
  /\ bindings' = [bindings EXCEPT ![p] = Append(@,
       [principal |-> p, handle |-> handle, epoch |-> Last(@).epoch, prev |-> BindingHead(Last(@))])]
  /\ rebinds' = [rebinds EXCEPT ![p] = Append(@, e)]
  /\ UNCHANGED <<sigs, dead>>

Rebind(p, handle, e) ==
  /\ RebindVerdict(p, handle, e) = "ok"
  /\ Len(bindings[p]) < MaxBindings
  /\ bindings' = [bindings EXCEPT ![p] = Append(@,
       [principal |-> p, handle |-> handle, epoch |-> Last(@).epoch + 1, prev |-> BindingHead(Last(@))])]
  /\ rebinds' = [rebinds EXCEPT ![p] = Append(@, e)]
  /\ UNCHANGED <<sigs, dead>>

Resolve(p) == IF bindings[p] = << >> THEN "PrincipalUnknown" ELSE Current(p)

------------------------------------------------------------------------------
(* The world around it *)

\* What the owner of key k is willing to sign with it.
Willing(k, body) ==
  \/ Owner(k) = "mallory"
  \/ body \in RotationRecord /\ Owner(body.old) = Owner(k) /\ Owner(body.new) = Owner(k)
  \/ body \in RevocationRecord /\ (Owner(body.key) = Owner(k) \/ k \in Recovery)
  \/ body \in ForeignLinkRecord /\ Owner(body.controls) = Owner(k)

Rotations == {s \in sigs : s.body \in RotationRecord}

Sign(k, body) ==
  /\ IF body \in RotationRecord THEN Rotations = sigs /\ Cardinality(Rotations) < MaxSigned
     ELSE Rotations = {} /\ Cardinality(sigs) < MaxOther
  /\ Willing(k, body)
  /\ sigs' = sigs \cup {Signature(k, body)}
  /\ UNCHANGED <<bindings, rebinds, dead>>

\* sign_rotation: the owner of both keys makes both signatures.
SignRotation(r) ==
  /\ Rotations = sigs /\ Cardinality(Rotations) + 1 < MaxSigned
  /\ Willing(r.old, r) /\ Willing(r.new, r)
  /\ sigs' = sigs \cup {Signature(r.old, r), Signature(r.new, r)}
  /\ UNCHANGED <<bindings, rebinds, dead>>

Revoke(r, k, sig) ==
  /\ VerifyRevocation(r, k, sig, Recovery) = "ok"
  /\ dead' = [dead EXCEPT ![r.key] = @ \cup {r}]
  /\ UNCHANGED <<sigs, bindings, rebinds>>

\* Any rotation that anybody could put together from the signatures that exist.
Offered == {RotationEvidence(r, ko, kn, so, sn) : r \in {s.body : s \in Rotations},
              ko \in KeyIds, kn \in KeyIds, so \in Rotations, sn \in Rotations}

IdNext ==
  \/ \E r \in RotationRecord : SignRotation(r)
  \/ \E k \in KeyIds, body \in RotationRecord \cup RevocationRecord \cup ForeignLinkRecord :
       (Owner(k) = "mallory" \/ body \notin RotationRecord) /\ Sign(k, body)
  \/ \E p \in Principals, handle \in KeyIds \cup {"", "nfd"} : Bind(p, handle)
  \/ \E p \in Principals, handle \in KeyIds, e \in Offered : Rebind(p, handle, e)
  \/ \E s \in sigs, k \in KeyIds : s.body \in RevocationRecord /\ Revoke(s.body, k, s)

IdSpec == IdInit /\ [][IdNext]_idvars

------------------------------------------------------------------------------
(* An identity never passes to another owner: no combination of records,     *)
(* keys and signatures rebinds a principal to a key of somebody else         *)
(* (rooms.PrincipalRegistry.rebind) or resolves to a thread that joins two   *)
(* owners (identity.resolve_thread, R-1.4).                                  *)
OneOwner ==
  /\ \A p \in Principals : \A i, j \in DOMAIN bindings[p] :
       Owner(bindings[p][i].handle) = Owner(bindings[p][j].handle)
  /\ \A evs \in SeqOf({e \in Offered : EvidenceVerdict(e) = "ok"}, 2) :
       LET thread == ResolveThread(evs)
       IN thread.verdict = "ok" =>
            \A i, j \in DOMAIN thread.chain : Owner(thread.chain[i]) = Owner(thread.chain[j])

(* The history of a principal is an identity thread: the rotations behind    *)
(* its rebinds resolve (identity.resolve_thread) to the very handles of its  *)
(* chain, the chain links, and every old handle stays attributable.          *)
HistoryIsThread ==
  \A p \in Principals :
    LET handles == [i \in DOMAIN bindings[p] |-> bindings[p][i].handle]
        thread == ResolveThread(rebinds[p])
    IN /\ rebinds[p] # << >> => thread = [verdict |-> "ok", chain |-> handles]
       /\ rebinds[p] # << >> => \A i \in DOMAIN handles : Attributable(thread, handles[i])
       /\ \A i \in DOMAIN bindings[p] :
            bindings[p][i].epoch = i - 1 /\ (i > 1 => bindings[p][i].prev = BindingHead(bindings[p][i - 1]))

(* A key is revoked only by its owner or a recovery key, and a link is made  *)
(* only by the foreign key that signed it, while it lasts                    *)
(* (identity.verify_revocation, verify_foreign_link).                        *)
OnlyTheEntitledSpeak ==
  /\ \A k \in KeyIds : \A r \in dead[k] :
       \E s \in sigs : s.body = r /\ (s.key = k \/ s.key \in Recovery)
  /\ \A s \in sigs, k \in KeyIds, now \in Times :
       s.body \in ForeignLinkRecord /\ VerifyForeignLink(s.body, k, s, now) = "link" =>
         s.key = k /\ ~RevokedAt(s.body, now) /\ CheckSigner(k, k) \in {"ok", "UnknownAlg"}

(* An identity stays with its owner: rebinds and threads never join two      *)
(* owners, the history is the thread, and revocations and links are the      *)
(* entitled keys' own (rooms.PrincipalRegistry, identity.resolve_thread,     *)
(* verify_revocation).                                                       *)
IdentityStaysWithItsOwner ==
  /\ OneOwner
  /\ HistoryIsThread
  /\ OnlyTheEntitledSpeak
==============================================================================
