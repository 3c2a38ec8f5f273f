----------------------------- MODULE OrderedLogs -----------------------------
(***************************************************************************)
(* Receipt chains and who builds on them: the ordering authority and the   *)
(* equivocation auditor (audit.py), the content-free relay (delivery.py)   *)
(* and the membership log of collaboration rooms (rooms.py).               *)
(*                                                                         *)
(* None of these objects takes a lock and none is persisted.  An append    *)
(* reads head and position and signs (Sign) before it assigns them         *)
(* (Commit); a restart with the same key begins again at position zero.    *)
(* Receipts reach the auditor in any order, repeatedly or not at all.      *)
(*                                                                         *)
(* A head is the sequence of objects hashed into it; an operation's        *)
(* content id is the operation.                                            *)
(***************************************************************************)
EXTENDS Integers, FiniteSets, SequencesExt, TLC

CONSTANTS
  Threads,               \* threads that call the relay and the rooms
  Authorities,           \* ordering authorities, each with its key
  Watched,               \* authorities that an auditor observes
  RelayAuth,             \* the authority the relay made for itself
  RoomIds,
  AuthOf,                \* room -> the authority it was given
  Payloads,              \* objects the relay routes
  People,                \* signer ids
  Nobody,
  MaxAppends,            \* bound on the receipts issued
  MaxAuthorityRestarts,  \* bound on restarts of the authority
  MaxProofs              \* bound on the fork proofs an auditor mints

ASSUME OrderedLogsConstants ==
  /\ Watched \subseteq Authorities /\ RelayAuth \in Authorities
  /\ AuthOf \in [RoomIds -> Authorities] /\ "relay" \notin RoomIds

ASSUME AuthoritiesNamed == "" \notin Authorities   \* a signer id derived from a key is never empty

OP == [create |-> 0, add_member |-> 1, remove_member |-> 2, change_role |-> 3, add_owner |-> 4]
ROLE == [member |-> 0, admin |-> 1, owner |-> 2]

VARIABLES
  head, next,                \* authority -> _head, _seq
  issued,                    \* every receipt signed so far
  trail,                     \* the relay's receipts
  room,                      \* room -> members, owners, epoch, log; no members before create
  pend,                      \* thread -> the append it is in, between Sign and Commit
  audited, ext, forkproofs,  \* auditor of each authority: _seen, _ext, minted proofs
  delivered,                 \* history: receipts an auditor was given
  authorityRestarts

authority == <<head, next, issued>>
auditor == <<audited, ext, forkproofs, delivered>>
logsvars == <<head, next, issued, trail, room, pend, audited, ext, forkproofs, delivered, authorityRestarts>>

NoRoom == [members |-> << >>, owners |-> {}, epoch |-> 0, log |-> << >>]
Idle == [user |-> "none"]

LogsInit ==
  /\ head = [a \in Authorities |-> << >>] /\ next = [a \in Authorities |-> 0]
  /\ issued = {} /\ trail = << >>
  /\ room = [r \in RoomIds |-> NoRoom]
  /\ pend = [t \in Threads |-> Idle]
  /\ audited = [a \in Authorities |-> << >>] /\ ext = [a \in Authorities |-> 0]
  /\ forkproofs = {} /\ delivered = {} /\ authorityRestarts = 0

------------------------------------------------------------------------------
(* Receipts (audit.py) *)

AuditReceipt(a, obj) == [by |-> a, prev |-> head[a], obj |-> obj, seq |-> next[a]]
HeadOf(r) == Append(r.prev, r.obj)

\* The first receipt that does not chain or was not signed decides the verdict.
VerifyChain(receipts, a) ==
  LET broken(i) == \/ receipts[i].seq # i - 1
                   \/ receipts[i].prev # (IF i = 1 THEN << >> ELSE HeadOf(receipts[i - 1]))
      bad == {i \in DOMAIN receipts : broken(i) \/ receipts[i].by # a}
  IN IF bad = {} THEN "ok" ELSE IF broken(Min(bad)) THEN "ChainBroken" ELSE "ReceiptUnsigned"

ForkProof(a, r, q) == [signer |-> a, ext_counter |-> ext[a], a |-> r, b |-> q]

ForkProofVerify(p, key) ==
  CASE p.signer = ""                    -> "ForkProofInvalid"
    [] p.a.seq # p.b.seq                -> "ForkProofInvalid"
    [] p.a.obj = p.b.obj                -> "ForkProofInvalid"
    [] {p.a.by, p.b.by} # {key}         -> "ReceiptUnsigned"
    [] OTHER                            -> "ok"

\* Mutant: the later receipt replaces the one that was seen.
ObserveLatest(a, r) ==
  /\ r.by = a
  /\ delivered' = delivered \cup {r}
  /\ audited' = [audited EXCEPT ![a] = [s \in DOMAIN @ \cup {r.seq} |-> IF s = r.seq THEN r ELSE @[s]]]
  /\ UNCHANGED <<ext, forkproofs>>

\* Mutant: a position that was seen before is an accusation, a second delivery too.
ObserveTwice(a, r) ==
  /\ r.by = a /\ ext[a] < MaxProofs
  /\ delivered' = delivered \cup {r}
  /\ IF r.seq \in DOMAIN audited[a]
     THEN /\ forkproofs' = forkproofs \cup {ForkProof(a, audited[a][r.seq], r)}
          /\ ext' = [ext EXCEPT ![a] = @ + 1] /\ UNCHANGED audited
     ELSE /\ audited' = [audited EXCEPT ![a] = [s \in DOMAIN @ \cup {r.seq} |-> IF s = r.seq THEN r ELSE @[s]]]
          /\ UNCHANGED <<ext, forkproofs>>

\* The auditor of authority a is handed receipt r; one by another key is refused.
AuditorObserve(a, r) ==
  /\ r.by = a /\ ext[a] < MaxProofs
  /\ delivered' = delivered \cup {r}
  /\ IF r.seq \notin DOMAIN audited[a]
     THEN /\ audited' = [audited EXCEPT ![a] = [s \in DOMAIN @ \cup {r.seq} |->
                                            IF s = r.seq THEN r ELSE @[s]]]
          /\ UNCHANGED <<ext, forkproofs>>
     ELSE /\ IF audited[a][r.seq].obj # r.obj
             THEN /\ forkproofs' = forkproofs \cup {ForkProof(a, audited[a][r.seq], r)}
                  /\ ext' = [ext EXCEPT ![a] = @ + 1]
             ELSE UNCHANGED <<ext, forkproofs>>
          /\ UNCHANGED audited

------------------------------------------------------------------------------
(* Rooms (rooms.py).  A RoomOp has fields room, op, epoch, subject, role; subject "" *)
(* is empty and "nfd" is a string that is not NFC.                                   *)

\* create_room: the creator seeds itself.  A room object is made once per id here.
CreateVerdict(op, actor) ==
  CASE op.op # OP.create   -> "RoomOpMismatch"
    [] op.epoch # 0        -> "StaleEpoch"
    [] op.subject = ""     -> "RoomOpMismatch"
    [] op.subject = "nfd"  -> "NonNFC"
    [] actor # op.subject  -> "Unauthorized"
    [] OTHER               -> "ok"

\* Mutant: an owner may be removed.
OpVerdictAnyone(op, r) == IF op.op = OP.remove_member /\ op.subject \in DOMAIN r.members
                          THEN "ok" ELSE "OpUnknown"

\* The per-operation checks, in the order of the code.
OpVerdict(op, r) ==
  LET known == op.subject \in DOMAIN r.members
      isOwner == op.subject \in r.owners
      ranked == r.members[op.subject] = ROLE.owner
      plain == op.role \in {ROLE.member, ROLE.admin}
  IN CASE op.op = OP.add_member    -> CASE ~plain -> "RoleInvalid" [] known -> "MemberExists"
                                        [] OTHER -> "ok"
       [] op.op = OP.add_owner     -> CASE op.role # ROLE.owner -> "RoleInvalid"
                                        [] isOwner -> "OwnerExists" [] OTHER -> "ok"
       [] op.op = OP.remove_member -> CASE ~known -> "MemberUnknown"
                                        [] isOwner -> "OwnerImmutable" [] OTHER -> "ok"
       [] op.op = OP.change_role   -> CASE ~known -> "MemberUnknown" [] ~plain -> "RoleInvalid"
                                        [] ranked -> "OwnerImmutable" [] OTHER -> "ok"
       [] OTHER                    -> "OpUnknown"

\* Mutant: the epoch is not compared.
ApplyVerdictAnyEpoch(op, actor, r) ==
  CASE op.room # r \/ op.op = OP.create   -> "RoomOpMismatch"
    [] op.subject = ""                    -> "RoomOpMismatch"
    [] op.subject = "nfd"                 -> "NonNFC"
    [] actor \notin room[r].owners        -> "Unauthorized"
    [] OTHER                              -> OpVerdict(op, room[r])

ApplyVerdict(op, actor, r) ==
  CASE op.room # r \/ op.op = OP.create   -> "RoomOpMismatch"
    [] op.epoch # room[r].epoch           -> "StaleEpoch"
    [] op.subject = ""                    -> "RoomOpMismatch"
    [] op.subject = "nfd"                 -> "NonNFC"
    [] actor \notin room[r].owners        -> "Unauthorized"
    [] OTHER                              -> OpVerdict(op, room[r])

\* What an accepted operation does to members and owners.
Effect(op, r) ==
  LET joined(role) == [s \in DOMAIN r.members \cup {op.subject} |->
                         IF s = op.subject THEN role ELSE r.members[s]]
  IN CASE op.op = OP.remove_member ->
            [members |-> [s \in DOMAIN r.members \ {op.subject} |-> r.members[s]],
             owners  |-> r.owners]
       [] op.op \in {OP.add_member, OP.change_role} ->
            [members |-> joined(op.role), owners |-> r.owners]
       [] OTHER ->
            [members |-> joined(ROLE.owner), owners |-> r.owners \cup {op.subject}]

\* The kind and declared effect of the envelope that must carry an operation.
KindForOp(op) ==
  IF op \in 0..4 THEN [kind |-> 16 + op, effect |-> IF op = OP.remove_member THEN 3 ELSE 2]
  ELSE [kind |-> 0, effect |-> 0]

\* apply_signed: the actor is derived from the verifying key.
ActorOf(o) == IF o.signer = o.key THEN o.key ELSE Nobody

\* A membership object o arrives with the key it verified under, whether it is a tier-1
\* object of the Governance channel, the signer it claims, its kind, its effect and the
\* fields of its body; op is the operation they make (room_op_from_body).
ApplySignedVerdict(o, op, r) ==
  CASE ~o.governance -> "RoomOpMismatch"
    [] ActorOf(o) = Nobody -> "SignerMismatch"
    [] o.fields # 1..5 -> "RoomOpMismatch"
    [] op.op \notin 0..4 \/ o.kind # KindForOp(op.op).kind \/ o.effect # KindForOp(op.op).effect
         -> "RoomOpMismatch"
    [] OTHER -> ApplyVerdict(op, ActorOf(o), r)

------------------------------------------------------------------------------
(* Threads *)

Free(t) == pend[t] = Idle /\ Cardinality(issued) < MaxAppends

Start(t, p) ==
  /\ issued' = issued \cup {p.receipt}
  /\ pend' = [pend EXCEPT ![t] = p]
  /\ UNCHANGED <<head, next, trail, room, authorityRestarts>> /\ UNCHANGED auditor

\* ContentFreeRelay.route
Route(t, obj) ==
  Start(t, [user |-> "relay", receipt |-> AuditReceipt(RelayAuth, [payload |-> obj])])

CreateRoom(t, r, actor, op) ==
  /\ room[r] = NoRoom /\ op.room = r
  /\ \A u \in Threads : pend[u] # Idle => pend[u].user # r
  /\ CreateVerdict(op, actor) = "ok"
  /\ Start(t, [user |-> r, receipt |-> AuditReceipt(AuthOf[r], op)])

Apply(t, r, o, op) ==
  /\ room[r] # NoRoom
  /\ ApplySignedVerdict(o, op, r) = "ok"
  /\ Start(t, [user |-> r, receipt |-> AuditReceipt(AuthOf[r], op)])

\* Mutant: append counts and leaves the head where it was.
CommitCountOnly(t) ==
  LET r == pend[t].receipt
  IN /\ pend[t] # Idle
     /\ next' = [next EXCEPT ![r.by] = @ + 1]
     /\ IF pend[t].user = "relay"
        THEN trail' = Append(trail, r) /\ UNCHANGED room
        ELSE UNCHANGED <<trail, room>>
     /\ pend' = [pend EXCEPT ![t] = Idle]
     /\ UNCHANGED <<head, issued, authorityRestarts>> /\ UNCHANGED auditor

\* The rest of append and of its caller: _head, _seq, then the log and the members.
Commit(t) ==
  LET r == pend[t].receipt
  IN /\ pend[t] # Idle
     /\ head' = [head EXCEPT ![r.by] = HeadOf(r)]
     /\ next' = [next EXCEPT ![r.by] = @ + 1]
     /\ IF pend[t].user = "relay"
        THEN trail' = Append(trail, r) /\ UNCHANGED room
        ELSE /\ room' = [room EXCEPT ![pend[t].user] =
                           [members |-> Effect(r.obj, @).members, owners |-> Effect(r.obj, @).owners,
                            epoch |-> @.epoch + 1, log |-> Append(@.log, r)]]
             /\ UNCHANGED trail
     /\ pend' = [pend EXCEPT ![t] = Idle]
     /\ UNCHANGED <<issued, authorityRestarts>> /\ UNCHANGED auditor

\* The process is started again with the same keys; the auditors live elsewhere.
AuthorityRestart ==
  /\ authorityRestarts < MaxAuthorityRestarts /\ authorityRestarts' = authorityRestarts + 1
  /\ head' = [a \in Authorities |-> << >>] /\ next' = [a \in Authorities |-> 0]
  /\ trail' = << >> /\ room' = [r \in RoomIds |-> NoRoom]
  /\ pend' = [t \in Threads |-> Idle]
  /\ UNCHANGED issued /\ UNCHANGED auditor

\* Inputs: operations for this epoch or the first one, carried as what they are or
\* as another kind of operation, in this channel or another, whole or not.
Carriers == [key : People, signer : People, governance : BOOLEAN, fields : {1..4, 1..5}]

Submit(t, r) ==
  \E op \in 1..5, s \in People \cup {"", "nfd"}, role \in 0..2, epoch \in {0, room[r].epoch}, c \in Carriers :
    \E as \in {op, OP.add_member, OP.remove_member} :
      Apply(t, r, KindForOp(as) @@ c, [room |-> r, op |-> op, epoch |-> epoch, subject |-> s, role |-> role])

Found(t, r) ==
  \E p \in People, s \in People \cup {"", "nfd"}, e \in 0..1, op \in 0..1 :
    CreateRoom(t, r, p, [room |-> r, op |-> op, epoch |-> e, subject |-> s, role |-> ROLE.owner])

LogsNext ==
  \/ \E t \in Threads : Free(t) /\ \E obj \in Payloads : Route(t, obj)
  \/ \E t \in Threads : Free(t) /\ \E r \in RoomIds : Found(t, r)
  \/ \E t \in Threads : Free(t) /\ \E r \in RoomIds : Submit(t, r)
  \/ \E t \in Threads : Commit(t)
  \/ \E a \in Watched, r \in issued : AuditorObserve(a, r) /\ UNCHANGED <<authority, trail, room, pend, authorityRestarts>>
  \/ AuthorityRestart

LogsSpec == LogsInit /\ [][LogsNext]_logsvars

------------------------------------------------------------------------------
LogsQuiet == \A t \in Threads : pend[t] = Idle

(* An authority that appends one object at a time and was never restarted is *)
(* never accused, whatever order, number or part of its receipts the auditor *)
(* is given (audit.Auditor.observe).                                         *)
HonestNeverAccused == authorityRestarts = 0 => forkproofs = {}

(* Two receipts of one authority at one position that name different objects *)
(* never go unnoticed once both were delivered, and the proof convinces a    *)
(* third party who has only the accused key (audit.ForkProof.verify).        *)
EquivocationProven ==
  /\ \A r, q \in delivered : r.by = q.by /\ r.seq = q.seq /\ r.obj # q.obj =>
       \E p \in forkproofs : p.signer = r.by /\ p.a.seq = r.seq
  /\ \A p \in forkproofs : ForkProofVerify(p, p.signer) = "ok" /\ {p.a, p.b} \subseteq issued

(* The retained trail of the relay and the log of a room verify offline      *)
(* against their authority's key (delivery.ContentFreeRelay.audit_trail,     *)
(* rooms.Room.log), and no other selection or order of the issued receipts   *)
(* does: omission, reordering and substitution break the chain.              *)
LogsVerify ==
  authorityRestarts = 0 /\ LogsQuiet =>
    /\ VerifyChain(trail, RelayAuth) = "ok"
    /\ \A r \in RoomIds : VerifyChain(room[r].log, AuthOf[r]) = "ok"
    /\ \A receipts \in SeqOf({r \in issued : r.by = RelayAuth}, 2) :
         VerifyChain(receipts, RelayAuth) = "ok" => IsPrefix(receipts, trail)

\* Members and owners after the operations of a log.
Replayed(log) ==
  LET after[i \in 0..Len(log)] ==
        IF i = 0 THEN [members |-> << >>, owners |-> {}] ELSE Effect(log[i].obj, after[i - 1])
  IN after[Len(log)]

(* The signed log of a room explains its state: each logged operation was    *)
(* built against the epoch at which it was accepted, and replaying the log   *)
(* gives the members, their roles and the epoch (rooms.Room.apply).          *)
LogExplainsRoom ==
  \A r \in RoomIds :
    LET log == room[r].log
    IN /\ room[r].epoch = Len(log)
       /\ \A i \in DOMAIN log : log[i].obj.epoch = i - 1
       /\ [members |-> room[r].members, owners |-> room[r].owners] = Replayed(log)

(* Ownership is add-only (rooms.py, O2 ownership): a room always has an      *)
(* owner, and every owner is still a member in the role of owner.            *)
OwnersAreMembers ==
  \A r \in RoomIds : room[r] # NoRoom =>
    room[r].owners # {} /\ \A s \in room[r].owners :
      s \in DOMAIN room[r].members /\ room[r].members[s] = ROLE.owner

(* The logs of relay and rooms verify offline and only whole and in order,   *)
(* they explain the state of the room they are of, and no sequence of        *)
(* membership operations costs a room its owners (delivery.ContentFreeRelay, *)
(* rooms.Room.apply).                                                        *)
RoomLogsTellAll ==
  /\ LogsVerify
  /\ LogExplainsRoom
  /\ OwnersAreMembers
==============================================================================
