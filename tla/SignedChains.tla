----------------------------- MODULE SignedChains ----------------------------
(***************************************************************************)
(* The three receipt-chained surfaces that a verifier walks offline: name  *)
(* bindings and signed A2A task states (naming.py) and the events a user   *)
(* was shown (agui.py).  An authority appends to its own chain; restarted  *)
(* or run twice with one key it builds a second one.  A carrier presents   *)
(* what was signed, in any order, with repetitions and omissions, mixed    *)
(* with objects of other keys and with bodies that are no proper maps.     *)
(*                                                                         *)
(* A body is [what, seq, prev, extra, bad]: what it says, its position,    *)
(* the head it chains on, whether it has a field too many, and whether one *)
(* is missing or mistyped.  A head is the sequence of what was hashed.     *)
(***************************************************************************)
EXTENDS SignedObjects, SequencesExt, FiniteSets

CONSTANTS
  Surfaces,     \* the surfaces that are run: subset of {"name", "task", "ui"}
  Runs,         \* incarnations of the authority, each with a chain of its own
  Streams,      \* names, tasks, sessions
  Signers,      \* signer ids a name may be bound to
  Cards,        \* agent-card attestations
  TaskStates,   \* states a transition may name, defined or not
  Actions,      \* content ids of actions
  EventKinds,   \* kinds an event may name, known or not
  MaxIssued,    \* surface -> bound on the records of all runs
  MaxForgeries  \* bound on objects of another key or of a malformed body

\* An authority runs at least once.
ASSUME ChainsConstants == Runs # {} /\ \A s \in Surfaces : MaxIssued[s] \in Nat

VARIABLES surface, stream, namelog, objects, forgeries
chainvars == <<surface, stream, namelog, objects, forgeries>>

Authority == [alg |-> ALG.mldsa65, id |-> "authority"]
Mallory   == [alg |-> ALG.mldsa65, id |-> "mallory"]
Classical == [alg |-> ALG.ed25519, id |-> "authority"]
Profile   == PROFILE.public

\* Every run of the authority is for one stream (Registrar's _name).
ChainsInit ==
  /\ surface \in Surfaces /\ stream \in [Runs -> Streams]
  /\ namelog = [r \in Runs |-> << >>] /\ objects = {} /\ forgeries = 0

------------------------------------------------------------------------------
HeadAfter(b) == Append(b.prev, [what |-> b.what, seq |-> b.seq])

Body(what, chain) ==
  [what |-> what, seq |-> Len(chain), extra |-> FALSE, bad |-> FALSE,
   prev |-> IF chain = << >> THEN << >> ELSE HeadAfter(Last(chain))]

\* parse_name_binding and parse_transition read the fields they know and pass over any
\* other (their docstrings say that such a body is NameMalformed), so that the head of
\* what they return is that of the plain body; a UI event with an unknown field is
\* refused.
ParseNamed(b) == IF b.bad THEN "NameMalformed" ELSE "ok"
ParseUiEvent(b) == IF b.bad \/ b.extra THEN "UIMalformed" ELSE "ok"
Parsed(b) == [b EXCEPT !.extra = FALSE]

KnownKind(k) == k \in 0..3
APPROVED == 2

Linked(bs, i) ==
  bs[i].seq = i - 1 /\ bs[i].prev = IF i = 1 THEN << >> ELSE HeadAfter(bs[i - 1])

\* The first record that fails decides; Test(i) is "ok" or the error of record i.
FirstFailure(n, Test(_)) ==
  LET bad == {i \in 1..n : Test(i) # "ok"} IN IF bad = {} THEN "ok" ELSE Test(Min(bad))

(* Names *)
WalkHistory(bs) ==
  FirstFailure(Len(bs), LAMBDA i :
    IF bs[i].what.of # bs[1].what.of \/ ~Linked(bs, i) THEN "NameChainBroken" ELSE "ok")

VerifyBinding(o, key) ==
  LET v == VerifySign1(o, Profile, key) IN IF v = "ok" THEN ParseNamed(o.body) ELSE v

Bodies(objs) == [i \in DOMAIN objs |-> Parsed(objs[i].body)]

\* Mutant: a record is compared with its place only, not with the one before.
VerifyNameChainSeq(objs, key) ==
  FirstFailure(Len(objs), LAMBDA i :
    IF VerifyBinding(objs[i], key) # "ok" THEN VerifyBinding(objs[i], key)
    ELSE IF objs[i].body.what.of # objs[1].body.what.of \/ objs[i].body.seq # i - 1 THEN "NameChainBroken"
    ELSE "ok")

VerifyNameChain(objs, key) ==
  FirstFailure(Len(objs), LAMBDA i :
    LET v == VerifyBinding(objs[i], key) bs == Bodies(objs)
    IN IF v # "ok" THEN v
       ELSE IF bs[i].what.of # bs[1].what.of \/ ~Linked(bs, i) THEN "NameChainBroken"
       ELSE "ok")

\* Mutant: the walk is off by one after a hole.
DetectHoleLast(bs) ==
  LET broken == {i \in DOMAIN bs : ~Linked(bs, i)}
  IN IF broken = {} THEN [at |-> 0, hole |-> FALSE] ELSE [at |-> Max(broken) - 1, hole |-> TRUE]

\* Position 0 is the first; (0, False) stands for no hole.
DetectHole(bs) ==
  LET broken == {i \in DOMAIN bs : ~Linked(bs, i)}
  IN IF broken = {} THEN [at |-> 0, hole |-> FALSE] ELSE [at |-> Min(broken) - 1, hole |-> TRUE]

\* Mutant: the positions are not compared, so that a rotation is a fork.
DetectForkAnySeq(a, b) == a.what.of = b.what.of /\ a # b

DetectFork(a, b) == a.what.of = b.what.of /\ a.seq = b.seq /\ a # b

\* The accused is named by the proof; both objects must verify under its key.
NameForkProofVerify(signer, x, y, key) ==
  IF signer = ""                         THEN "NameForkProofInvalid"
  ELSE IF VerifyBinding(x, key) # "ok"   THEN VerifyBinding(x, key)
  ELSE IF VerifyBinding(y, key) # "ok"   THEN VerifyBinding(y, key)
  ELSE IF ~DetectFork(Parsed(x.body), Parsed(y.body)) THEN "NameForkProofInvalid"
  ELSE "ok"

(* Tasks.  submitted 0, working 1, input-required 2, auth-required 3, completed 4,   *)
(* canceled 5, failed 6, rejected 7.                                                 *)
Interrupted == {2, 3}
Terminal == 4..7

\* Mutant: a finished task may be reopened.
LegalEdgesReopen == ({0, 1} \cup Interrupted \cup Terminal) \X ({1} \cup Interrupted \cup Terminal)

LegalEdges ==
  {<<0, 1>>} \cup ({0, 1} \X Interrupted) \cup ({0, 1} \X Terminal)
    \cup (Interrupted \X {1}) \cup (Interrupted \X Terminal)

VerifyTransition(frm, to) == IF <<frm, to>> \in LegalEdges THEN "ok" ELSE "IllegalTransition"

VerifyTransitionObject(o, key) ==
  LET v == VerifyBinding(o, key)
  IN IF v = "ok" THEN VerifyTransition(o.body.what.frm, o.body.what.to) ELSE v

VerifyTaskChain(objs, card, key) ==
  FirstFailure(Len(objs), LAMBDA i :
    LET bs == Bodies(objs) t == bs[i].what
    IN IF VerifyBinding(objs[i], key) # "ok"   THEN VerifyBinding(objs[i], key)
       ELSE IF ~Linked(bs, i)                  THEN "TaskChainBroken"
       ELSE IF t.card # card                   THEN "ForeignCard"
       ELSE IF t.frm # (IF i = 1 THEN 0 ELSE bs[i - 1].what.to) THEN "IllegalTransition"
       ELSE VerifyTransition(t.frm, t.to))

(* Shown events *)
VerifyUiEvent(o, key) ==
  LET v == VerifySign1(o, Profile, key)
  IN IF v # "ok"                             THEN v
     ELSE IF ParseUiEvent(o.body) # "ok"     THEN ParseUiEvent(o.body)
     ELSE IF ~KnownKind(o.body.what.kind)    THEN "UnknownUIEventKind"
     ELSE "ok"

VerifyShownChain(objs, key) ==
  FirstFailure(Len(objs), LAMBDA i :
    LET bs == Bodies(objs)
    IN IF VerifyUiEvent(objs[i], key) # "ok" THEN VerifyUiEvent(objs[i], key)
       ELSE IF bs[i].what.of # bs[1].what.of \/ ~Linked(bs, i) THEN "UIChainBroken"
       ELSE "ok")

\* The walk without signatures.
WalkShown(bs) ==
  FirstFailure(Len(bs), LAMBDA i :
    IF bs[i].what.of # bs[1].what.of       THEN "UIChainBroken"
    ELSE IF ~KnownKind(bs[i].what.kind)    THEN "UnknownUIEventKind"
    ELSE IF ~Linked(bs, i)                 THEN "UIChainBroken"
    ELSE "ok")

\* The action of the first approved event; "none" when there is none.
ApprovedActionCid(bs) ==
  LET yes == {i \in DOMAIN bs : bs[i].what.kind = APPROVED}
  IN IF yes = {} THEN "none" ELSE bs[Min(yes)].what.action

\* A human approval is [approves, key, not_after]; human is the approver's key.
VerifyApproval(appr, human, cid, now) ==
  IF appr.key # human             THEN "BadSignature"
  ELSE IF appr.approves # cid     THEN "ApprovalMismatch"
  ELSE IF now > appr.not_after    THEN "ApprovalExpired"
  ELSE "ok"

\* Mutant: the approval is not compared with what is executed.
VerifyConsentShown(bs, action, appr, human, now) ==
  IF WalkShown(bs) # "ok"                  THEN WalkShown(bs)
  ELSE IF ApprovedActionCid(bs) = "none"   THEN "UINoConsent"
  ELSE VerifyApproval(appr, human, ApprovedActionCid(bs), now)

VerifyConsent(bs, action, appr, human, now) ==
  LET cid == ApprovedActionCid(bs)
  IN IF WalkShown(bs) # "ok"                              THEN WalkShown(bs)
     ELSE IF cid = "none"                                 THEN "UINoConsent"
     ELSE IF VerifyApproval(appr, human, cid, now) # "ok" THEN VerifyApproval(appr, human, cid, now)
     ELSE IF action # cid                                 THEN "ActionSubstituted"
     ELSE "ok"

------------------------------------------------------------------------------
\* What the authority of run r may say next.
Says(r) ==
  CASE surface = "name" -> [of : {stream[r]}, signer : Signers]
    [] surface = "task" -> [of : {stream[r]}, card : Cards, to : TaskStates,
                            frm : {0} \cup (IF namelog[r] = << >> THEN {} ELSE {Last(namelog[r]).what.to})]
    [] OTHER            -> [of : {stream[r]}, kind : EventKinds, action : Actions]

\* Registrar.append, and the signing of a transition or an event on the chain so far.
AppendRecord(r, what) ==
  /\ Cardinality(objects) - forgeries < MaxIssued[surface]
  /\ namelog' = [namelog EXCEPT ![r] = Append(@, Body(what, @))]
  /\ objects' = objects \cup {SignedBy(Authority, Body(what, namelog[r]))}
  /\ UNCHANGED <<surface, stream, forgeries>>

\* Someone signs a record again: another key, a key of a lower level, or the authority
\* itself over a body with a field too many or too few.
SignAgain(o, as) ==
  /\ forgeries < MaxForgeries /\ forgeries' = forgeries + 1
  /\ as \notin objects
  /\ objects' = objects \cup {as}
  /\ UNCHANGED <<surface, stream, namelog>>

ChainsNext ==
  \/ \E r \in Runs : \E what \in Says(r) : AppendRecord(r, what)
  \/ \E o \in objects, k \in {Mallory, Classical} : SignAgain(o, SignedBy(k, o.body))
  \/ \E o \in objects : \/ SignAgain(o, [o EXCEPT !.body.extra = TRUE])
                        \/ SignAgain(o, [o EXCEPT !.body.bad = TRUE])

ChainsSpec == ChainsInit /\ [][ChainsNext]_chainvars

------------------------------------------------------------------------------
\* Everything a carrier can present.
Presented == SeqOf(objects, MaxIssued[surface])

\* What the walks without signatures can be given: bodies that were parsed.
Readable == SeqOf({o \in objects : ~o.body.bad}, MaxIssued[surface])
Of(s) == surface = s

\* Bodies with exactly the fields they should have.
Plain(objs) == \A i \in DOMAIN objs : ~objs[i].body.extra

\* bs is what one run of the authority appended, from its start.
Appended(bs) == \E r \in Runs : IsPrefix(bs, namelog[r])

\* objs, unsigned, is the start of some run's chain.
Genuine(objs) ==
  /\ \A i \in DOMAIN objs : objs[i].key = Authority /\ ~objs[i].body.bad
  /\ Appended(Bodies(objs))

(* A chain of names or shown events that verifies (naming.verify_chain,       *)
(* agui.verify_shown_chain) says what one run of the authority appended, from *)
(* its start: no omission, reordering, repetition, splicing of two runs, and  *)
(* no object of another key.  A real chain verifies.  The walks without       *)
(* signatures (walk_history, walk_shown) accept exactly what was appended.    *)
(* A name binding with a field too many is outside the second claim: the      *)
(* docstring of parse_name_binding calls it NameMalformed, its code reads the *)
(* four fields and passes over the fifth.  Such a chain is accepted, and all  *)
(* that is claimed is that what is read from it was appended.  A UI event     *)
(* with one is refused.                                                       *)
OnlyRealHistories ==
  \A objs \in Presented :
    /\ Of("name") => /\ VerifyNameChain(objs, Authority) = "ok" => Genuine(objs)
                     /\ Genuine(objs) /\ Plain(objs) => VerifyNameChain(objs, Authority) = "ok"
    /\ Of("ui") => (VerifyShownChain(objs, Authority) = "ok" <=>
         Genuine(objs) /\ Plain(objs) /\ \A i \in DOMAIN objs : KnownKind(objs[i].body.what.kind))
    /\ objs \in Readable =>
         /\ Of("name") => (WalkHistory(Bodies(objs)) = "ok" <=> Appended(Bodies(objs)))
         /\ Of("ui") => (WalkShown(Bodies(objs)) = "ok" <=>
              Appended(Bodies(objs)) /\ \A i \in DOMAIN objs : KnownKind(objs[i].body.what.kind))

(* detect_hole and detect_task_gap report the first place at which what is    *)
(* presented stops being the start of a real chain, and only then (the chains *)
(* of a bridge, which no run keeps, are those of RecoveredAsBridged).         *)
HoleAtFirstDeparture ==
  ~Of("card") => \A objs \in Readable :
    LET bs == Bodies(objs)
        real == {n \in 0..Len(bs) : \E r \in Runs : IsPrefix(SubSeq(bs, 1, n), namelog[r])}
    IN DetectHole(bs) = IF Len(bs) \in real THEN [at |-> 0, hole |-> FALSE]
                        ELSE [at |-> Max(real), hole |-> TRUE]

(* A name-fork proof exists exactly when one authority has built two chains   *)
(* for one name that disagree: an honest registrar cannot be accused, and two *)
(* diverging ones always can (naming.NameForkProof.verify).                   *)
ForkProofIffForked ==
  Of("name") =>
    ((\E x, y \in objects : NameForkProofVerify("authority", x, y, Authority) = "ok") <=>
     (\E q, r \in Runs : stream[q] = stream[r] /\ ~IsPrefix(namelog[q], namelog[r]) /\ ~IsPrefix(namelog[r], namelog[q])))

\* What the A2A categories allow, step by step: a task starts once, is not resumed after
\* its end, and leaves an interruption only for work or for an end.
CategoryRun(steps) ==
  \A i \in DOMAIN steps :
    /\ {steps[i].frm, steps[i].to} \subseteq 0..7
    /\ steps[i].frm = IF i = 1 THEN 0 ELSE steps[i - 1].to
    /\ steps[i].to # 0 /\ steps[i].to # steps[i].frm
    /\ steps[i].frm \notin Terminal
    /\ steps[i].frm \in Interrupted => steps[i].to \in {1} \cup Terminal

(* A task chain that verifies for a card is the start of a chain the agent    *)
(* built, every transition binds that card, and the states are a run of an    *)
(* A2A task from submitted; and every such chain verifies                     *)
(* (naming.verify_task_chain).  As for names, a transition with a field too   *)
(* many is read without it, against the docstring of parse_transition, and is *)
(* outside the second claim.                                                  *)
TaskChainIsRun ==
  Of("task") => \A objs \in Presented, card \in Cards :
    LET steps == [i \in DOMAIN objs |-> objs[i].body.what]
        real == /\ Genuine(objs) /\ CategoryRun(steps)
                /\ \A i \in DOMAIN objs : steps[i].card = card
    IN /\ VerifyTaskChain(objs, card, Authority) = "ok" => real
       /\ real /\ Plain(objs) => VerifyTaskChain(objs, card, Authority) = "ok"

Human == [alg |-> ALG.mldsa65, id |-> "human"]
HumanApprovals == [approves : Actions, key : {Human, Mallory}, not_after : {1}]

(* Consent is for the one action that was shown and approved, and that a      *)
(* human signed for: whatever is presented, no other action passes, and what  *)
(* is shown after the approval does not change which one it is                *)
(* (agui.verify_consent).  Events are not authenticated by this check, so the *)
(* presented chain may be anybody's.                                          *)
ConsentForShownOnly ==
  Of("ui") => \A objs \in Readable, action \in Actions, appr \in HumanApprovals, now \in 1..2 :
    LET bs == Bodies(objs)
    IN VerifyConsent(bs, action, appr, Human, now) = "ok" =>
         /\ appr.key = Human /\ appr.approves = action /\ now <= appr.not_after
         /\ \E i \in DOMAIN bs : bs[i].what.kind = APPROVED /\ bs[i].what.action = action
         /\ \A more \in Readable, other \in Actions :
              IsPrefix(objs, more) /\ VerifyConsent(Bodies(more), other, [appr EXCEPT !.approves = other], Human, now) = "ok"
                => other = action
==============================================================================
