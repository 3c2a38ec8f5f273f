---------------------------- MODULE Descriptions -----------------------------
(***************************************************************************)
(* What services say of themselves (description.py): signed descriptions,  *)
(* versioned directories whose publisher may fork, and imports of foreign  *)
(* documents, and the A2A bridge (a2a_bridge.py), which binds a chain of   *)
(* task states to the import of an agent card and recovers both.           *)
(*                                                                         *)
(* The surfaces "card" and "dir" are added to those of SignedChains.  The  *)
(* content id of an import is the import itself.                           *)
(***************************************************************************)
EXTENDS SignedChains

CONSTANTS
  Documents,     \* foreign documents, byte strings
  Operations,    \* operations an import may declare: [name, effect, approval]
  Formats,       \* format numbers, known or not
  Events,        \* foreign task events: [task, state], the state by its name
  Members,       \* members of a directory
  MaxImports, MaxDirs, MaxEvents

ASSUME DescConstants == MaxEvents \in Nat /\ \A e \in Events : e = [task |-> e.task, state |-> e.state]

VARIABLES imports, dirs, bridged, recovered
descvars == <<chainvars, imports, dirs, bridged, recovered>>

ALICE == Authority
Importers == {ALICE, Mallory}

------------------------------------------------------------------------------
KnownFormats == 1..3
A2A_CARD == 1

\* The flag is a number on the wire: only 0 and 1 are flags.
OperationFromValue(op) == IF op.approval > 1 THEN "MalformedApprovalFlag" ELSE "ok"

ParseImport(im) ==
  IF im.format \notin KnownFormats                                        THEN "UnknownDescriptionFormat"
  ELSE IF \E i \in DOMAIN im.ops : OperationFromValue(im.ops[i]) # "ok"   THEN "MalformedApprovalFlag"
  ELSE "ok"

\* Mutant: the importer named in the body is not compared with the key.
VerifyImportClaimed(o, key) ==
  LET v == VerifySign1(o, Profile, key) IN IF v = "ok" THEN ParseImport(o.body) ELSE v

VerifyImport(o, key) ==
  LET v == VerifySign1(o, Profile, key)
  IN IF v # "ok"                              THEN v
     ELSE IF ParseImport(o.body) # "ok"       THEN ParseImport(o.body)
     ELSE IF o.body.importer # key.id         THEN "ImporterMismatch"
     ELSE "ok"

\* The class of an operation no table knows is the worst one.
EffectClass(op) == IF op.effect \in 0..3 THEN op.effect ELSE 3
FindOperation(ops, name) == SelectSeq(ops, LAMBDA op : op.name = name)

------------------------------------------------------------------------------
(* Directories.                                                              *)
VerifyDirectory(o, key) == VerifySign1(o, Profile, key)

FirstMemberDifference(a, b) ==
  LET n == Min({Len(a), Len(b)})
      differ == {i \in 1..n : a[i] # b[i]}
  IN IF differ # {}            THEN [at |-> Min(differ) - 1, fork |-> TRUE]
     ELSE IF Len(a) # Len(b)   THEN [at |-> n, fork |-> TRUE]
     ELSE [at |-> 0, fork |-> FALSE]

\* Mutant: versions are not compared, so every update is a fork.
DetectDirForkAnyVersion(a, b) ==
  IF a.directory # b.directory THEN [at |-> 0, fork |-> FALSE] ELSE FirstMemberDifference(a.members, b.members)

DetectDirFork(a, b) ==
  IF a.directory # b.directory \/ a.version # b.version THEN [at |-> 0, fork |-> FALSE]
  ELSE FirstMemberDifference(a.members, b.members)

DirForkProof(signer, x, y, key) ==
  IF signer = ""                               THEN "DirForkProofInvalid"
  ELSE IF VerifyDirectory(x, key) # "ok"       THEN VerifyDirectory(x, key)
  ELSE IF VerifyDirectory(y, key) # "ok"       THEN VerifyDirectory(y, key)
  ELSE IF ~DetectDirFork(x.body, y.body).fork  THEN "DirForkProofInvalid"
  ELSE "ok"

\* Publisher q's next version of a directory; run q knows only what it published itself.
Publish(q, members) ==
  LET mine == {d \in dirs : d.run = q}
      body == [directory |-> stream[q], version |-> Cardinality(mine), members |-> members]
  IN /\ surface = "dir" /\ Cardinality(dirs) < MaxDirs
     /\ dirs' = dirs \cup {[run |-> q, obj |-> SignedBy(ALICE, body)]}
     /\ UNCHANGED <<chainvars, imports, bridged, recovered>>

------------------------------------------------------------------------------
(* The A2A bridge.                                                           *)
STATE_BY_NAME == [submitted |-> 0, working |-> 1, input_required |-> 2, auth_required |-> 3,
                  completed |-> 4, canceled |-> 5, failed |-> 6, rejected |-> 7]
StateName(code) == CHOOSE n \in DOMAIN STATE_BY_NAME : STATE_BY_NAME[n] = code

\* Alice imports under her own name; Mallory under any.
BridgeCard(key, importer, format, foreign, ops) ==
  /\ surface = "card" /\ Cardinality(imports) < MaxImports
  /\ key = ALICE => importer = key.id /\ format = A2A_CARD
  /\ imports' = imports \cup
       {SignedBy(key, [importer |-> importer, format |-> format, foreign |-> foreign, ops |-> ops])}
  /\ UNCHANGED <<chainvars, dirs, bridged, recovered>>

\* The states an activity goes through, from the start state.
Froms(events) == [i \in DOMAIN events |-> IF i = 1 THEN 0 ELSE STATE_BY_NAME[events[i - 1].state]]

Bridgeable(events) ==
  /\ events # << >>
  /\ \A i \in DOMAIN events :
       /\ events[i].task = events[1].task /\ events[i].state \in DOMAIN STATE_BY_NAME
       /\ VerifyTransition(Froms(events)[i], STATE_BY_NAME[events[i].state]) = "ok"

\* The transitions of an activity, each chained on all those before.
Activity(events, card) ==
  LET what(i) == [of |-> events[1].task, card |-> card, frm |-> Froms(events)[i],
                  to |-> STATE_BY_NAME[events[i].state]]
  IN [i \in DOMAIN events |->
        [what |-> what(i), seq |-> i - 1, extra |-> FALSE, bad |-> FALSE,
         prev |-> [j \in 1..(i - 1) |-> [what |-> what(j), seq |-> j - 1]]]]

\* All transitions are made and checked before the first one is signed.
BridgeActivity(events, card) ==
  /\ surface = "card" /\ Bridgeable(events) /\ Cardinality(bridged) < MaxIssued["task"]
  /\ objects' = objects \cup {SignedBy(Authority, b) : b \in ToSet(Activity(events, card))}
  /\ bridged' = bridged \cup {[events |-> events, card |-> card]}
  /\ UNCHANGED <<surface, stream, namelog, forgeries, imports, dirs, recovered>>

\* verify_card, then the card id taken from what was just verified, then verify_activity;
\* an empty activity ends in an IndexError.
VerifyAndRecover(cardObj, cardKey, objs, key) ==
  /\ VerifyImport(cardObj, cardKey) = "ok"
  /\ VerifyTaskChain(objs, cardObj.body, key) = "ok" /\ objs # << >>

RecoveredEvents(objs) ==
  [i \in DOMAIN objs |-> [task |-> objs[1].body.what.of, state |-> StateName(objs[i].body.what.to)]]

Recover(cardObj, cardKey, objs) ==
  /\ VerifyAndRecover(cardObj, cardKey, objs, Authority)
  /\ recovered' = [authority |-> cardKey.id, foreign |-> cardObj.body.foreign, card |-> cardObj.body,
                   events |-> RecoveredEvents(objs)]
  /\ UNCHANGED <<chainvars, imports, dirs, bridged>>

------------------------------------------------------------------------------
NotYet == [authority |-> "nobody"]
DescInit == ChainsInit /\ imports = {} /\ dirs = {} /\ bridged = {} /\ recovered = NotYet

DescNext ==
  \/ surface \notin {"card", "dir"} /\ ChainsNext /\ UNCHANGED <<imports, dirs, bridged, recovered>>
  \/ surface = "card" /\ \E key \in Importers, importer \in {ALICE.id, Mallory.id}, format \in Formats, foreign \in Documents,
        op \in Operations : BridgeCard(key, importer, format, foreign, <<op>>)
  \/ surface = "dir" /\ \E q \in Runs, members \in SeqOf(Members, 2) : Publish(q, members)
  \/ surface = "card" /\ \E events \in SeqOf(Events, MaxEvents), card \in {o.body : o \in imports} :
                            BridgeActivity(events, card)
  \/ /\ surface = "card" /\ recovered = NotYet
     /\ \E o \in imports, k \in Importers, objs \in SeqOf(objects, MaxEvents) : Recover(o, k, objs)

DescSpec == DescInit /\ [][DescNext]_descvars

------------------------------------------------------------------------------
(* What comes out of the A2A bridge went into it: the recovered card is the  *)
(* one its authority attested in its own name, byte for byte, and the events *)
(* are the first events of one activity bridged under that very card, in     *)
(* order and with one task, however cards, keys and transitions are mixed    *)
(* (a2a_bridge.verify_and_recover).                                          *)
RecoveredAsBridged ==
  recovered # NotYet =>
    /\ \E o \in imports : o.body = recovered.card /\ o.key.id = recovered.authority
                          /\ o.body.importer = recovered.authority
    /\ \E b \in bridged : b.card = recovered.card /\ IsPrefix(recovered.events, b.events)

(* A directory publisher is accused exactly when it signed two member lists  *)
(* as one version: versions in sequence never make a proof, two runs that    *)
(* disagree on one always do, and the position named is where they part      *)
(* (description.detect_fork, DirectoryForkProof.verify).                     *)
DirForkIffForked ==
  LET proved(x, y) == DirForkProof("authority", x.obj, y.obj, ALICE) = "ok"
  IN /\ \A x, y \in dirs : x.run = y.run => ~proved(x, y)
     /\ \A x, y \in dirs :
          /\ x.obj.body.directory = y.obj.body.directory /\ x.obj.body.version = y.obj.body.version
          /\ x.obj.body.members # y.obj.body.members
          <=> /\ proved(x, y)
              /\ DetectDirFork(x.obj.body, y.obj.body).at =
                   Len(LongestCommonPrefix({x.obj.body.members, y.obj.body.members}))

(* A chain that verifies is what one run of its authority built, from its    *)
(* start; where one does not, the first departure is named; task runs,       *)
(* consents and bridged activities that rest on chains are therefore real    *)
(* ones (naming, agui, a2a_bridge).                                          *)
ChainsAreHistories ==
  /\ OnlyRealHistories
  /\ HoleAtFirstDeparture
  /\ TaskChainIsRun
  /\ ConsentForShownOnly
  /\ RecoveredAsBridged
==============================================================================
