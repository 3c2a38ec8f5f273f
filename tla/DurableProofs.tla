---------------------------- MODULE DurableProofs ----------------------------
(***************************************************************************)
(* The delivery tracker and the workflow gate keep what they acknowledged, *)
(* for any number of objects, stages, tasks and failures.                  *)
(***************************************************************************)
EXTENDS MCDurable, WellFoundedInduction, TLAPS

(***************************************************************************)
(* The last record of a log                                                *)
(***************************************************************************)
\* Natural numbers are well ordered: a set of them has a least element.
LEMMA LeastExists ==
  ASSUME NEW T \in SUBSET Nat, T # {}
  PROVE  \E m \in T : \A y \in T : m <= y
  <1> DEFINE R == {ss \in Nat \X Nat : ss[1] < ss[2]}
  <1>1. IsWellFoundedOn(R, Nat)
    BY NatLessThanWellFounded, Zenon DEF OpToRel
  <1>2. \A x, y \in Nat : <<x, y>> \in R <=> x < y
    OBVIOUS
  <1> HIDE DEF R
  <1>3. PICK m \in T : \A y \in Nat : <<y, m>> \in R => ~(y \in T)
    BY <1>1, WFMin, Zenon
  <1>4. \A y \in T : ~(y < m)
    BY <1>2, <1>3, Zenon
  <1> QED BY <1>3, <1>4

\* A bounded set of them has a greatest one.
LEMMA GreatestExists ==
  ASSUME NEW n \in Nat, NEW T \in SUBSET (1..n), T # {}
  PROVE  \E m \in T : \A y \in T : y <= m
  <1> DEFINE U == {u \in Nat : \A y \in T : y <= u}
  <1>1. n \in U
    OBVIOUS
  <1>2. PICK m \in U : \A u \in U : m <= u
    BY <1>1, LeastExists
  <1>3. m \in T
    <2> SUFFICES ASSUME m \notin T PROVE FALSE
      OBVIOUS
    <2>1. PICK y \in T : TRUE
      OBVIOUS
    <2>2. y \in Nat \ {0} /\ y <= m
      BY <1>2, <2>1
    <2>3. m - 1 \in Nat /\ \A x \in T : x <= m - 1
      BY <1>2, <2>2
    <2>4. m - 1 \in U
      BY <2>3
    <2> QED BY <1>2, <2>2, <2>4
  <1> QED BY <1>2, <1>3

\* What the library's Max is on a set of positions.
LEMMA MaxIs ==
  ASSUME NEW n \in Nat, NEW T \in SUBSET (1..n), T # {}
  PROVE  Max(T) \in T /\ \A y \in T : y <= Max(T)
  BY GreatestExists DEF Max

\* And its Min.
LEMMA MinIs ==
  ASSUME NEW n \in Nat, NEW T \in SUBSET (1..n), T # {}
  PROVE  Min(T) \in T /\ \A y \in T : Min(T) <= y
  <1>1. T \in SUBSET Nat
    OBVIOUS
  <1>2. \E m \in T : \A y \in T : m <= y
    BY <1>1, LeastExists
  <1> QED BY <1>1, <1>2 DEF Min

(***************************************************************************)
(* The delivery tracker                                                    *)
(***************************************************************************)
\* Durable records are the start of the file; an open tracker writes behind
\* them, and what is in the file behind its position (part of a record that
\* a failed flush left) will be covered by what is in its buffer.
TrackerFileInv ==
  /\ Len(durable) <= Len(updates)
  /\ \A k \in 1..Len(durable) : updates[k] = durable[k]
  /\ tracker = "open" => /\ Len(durable) <= writeAt /\ writeAt <= Len(updates)
                         /\ Len(updates) <= writeAt + Len(unflushed)

\* The step an advance is at, and what it has done.
TrackerStepInv ==
  /\ tracker # "open" => unflushed = << >> /\ step = "idle"
  /\ \A j \in 1..Len(unflushed) : unflushed[j].stage > current[unflushed[j].obj]
  /\ step # "idle" => update \in Update /\ update.stage > current[update.obj]
  /\ step = "flush" => unflushed # << >> /\ unflushed[Len(unflushed)] = update
  /\ step \in {"fsync", "ack"} =>
       unflushed = << >> /\ updates # << >> /\ updates[Len(updates)] = update
  /\ step = "ack" => durable = updates

\* The durable record that keeps a persisted stage: nothing readable behind it
\* is of an earlier stage of that object.
Keeper(o, k) ==
  /\ durable[k].obj = o
  /\ \A j \in 1..Len(updates) :
       j >= k /\ updates[j] # TornUpdate /\ updates[j].obj = o => updates[j].stage >= persisted[o]

KeptInv == \A o \in Objects : persisted[o] # Unseen => \E k \in 1..Len(durable) : Keeper(o, k)

TrackerInv == TrackerTypeOK /\ PersistedStageKept /\ TrackerFileInv /\ TrackerStepInv /\ KeptInv

LEMMA TornUpdateType ==
  TornUpdate \in UpdateCell /\ TornUpdate \notin Update /\ Unseen \notin Stages
  BY TrackerConstants DEF TornUpdate, UpdateCell, Update, Stages, Unseen

\* What a write of records rs at position p leaves in a file.
LEMMA WrittenIs ==
  ASSUME NEW f \in Seq(UpdateCell), NEW p \in Nat, NEW rs \in Seq(UpdateCell), p <= Len(f)
  PROVE  /\ Written(f, p, rs) \in Seq(UpdateCell)
         /\ Len(Written(f, p, rs)) = IF p + Len(rs) > Len(f) THEN p + Len(rs) ELSE Len(f)
         /\ \A k \in 1..Len(Written(f, p, rs)) :
              \/ k <= Len(f) /\ (k <= p \/ k > p + Len(rs)) /\ Written(f, p, rs)[k] = f[k]
              \/ k > p /\ k <= p + Len(rs) /\ Written(f, p, rs)[k] = rs[k - p]
  <1> DEFINE g == Written(f, p, rs)
             n == IF p + Len(rs) > Len(f) THEN p + Len(rs) ELSE Len(f)
  <1>1. n \in Nat /\ Len(f) \in Nat /\ Len(rs) \in Nat /\ Len(f) <= n /\ p + Len(rs) <= n
    OBVIOUS
  <1>2. g = [k \in 1..n |-> IF k > p /\ k <= p + Len(rs) THEN rs[k - p] ELSE f[k]]
    BY DEF Written
  <1> HIDE DEF g
  <1>3. \A k \in 1..n : k > p /\ k <= p + Len(rs) => k - p \in 1..Len(rs) /\ rs[k - p] \in UpdateCell
    BY <1>1
  <1>4. \A k \in 1..n : ~(k > p /\ k <= p + Len(rs)) =>
          k <= Len(f) /\ (k <= p \/ k > p + Len(rs)) /\ f[k] \in UpdateCell
    BY <1>1
  <1>5. \A k \in 1..n : (IF k > p /\ k <= p + Len(rs) THEN rs[k - p] ELSE f[k]) \in UpdateCell
    BY <1>3, <1>4
  <1>6. g \in Seq(UpdateCell) /\ Len(g) = n
    BY <1>1, <1>2, <1>5
  <1>7. \A k \in 1..n :
          \/ k <= Len(f) /\ (k <= p \/ k > p + Len(rs)) /\ g[k] = f[k]
          \/ k > p /\ k <= p + Len(rs) /\ g[k] = rs[k - p]
    BY <1>2, <1>4
  <1> QED BY <1>6, <1>7 DEF g

\* The stage a replay of a readable log ends with.
LEMMA LastStageIs ==
  ASSUME NEW f \in Seq(UpdateCell), ReadableLog(f), NEW o \in Objects
  PROVE  /\ LastStage(f, o) \in Stages \cup {Unseen}
         /\ \A k \in 1..Len(f) : f[k].obj = o =>
              \E m \in k..Len(f) : f[m].obj = o /\ LastStage(f, o) = f[m].stage
  <1> DEFINE ks == {k \in 1..Len(f) : f[k].obj = o}
  <1>1. Len(f) \in Nat /\ ks \in SUBSET (1..Len(f))
    OBVIOUS
  <1>2. \A k \in 1..Len(f) : f[k] \in Update
    BY DEF ReadableLog, UpdateCell
  <1>3. LastStage(f, o) = IF ks = {} THEN Unseen ELSE f[Max(ks)].stage
    BY DEF LastStage
  <1>4. CASE ks = {}
    BY <1>3, <1>4
  <1>5. CASE ks # {}
    <2>1. Max(ks) \in ks /\ \A y \in ks : y <= Max(ks)
      <3> HIDE DEF ks
      <3> QED BY <1>1, <1>5, MaxIs
    <2> DEFINE m == Max(ks)
    <2>2. m \in 1..Len(f) /\ f[m].obj = o /\ \A k \in 1..Len(f) : f[k].obj = o => k <= m
      BY <2>1
    <2>3. LastStage(f, o) = f[m].stage
      BY <1>3, <1>5
    <2> HIDE DEF m, ks
    <2>4. f[m].stage \in Stages
      BY <1>2, <2>2 DEF Update
    <2>5. \A k \in 1..Len(f) : f[k].obj = o => m \in k..Len(f)
      BY <1>1, <2>2
    <2> QED BY <2>2, <2>3, <2>4, <2>5
  <1> QED BY <1>4, <1>5

LEMMA TrackerInitInv == TrackerInit => TrackerInv
  BY TrackerConstants, TornUpdateType
  DEF TrackerInit, TrackerInv, TrackerTypeOK, PersistedStageKept, TrackerFileInv, TrackerStepInv,
      KeptInv, Unseen

\* The parts of the invariant that a step uses.
LEMMA TrackerTyped ==
  ASSUME TrackerInv
  PROVE  /\ updates \in Seq(UpdateCell) /\ durable \in Seq(UpdateCell)
         /\ Len(updates) \in Nat /\ Len(durable) \in Nat /\ Len(durable) <= Len(updates)
         /\ \A k \in 1..Len(durable) : updates[k] = durable[k]
         /\ writeAt \in Nat /\ unflushed \in Seq(Update) /\ Len(unflushed) \in Nat
         /\ current \in [Objects -> Stages \cup {Unseen}]
         /\ persisted \in [Objects -> Stages \cup {Unseen}]
         /\ \A o \in Objects : current[o] \in Int /\ persisted[o] \in Int
  BY DEF TrackerInv, TrackerTypeOK, TrackerFileInv, Stages, Unseen

\* Every stage a replay finds is at least the one that was persisted.
LEMMA ReplayKeeps ==
  ASSUME TrackerInv, ReadableLog(updates), NEW o \in Objects
  PROVE  LastStage(updates, o) >= persisted[o] /\ LastStage(updates, o) \in Stages \cup {Unseen}
  <1>1. LastStage(updates, o) \in Stages \cup {Unseen}
    BY TrackerTyped, LastStageIs
  <1>2. CASE persisted[o] = Unseen
    BY <1>1, <1>2 DEF Stages, Unseen
  <1>3. CASE persisted[o] # Unseen
    <2>1. PICK k \in 1..Len(durable) : Keeper(o, k)
      BY <1>3 DEF TrackerInv, KeptInv
    <2>2. k \in 1..Len(updates) /\ updates[k].obj = o
      BY <2>1, TrackerTyped DEF Keeper
    <2>3. PICK m \in k..Len(updates) : updates[m].obj = o /\ LastStage(updates, o) = updates[m].stage
      BY <2>2, TrackerTyped, LastStageIs
    <2>4. m \in 1..Len(updates) /\ m >= k /\ updates[m] # TornUpdate
      BY <2>2, <2>3, TrackerTyped DEF ReadableLog
    <2>5. updates[m].stage >= persisted[o]
      BY <2>1, <2>3, <2>4 DEF Keeper
    <2> QED BY <1>1, <2>3, <2>5
  <1> QED BY <1>2, <1>3

LEMMA OpenTrackerInv == ASSUME TrackerInv, OpenTracker PROVE TrackerInv'
  <1>1. /\ tracker # "open"
        /\ UNCHANGED <<updates, durable, unflushed, step, update, reported, persisted,
                       trackerCrashes, trackerLosses, trackerFaults>>
    BY DEF OpenTracker, trackerFile, trackerHistory, trackerCounters
  <1>2. unflushed = << >> /\ step = "idle"
    BY <1>1 DEF TrackerInv, TrackerStepInv
  <1>3. KeptInv'
    BY <1>1 DEF TrackerInv, KeptInv, Keeper
  <1>4. CASE ReadableLog(updates)
    <2>1. /\ tracker' = "open" /\ writeAt' = Len(updates)
          /\ current' = [o \in Objects |-> LastStage(updates, o)]
      BY <1>4 DEF OpenTracker, ReplayEnd
    <2>2. \A o \in Objects : /\ LastStage(updates, o) >= persisted[o]
                             /\ LastStage(updates, o) \in Stages \cup {Unseen}
      BY <1>4, ReplayKeeps
    <2>3. TrackerTypeOK'
      BY <1>1, <2>1, <2>2, TrackerTyped DEF TrackerInv, TrackerTypeOK
    <2>4. PersistedStageKept'
      BY <1>1, <2>1, <2>2 DEF PersistedStageKept
    <2>5. TrackerFileInv' /\ TrackerStepInv'
      BY <1>1, <1>2, <2>1, TrackerTyped DEF TrackerFileInv, TrackerStepInv
    <2> QED BY <1>3, <2>3, <2>4, <2>5 DEF TrackerInv
  <1>5. CASE ~ReadableLog(updates)
    <2>1. tracker' = "refused" /\ UNCHANGED <<current, writeAt>>
      BY <1>5 DEF OpenTracker
    <2> QED BY <1>1, <1>2, <1>3, <2>1
            DEF TrackerInv, TrackerTypeOK, PersistedStageKept, TrackerFileInv, TrackerStepInv
  <1> QED BY <1>4, <1>5

LEMMA AdvanceInv ==
  ASSUME TrackerInv, NEW o \in Objects, NEW s \in Stages, Advance(o, s) PROVE TrackerInv'
  <1>1. /\ tracker = "open" /\ step = "idle"
        /\ UNCHANGED <<updates, durable, tracker, current, writeAt, persisted,
                       trackerCrashes, trackerLosses, trackerFaults>>
    BY DEF Advance, trackerFile, trackerCounters
  <1>2. KeptInv' /\ PersistedStageKept'
    BY <1>1 DEF TrackerInv, KeptInv, Keeper, PersistedStageKept
  <1>3. CASE Later(o, s)
    <2> DEFINE u == [obj |-> o, stage |-> s]
    <2>1. /\ update' = u /\ unflushed' = Append(unflushed, u) /\ step' = "flush"
          /\ reported' = reported
      BY <1>3 DEF Advance
    <2>2. u \in Update /\ u \in UpdateCell /\ u.stage > current[u.obj]
      BY <1>3 DEF Update, UpdateCell, Later
    <2> HIDE DEF u
    <2>3. /\ unflushed' \in Seq(Update) /\ Len(unflushed') = Len(unflushed) + 1
          /\ unflushed'[Len(unflushed')] = u
          /\ \A j \in 1..Len(unflushed) : unflushed'[j] = unflushed[j]
      BY <2>1, <2>2, TrackerTyped
    <2>4. TrackerTypeOK'
      BY <1>1, <2>1, <2>2, <2>3 DEF TrackerInv, TrackerTypeOK
    <2>5. TrackerFileInv'
      BY <1>1, <2>3, TrackerTyped DEF TrackerInv, TrackerFileInv
    <2>6. TrackerStepInv'
      <3>1. ASSUME NEW j \in 1..Len(unflushed')
            PROVE  unflushed'[j].stage > current'[unflushed'[j].obj]
        <4>1. j = Len(unflushed') \/ j \in 1..Len(unflushed)
          BY <2>3, <3>1, TrackerTyped
        <4>2. \A k \in 1..Len(unflushed) : unflushed[k].stage > current[unflushed[k].obj]
          BY DEF TrackerInv, TrackerStepInv
        <4> QED BY <1>1, <2>2, <2>3, <4>1, <4>2
      <3>2. unflushed' # << >>
        BY <2>3, TrackerTyped
      <3> QED BY <1>1, <2>1, <2>2, <2>3, <3>1, <3>2 DEF TrackerStepInv
    <2> QED BY <1>2, <2>4, <2>5, <2>6 DEF TrackerInv
  <1>4. CASE ~Later(o, s)
    <2>1. UNCHANGED <<update, unflushed, step>> /\ reported' \in [Objects -> Stages \cup {Unseen}]
      BY <1>4 DEF Advance, TrackerInv, TrackerTypeOK
    <2> QED BY <1>1, <1>2, <2>1 DEF TrackerInv, TrackerTypeOK, TrackerFileInv, TrackerStepInv
  <1> QED BY <1>3, <1>4

\* A write of buffered records, or of part of one, behind the durable ones.
LEMMA WriteInv ==
  ASSUME TrackerInv, tracker = "open", NEW rs \in Seq(UpdateCell),
         \A j \in 1..Len(rs) : rs[j] = TornUpdate \/ rs[j].stage > current[rs[j].obj],
         updates' = Written(updates, writeAt, rs), UNCHANGED <<durable, persisted>>
  PROVE  /\ updates' \in Seq(UpdateCell)
         /\ Len(updates') = IF writeAt + Len(rs) > Len(updates) THEN writeAt + Len(rs) ELSE Len(updates)
         /\ Len(updates') \in Nat /\ Len(updates) <= Len(updates')
         /\ \A k \in 1..Len(durable) : k <= Len(updates') /\ updates'[k] = durable[k]
         /\ \A j \in 1..Len(rs) : updates'[writeAt + j] = rs[j]
         /\ KeptInv'
  <1>1. /\ Len(durable) <= writeAt /\ writeAt <= Len(updates)
    BY DEF TrackerInv, TrackerFileInv
  <1>2. /\ updates' \in Seq(UpdateCell) /\ Len(rs) \in Nat
        /\ Len(updates') = IF writeAt + Len(rs) > Len(updates) THEN writeAt + Len(rs) ELSE Len(updates)
        /\ \A k \in 1..Len(updates') :
              \/ k <= Len(updates) /\ (k <= writeAt \/ k > writeAt + Len(rs)) /\ updates'[k] = updates[k]
              \/ k > writeAt /\ k <= writeAt + Len(rs) /\ updates'[k] = rs[k - writeAt]
    BY <1>1, TrackerTyped, WrittenIs
  <1>3. Len(updates') \in Nat /\ Len(updates) <= Len(updates')
    BY <1>2, TrackerTyped
  <1>4. ASSUME NEW k \in 1..Len(durable) PROVE k <= Len(updates') /\ updates'[k] = durable[k]
    <2>1. k \in 1..Len(updates') /\ k <= writeAt /\ updates[k] = durable[k]
      BY <1>1, <1>3, <1>4, TrackerTyped
    <2> QED BY <1>2, <1>4, <2>1, TrackerTyped
  <1>5. ASSUME NEW j \in 1..Len(rs) PROVE updates'[writeAt + j] = rs[j]
    <2>1. /\ writeAt + j \in 1..Len(updates') /\ writeAt + j > writeAt
          /\ writeAt + j <= writeAt + Len(rs) /\ (writeAt + j) - writeAt = j
      BY <1>2, <1>5, TrackerTyped
    <2> DEFINE q == writeAt + j
    <2>2. q \in 1..Len(updates') /\ q > writeAt /\ q <= writeAt + Len(rs) /\ q - writeAt = j
      BY <2>1
    <2> HIDE DEF q
    <2>3. updates'[q] = rs[q - writeAt]
      <3>1. ~(q <= writeAt \/ q > writeAt + Len(rs))
        BY <1>2, <2>2, TrackerTyped
      <3> QED BY <1>2, <2>2, <3>1
    <2> QED BY <2>2, <2>3 DEF q
  <1>6. ASSUME NEW o \in Objects, persisted'[o] # Unseen
        PROVE  \E k \in 1..Len(durable') : Keeper(o, k)'
    <2>1. PICK k \in 1..Len(durable) : Keeper(o, k)
      BY <1>6 DEF TrackerInv, KeptInv
    <2>2. ASSUME NEW j \in 1..Len(updates'), j >= k, updates'[j] # TornUpdate, updates'[j].obj = o
          PROVE  updates'[j].stage >= persisted[o]
      <3>1. CASE j <= Len(updates) /\ updates'[j] = updates[j]
        <4>1. j \in 1..Len(updates)
          BY <3>1, TrackerTyped
        <4> QED BY <2>1, <2>2, <3>1, <4>1 DEF Keeper
      <3>2. CASE j > writeAt /\ j <= writeAt + Len(rs) /\ updates'[j] = rs[j - writeAt]
        <4>1. j - writeAt \in 1..Len(rs)
          BY <1>2, <3>2, TrackerTyped
        <4>2. updates'[j].stage > current[o] /\ updates'[j].stage \in Int
          <5>1. updates'[j] \in Update
            BY <1>2, <2>2 DEF UpdateCell
          <5> QED BY <2>2, <3>2, <4>1, <5>1 DEF Update, Stages
        <4>3. current[o] >= persisted[o]
          BY DEF TrackerInv, PersistedStageKept
        <4> QED BY <4>2, <4>3, TrackerTyped
      <3> QED BY <1>2, <2>2, <3>1, <3>2
    <2>3. Keeper(o, k)'
      BY <2>1, <2>2 DEF Keeper
    <2> QED BY <2>3
  <1>7. KeptInv'
    BY <1>6 DEF KeptInv
  <1> QED BY <1>2, <1>3, <1>4, <1>5, <1>7

\* Everything in the buffer is of a later stage than the memory knows.
LEMMA BufferLater ==
  ASSUME TrackerInv
  PROVE  /\ unflushed \in Seq(UpdateCell)
         /\ \A j \in 1..Len(unflushed) : unflushed[j] \in Update
         /\ \A j \in 1..Len(unflushed) : unflushed[j].stage > current[unflushed[j].obj]
  BY TrackerTyped DEF TrackerInv, TrackerStepInv, UpdateCell

LEMMA FlushUpdatesInv ==
  ASSUME TrackerInv, FlushUpdates
  PROVE  TrackerInv' /\ \A k \in 1..Len(durable) : k <= Len(updates') /\ updates'[k] = durable[k]
  <1>1. /\ step = "flush" /\ updates' = Written(updates, writeAt, unflushed)
        /\ writeAt' = writeAt + Len(unflushed) /\ unflushed' = << >> /\ step' = "fsync"
        /\ UNCHANGED <<durable, tracker, current, update, reported, persisted,
                       trackerCrashes, trackerLosses, trackerFaults>>
    BY DEF FlushUpdates, trackerHistory, trackerCounters
  <1>2. /\ tracker = "open" /\ unflushed # << >> /\ unflushed[Len(unflushed)] = update
        /\ update \in Update /\ update.stage > current[update.obj]
        /\ Len(durable) <= writeAt /\ Len(updates) <= writeAt + Len(unflushed)
    BY <1>1 DEF TrackerInv, TrackerStepInv, TrackerFileInv
  <1>3. /\ updates' \in Seq(UpdateCell)
        /\ Len(updates') = IF writeAt + Len(unflushed) > Len(updates)
                             THEN writeAt + Len(unflushed) ELSE Len(updates)
        /\ \A k \in 1..Len(durable) : k <= Len(updates') /\ updates'[k] = durable[k]
        /\ \A j \in 1..Len(unflushed) : updates'[writeAt + j] = unflushed[j]
        /\ KeptInv'
    BY <1>1, <1>2, BufferLater, WriteInv
  <1>4. Len(updates') = writeAt + Len(unflushed)
    <2> DEFINE a == writeAt
               m == Len(unflushed)
               c == Len(updates)
    <2>1. a \in Nat /\ m \in Nat /\ c \in Nat
      BY TrackerTyped
    <2>2. c <= a + m /\ Len(updates') = IF a + m > c THEN a + m ELSE c
      BY <1>2, <1>3
    <2> HIDE DEF a, m, c
    <2>3. Len(updates') = a + m
      BY <2>1, <2>2
    <2> QED BY <2>3 DEF a, m
  <1>5. Len(unflushed) \in 1..Len(unflushed)
    BY <1>2, TrackerTyped
  <1>6. updates' # << >> /\ updates'[Len(updates')] = update'
    <2>1. updates'[writeAt + Len(unflushed)] = unflushed[Len(unflushed)]
      BY <1>3, <1>5
    <2>2. Len(updates') # 0
      BY <1>4, <1>5, TrackerTyped
    <2> QED BY <1>1, <1>2, <1>3, <1>4, <2>1, <2>2
  <1>7. TrackerTypeOK'
    <2>1. writeAt' \in Nat /\ unflushed' \in Seq(Update)
      BY <1>1, TrackerTyped
    <2> QED BY <1>1, <1>3, <2>1 DEF TrackerInv, TrackerTypeOK
  <1>8. TrackerFileInv'
    <2>1. Len(durable') <= Len(updates') /\ Len(durable') <= writeAt' /\ Len(unflushed') = 0
      BY <1>1, <1>2, <1>4, TrackerTyped
    <2>2. writeAt' <= Len(updates') /\ Len(updates') <= writeAt' + Len(unflushed')
      BY <1>1, <1>4, <2>1, TrackerTyped
    <2> QED BY <1>1, <1>3, <2>1, <2>2 DEF TrackerFileInv
  <1>9. TrackerStepInv'
    BY <1>1, <1>2, <1>6 DEF TrackerStepInv
  <1>10. PersistedStageKept'
    BY <1>1 DEF TrackerInv, PersistedStageKept
  <1> QED BY <1>3, <1>7, <1>8, <1>9, <1>10 DEF TrackerInv

LEMMA FsyncUpdatesInv == ASSUME TrackerInv, FsyncUpdates PROVE TrackerInv'
  <1>1. /\ step = "fsync" /\ durable' = updates /\ step' = "ack"
        /\ UNCHANGED <<updates, tracker, current, unflushed, writeAt, update, reported, persisted,
                       trackerCrashes, trackerLosses, trackerFaults>>
    BY DEF FsyncUpdates, Synced, trackerHistory, trackerCounters
  <1>2. tracker = "open" /\ unflushed = << >>
    BY <1>1 DEF TrackerInv, TrackerStepInv
  <1>3. TrackerTypeOK' /\ PersistedStageKept' /\ TrackerStepInv'
    BY <1>1 DEF TrackerInv, TrackerTypeOK, PersistedStageKept, TrackerStepInv
  <1>4. TrackerFileInv'
    <2>1. Len(updates) = writeAt
      BY <1>2, TrackerTyped DEF TrackerInv, TrackerFileInv
    <2> QED BY <1>1, <1>2, <2>1, TrackerTyped DEF TrackerFileInv
  <1>5. KeptInv'
    <2> SUFFICES ASSUME NEW o \in Objects, persisted[o] # Unseen
                 PROVE  \E k \in 1..Len(durable') : Keeper(o, k)'
      BY <1>1 DEF KeptInv
    <2>1. PICK k \in 1..Len(durable) : Keeper(o, k)
      BY DEF TrackerInv, KeptInv
    <2>2. k \in 1..Len(durable') /\ durable'[k] = durable[k]
      BY <1>1, <2>1, TrackerTyped
    <2> QED BY <1>1, <2>1, <2>2 DEF Keeper
  <1> QED BY <1>3, <1>4, <1>5 DEF TrackerInv

\* The update that is returned is the last durable record: it keeps the stage.
LEMMA ReturnUpdateInv ==
  ASSUME TrackerInv, ReturnUpdate
  PROVE  TrackerInv' /\ \A o \in Objects : persisted'[o] >= persisted[o]
  <1> DEFINE b == update.obj
             s == update.stage
  <1>1. /\ step = "ack" /\ step' = "idle" /\ update' = TornUpdate
        /\ current' = [current EXCEPT ![b] = s]
        /\ reported' = [reported EXCEPT ![b] = s]
        /\ persisted' = [persisted EXCEPT ![b] = s]
        /\ UNCHANGED <<updates, durable, tracker, unflushed, writeAt,
                       trackerCrashes, trackerLosses, trackerFaults>>
    BY DEF ReturnUpdate, trackerFile, trackerCounters
  <1>2. /\ tracker = "open" /\ unflushed = << >> /\ durable = updates
        /\ updates # << >> /\ updates[Len(updates)] = update
        /\ update \in Update /\ b \in Objects /\ s \in Stages /\ s > current[b]
    BY <1>1 DEF TrackerInv, TrackerStepInv, Update
  <1>3. \A o \in Objects : current[o] >= persisted[o]
    BY <1>2 DEF TrackerInv, PersistedStageKept
  <1>4. s \in Int /\ Len(updates) \in 1..Len(updates)
    BY <1>2, TrackerTyped DEF Stages
  <1>5. TrackerTypeOK'
    BY <1>1, <1>2, TornUpdateType DEF TrackerInv, TrackerTypeOK
  <1> HIDE DEF b, s
  <1>6. /\ persisted'[b] = s /\ current'[b] = s
        /\ \A o \in Objects \ {b} : persisted'[o] = persisted[o] /\ current'[o] = current[o]
    BY <1>1, <1>2, TrackerTyped
  <1>7. \A o \in Objects : persisted'[o] >= persisted[o]
    BY <1>2, <1>3, <1>4, <1>6, TrackerTyped
  <1>8. PersistedStageKept'
    <2> SUFFICES ASSUME NEW o \in Objects PROVE current'[o] >= persisted'[o]
      BY DEF PersistedStageKept
    <2>1. CASE o = b
      BY <1>4, <1>6, <2>1
    <2>2. CASE o # b
      BY <1>3, <1>6, <2>2
    <2> QED BY <2>1, <2>2
  <1>9. TrackerFileInv' /\ TrackerStepInv'
    BY <1>1, <1>2 DEF TrackerInv, TrackerFileInv, TrackerStepInv
  <1>10. KeptInv'
    <2> SUFFICES ASSUME NEW o \in Objects, persisted'[o] # Unseen
                 PROVE  \E k \in 1..Len(durable) : Keeper(o, k)'
      BY <1>1 DEF KeptInv
    <2>1. CASE o = b
      <3>0. PICK n \in Nat : n = Len(updates)
        BY TrackerTyped
      <3>1. n \in 1..Len(durable) /\ durable[n] = update /\ n \in Nat
        BY <1>2, <1>4, <3>0, TrackerTyped
      <3>2. ASSUME NEW j \in 1..n, j >= n PROVE updates[j].stage >= persisted'[o]
        <4>1. j = n
          BY <3>1, <3>2
        <4> QED BY <1>2, <1>4, <1>6, <2>1, <3>0, <4>1 DEF s
      <3>3. Keeper(o, n)'
        <4>1. durable'[n].obj = o
          BY <1>1, <2>1, <3>1 DEF b
        <4>2. Len(updates') = n /\ \A j \in 1..n : j >= n => updates'[j].stage >= persisted'[o]
          BY <1>1, <3>0, <3>2
        <4> QED BY <4>1, <4>2 DEF Keeper
      <3> QED BY <3>1, <3>3
    <2>2. CASE o # b
      <3>1. persisted'[o] = persisted[o]
        BY <1>6, <2>2
      <3>2. PICK k \in 1..Len(durable) : Keeper(o, k)
        BY <3>1 DEF TrackerInv, KeptInv
      <3>3. Keeper(o, k)'
        BY <1>1, <3>1, <3>2 DEF Keeper
      <3> QED BY <3>3
    <2> QED BY <2>1, <2>2
  <1> QED BY <1>5, <1>7, <1>8, <1>9, <1>10 DEF TrackerInv

\* A failed flush: the records that went out, and perhaps part of the next one,
\* which the buffer still holds.
LEMMA FlushFailsInv ==
  ASSUME TrackerInv, tracker = "open", FlushFails, UNCHANGED <<durable, persisted>>
  PROVE  /\ updates' \in Seq(UpdateCell) /\ Len(updates') \in Nat
         /\ Len(updates) <= Len(updates')
         /\ \A k \in 1..Len(durable) : k <= Len(updates') /\ updates'[k] = durable[k]
         /\ KeptInv'
         /\ unflushed' \in Seq(Update) /\ writeAt' \in Nat
         /\ \A j \in 1..Len(unflushed') : unflushed'[j].stage > current[unflushed'[j].obj]
         /\ Len(durable) <= writeAt' /\ writeAt' <= Len(updates')
         /\ Len(updates') <= writeAt' + Len(unflushed')
  <1>1. PICK n \in 0..(Len(unflushed) - 1) :
          /\ updates' \in {Written(updates, writeAt, SubSeq(unflushed, 1, n)),
                           Written(updates, writeAt, Append(SubSeq(unflushed, 1, n), TornUpdate))}
          /\ writeAt' = writeAt + n
          /\ unflushed' = SubSeq(unflushed, n + 1, Len(unflushed))
    BY DEF FlushFails
  <1> DEFINE sent == SubSeq(unflushed, 1, n)
  <1>2. n \in Nat /\ n + 1 <= Len(unflushed) /\ n + 1 \in Nat
    BY <1>1, TrackerTyped
  <1>3. /\ sent \in Seq(Update) /\ Len(sent) = n
        /\ \A j \in 1..n : j \in 1..Len(unflushed) /\ sent[j] = unflushed[j]
    BY <1>2, TrackerTyped
  <1>4. /\ unflushed' \in Seq(Update) /\ Len(unflushed') = Len(unflushed) - n
        /\ \A j \in 1..(Len(unflushed) - n) :
             n + j \in 1..Len(unflushed) /\ unflushed'[j] = unflushed[n + j]
    BY <1>1, <1>2, TrackerTyped
  <1> HIDE DEF sent
  <1>5. \A j \in 1..Len(unflushed') : unflushed'[j].stage > current[unflushed'[j].obj]
    BY <1>4, BufferLater
  <1>6. PICK rs \in {sent, Append(sent, TornUpdate)} : updates' = Written(updates, writeAt, rs)
    BY <1>1 DEF sent
  <1>7. /\ rs \in Seq(UpdateCell) /\ Len(rs) \in n..(n + 1)
        /\ \A j \in 1..Len(rs) : rs[j] = TornUpdate \/ rs[j].stage > current[rs[j].obj]
    <2>1. sent \in Seq(UpdateCell)
      BY <1>3 DEF UpdateCell
    <2>2. \A j \in 1..n : sent[j].stage > current[sent[j].obj]
      BY <1>3, BufferLater
    <2>3. CASE rs = sent
      BY <1>2, <1>3, <2>1, <2>2, <2>3
    <2>4. CASE rs = Append(sent, TornUpdate)
      <3>1. rs \in Seq(UpdateCell) /\ Len(rs) = n + 1
        BY <1>2, <1>3, <2>1, <2>4, TornUpdateType
      <3>2. \A j \in 1..(n + 1) : rs[j] = IF j = n + 1 THEN TornUpdate ELSE sent[j]
        BY <1>2, <1>3, <2>1, <2>4, TornUpdateType
      <3>3. \A j \in 1..(n + 1) : j # n + 1 => j \in 1..n
        BY <1>2
      <3> QED BY <1>2, <2>2, <3>1, <3>2, <3>3
    <2> QED BY <1>6, <2>3, <2>4
  <1>8. /\ updates' \in Seq(UpdateCell)
        /\ Len(updates') = IF writeAt + Len(rs) > Len(updates) THEN writeAt + Len(rs) ELSE Len(updates)
        /\ Len(updates') \in Nat /\ Len(updates) <= Len(updates')
        /\ \A k \in 1..Len(durable) : k <= Len(updates') /\ updates'[k] = durable[k]
        /\ KeptInv'
    BY <1>6, <1>7, WriteInv
  <1>9. /\ Len(durable) <= writeAt /\ writeAt <= Len(updates)
        /\ Len(updates) <= writeAt + Len(unflushed)
    BY DEF TrackerInv, TrackerFileInv
  <1>10. /\ Len(durable) <= writeAt' /\ writeAt' <= Len(updates') /\ writeAt' \in Nat
         /\ Len(updates') <= writeAt' + Len(unflushed')
    <2> DEFINE a == writeAt
               m == Len(unflushed)
               c == Len(updates)
               d == Len(durable)
               r == Len(rs)
    <2>1. a \in Nat /\ m \in Nat /\ c \in Nat /\ d \in Nat /\ r \in n..(n + 1)
      BY <1>7, TrackerTyped
    <2>2. /\ d <= a /\ a <= c /\ c <= a + m /\ writeAt' = a + n /\ Len(unflushed') = m - n
          /\ Len(updates') = IF a + r > c THEN a + r ELSE c
          /\ n + 1 <= m
      BY <1>1, <1>2, <1>4, <1>8, <1>9
    <2> HIDE DEF a, m, c, d, r
    <2>3. d <= writeAt' /\ writeAt' <= Len(updates') /\ writeAt' \in Nat
      BY <1>2, <2>1, <2>2
    <2>4. Len(updates') <= writeAt' + Len(unflushed')
      BY <1>2, <2>1, <2>2
    <2> QED BY <2>3, <2>4 DEF d
  <1> QED BY <1>4, <1>5, <1>8, <1>10

LEMMA AdvanceFailsInv ==
  ASSUME TrackerInv, AdvanceFails
  PROVE  TrackerInv' /\ \A k \in 1..Len(durable) : k <= Len(updates') /\ updates'[k] = durable[k]
  <1>1. /\ step \in {"flush", "fsync"} /\ step' = "idle" /\ update' = TornUpdate
        /\ trackerFaults' \in 0..MaxTrackerFaults
        /\ UNCHANGED <<durable, tracker, current, reported, persisted, trackerCrashes, trackerLosses>>
    BY TrackerConstants DEF AdvanceFails, trackerHistory, TrackerInv, TrackerTypeOK
  <1>2. tracker = "open"
    BY <1>1 DEF TrackerInv, TrackerStepInv
  <1>3. /\ updates' \in Seq(UpdateCell) /\ Len(updates') \in Nat
        /\ Len(updates) <= Len(updates')
        /\ \A k \in 1..Len(durable) : k <= Len(updates') /\ updates'[k] = durable[k]
        /\ KeptInv'
        /\ unflushed' \in Seq(Update) /\ writeAt' \in Nat
        /\ \A j \in 1..Len(unflushed') : unflushed'[j].stage > current[unflushed'[j].obj]
        /\ Len(durable) <= writeAt' /\ writeAt' <= Len(updates')
        /\ Len(updates') <= writeAt' + Len(unflushed')
    <2>1. CASE FlushFails
      BY <1>1, <1>2, <2>1, FlushFailsInv
    <2>2. CASE UNCHANGED <<updates, writeAt, unflushed>>
      <3>1. KeptInv'
        BY <1>1, <2>2 DEF TrackerInv, KeptInv, Keeper
      <3>2. \A k \in 1..Len(durable) : k <= Len(updates) /\ updates[k] = durable[k]
        BY TrackerTyped
      <3> QED BY <1>2, <2>2, <3>1, <3>2, TrackerTyped, BufferLater DEF TrackerInv, TrackerFileInv
    <2> QED BY <2>1, <2>2 DEF AdvanceFails
  <1>4. TrackerTypeOK' /\ PersistedStageKept'
    BY <1>1, <1>3, TornUpdateType DEF TrackerInv, TrackerTypeOK, PersistedStageKept
  <1>5. TrackerFileInv'
    <2>1. Len(durable) <= Len(updates')
      BY <1>3, TrackerTyped
    <2> QED BY <1>1, <1>3, <2>1 DEF TrackerFileInv
  <1>6. TrackerStepInv'
    BY <1>1, <1>2, <1>3 DEF TrackerStepInv
  <1> QED BY <1>3, <1>4, <1>5, <1>6 DEF TrackerInv

\* A tracker that is gone holds the invariant if the file does.
LEMMA StoppedInv ==
  ASSUME TrackerInv, StopTracker,
         updates' \in Seq(UpdateCell), durable' \in Seq(UpdateCell), Len(durable') <= Len(updates'),
         \A k \in 1..Len(durable') : updates'[k] = durable'[k], KeptInv',
         trackerCrashes' \in 0..MaxTrackerCrashes, trackerLosses' \in 0..MaxTrackerLosses,
         trackerFaults' \in 0..MaxTrackerFaults
  PROVE  TrackerInv'
  <1>1. /\ tracker' = "closed" /\ current' = [o \in Objects |-> Unseen] /\ unflushed' = << >>
        /\ writeAt' = 0 /\ step' = "idle" /\ update' = TornUpdate /\ UNCHANGED <<reported, persisted>>
    BY DEF StopTracker, trackerHistory
  <1>2. TrackerTypeOK'
    BY <1>1, TornUpdateType DEF TrackerInv, TrackerTypeOK
  <1>3. PersistedStageKept' /\ TrackerFileInv' /\ TrackerStepInv'
    BY <1>1 DEF PersistedStageKept, TrackerFileInv, TrackerStepInv
  <1> QED BY <1>2, <1>3 DEF TrackerInv

LEMMA CloseTrackerInv ==
  ASSUME TrackerInv, CloseTracker
  PROVE  TrackerInv' /\ \A k \in 1..Len(durable) : k <= Len(updates') /\ updates'[k] = durable[k]
  <1>1. /\ tracker = "open" /\ StopTracker /\ UNCHANGED <<durable, trackerCrashes, trackerLosses>>
        /\ trackerFaults' \in 0..MaxTrackerFaults /\ persisted' = persisted
    BY TrackerConstants DEF CloseTracker, StopTracker, trackerHistory, TrackerInv, TrackerTypeOK
  <1>2. /\ updates' \in Seq(UpdateCell) /\ Len(updates') \in Nat /\ Len(updates) <= Len(updates')
        /\ \A k \in 1..Len(durable) : k <= Len(updates') /\ updates'[k] = durable[k]
        /\ KeptInv'
    <2>1. CASE updates' = Written(updates, writeAt, unflushed)
      BY <1>1, <2>1, BufferLater, WriteInv
    <2>2. CASE updates' = Written(updates, writeAt, <<TornUpdate>>)
      <3> DEFINE rs == <<TornUpdate>>
      <3>1. rs \in Seq(UpdateCell) /\ \A j \in 1..Len(rs) : rs[j] = TornUpdate
        BY TornUpdateType
      <3> HIDE DEF rs
      <3>2. updates' = Written(updates, writeAt, rs)
        BY <2>2 DEF rs
      <3> QED BY <1>1, <3>1, <3>2, WriteInv
    <2>3. CASE updates' = updates
      <3>1. KeptInv'
        BY <1>1, <2>3 DEF TrackerInv, KeptInv, Keeper
      <3> QED BY <2>3, <3>1, TrackerTyped
    <2> QED BY <2>1, <2>2, <2>3 DEF CloseTracker
  <1>3. Len(durable') <= Len(updates') /\ durable' \in Seq(UpdateCell)
    BY <1>1, <1>2, TrackerTyped
  <1> QED BY <1>1, <1>2, <1>3, StoppedInv DEF TrackerInv, TrackerTypeOK

LEMMA TrackerCrashInv == ASSUME TrackerInv, TrackerCrash PROVE TrackerInv'
  <1>1. /\ StopTracker /\ UNCHANGED <<updates, durable, persisted, trackerLosses, trackerFaults>>
        /\ trackerCrashes' \in 0..MaxTrackerCrashes
    BY TrackerConstants
    DEF TrackerCrash, StopTracker, trackerFile, trackerHistory, TrackerInv, TrackerTypeOK
  <1>2. KeptInv'
    BY <1>1 DEF TrackerInv, KeptInv, Keeper
  <1> QED BY <1>1, <1>2, TrackerTyped, StoppedInv DEF TrackerInv, TrackerTypeOK

\* A power loss keeps the durable records, and behind them makes nothing
\* readable that was not in the file.
LEMMA TrackerPowerLossInv ==
  ASSUME TrackerInv, TrackerPowerLoss
  PROVE  TrackerInv' /\ \A k \in 1..Len(durable) : k <= Len(updates') /\ updates'[k] = durable[k]
  <1>1. /\ updates' \in AfterPowerLoss(durable, updates, TornUpdate) /\ durable' = updates'
        /\ StopTracker /\ UNCHANGED <<persisted, trackerCrashes, trackerFaults>>
        /\ trackerLosses' \in 0..MaxTrackerLosses
    BY TrackerConstants
    DEF TrackerPowerLoss, StopTracker, trackerHistory, TrackerInv, TrackerTypeOK
  <1>2. PICK n \in Len(durable)..Len(updates) : \E kept \in [1..n -> BOOLEAN] :
          updates' = [k \in 1..n |-> IF kept[k] THEN updates[k]
                                     ELSE IF k <= Len(durable) THEN durable[k] ELSE TornUpdate]
    BY <1>1 DEF AfterPowerLoss
  <1>3. PICK kept \in [1..n -> BOOLEAN] :
          updates' = [k \in 1..n |-> IF kept[k] THEN updates[k]
                                     ELSE IF k <= Len(durable) THEN durable[k] ELSE TornUpdate]
    BY <1>2
  <1>4. n \in Nat /\ Len(durable) <= n /\ n <= Len(updates)
    BY <1>2, TrackerTyped
  <1>5. \A k \in 1..n : (IF kept[k] THEN updates[k]
                         ELSE IF k <= Len(durable) THEN durable[k] ELSE TornUpdate) \in UpdateCell
    BY <1>4, TrackerTyped, TornUpdateType
  <1>6. updates' \in Seq(UpdateCell) /\ Len(updates') = n
    BY <1>3, <1>4, <1>5
  <1>7. \A k \in 1..Len(durable) : k <= Len(updates') /\ updates'[k] = durable[k]
    BY <1>3, <1>4, <1>6, TrackerTyped
  <1>8. \A k \in 1..n : updates'[k] = TornUpdate \/ (k \in 1..Len(updates) /\ updates'[k] = updates[k])
    BY <1>3, <1>4, TrackerTyped
  <1>9. KeptInv'
    <2> SUFFICES ASSUME NEW o \in Objects, persisted[o] # Unseen
                 PROVE  \E k \in 1..Len(durable') : Keeper(o, k)'
      BY <1>1 DEF KeptInv
    <2>1. PICK k \in 1..Len(durable) : Keeper(o, k)
      BY DEF TrackerInv, KeptInv
    <2>2. k \in 1..Len(durable') /\ durable'[k] = durable[k]
      BY <1>1, <1>4, <1>6, <1>7, <2>1, TrackerTyped
    <2>3. \A j \in 1..Len(updates') :
            j >= k /\ updates'[j] # TornUpdate /\ updates'[j].obj = o => updates'[j].stage >= persisted[o]
      BY <1>6, <1>8, <2>1 DEF Keeper
    <2>4. Keeper(o, k)'
      BY <1>1, <2>1, <2>2, <2>3 DEF Keeper
    <2> QED BY <2>2, <2>4
  <1>10. Len(durable') <= Len(updates')
    BY <1>1, <1>4, <1>6
  <1> QED BY <1>1, <1>6, <1>7, <1>9, <1>10, StoppedInv DEF TrackerInv, TrackerTypeOK

LEMMA TrackerStepKeeps ==
  ASSUME TrackerInv, [TrackerNext]_trackervars
  PROVE  /\ TrackerInv'
         /\ \A o \in Objects : persisted'[o] >= persisted[o]
         /\ \A k \in 1..Len(durable) : k <= Len(updates') /\ updates'[k] = durable[k]
  <1>1. CASE UNCHANGED trackervars
    <2>1. UNCHANGED <<updates, durable, tracker, current, unflushed, writeAt, step, update,
                      reported, persisted, trackerCrashes, trackerLosses, trackerFaults>>
      BY <1>1 DEF trackervars, trackerFile, trackerHistory, trackerCounters
    <2>2. TrackerInv'
      BY <2>1 DEF TrackerInv, TrackerTypeOK, PersistedStageKept, TrackerFileInv, TrackerStepInv,
                  KeptInv, Keeper
    <2> QED BY <2>1, <2>2, TrackerTyped
  <1>2. CASE ReturnUpdate
    BY <1>2, ReturnUpdateInv, TrackerTyped DEF ReturnUpdate, trackerFile
  <1>3. ASSUME persisted' = persisted PROVE \A o \in Objects : persisted'[o] >= persisted[o]
    BY <1>3, TrackerTyped
  <1>4. ASSUME updates' = updates
        PROVE  \A k \in 1..Len(durable) : k <= Len(updates') /\ updates'[k] = durable[k]
    BY <1>4, TrackerTyped
  <1>5. ASSUME NEW o \in Objects, NEW s \in Stages, Advance(o, s)
        PROVE  TrackerInv' /\ persisted' = persisted /\ updates' = updates
    BY <1>5, AdvanceInv DEF Advance, trackerFile
  <1>6. CASE OpenTracker
    BY <1>3, <1>4, <1>6, OpenTrackerInv DEF OpenTracker, trackerFile, trackerHistory
  <1>7. CASE FsyncUpdates
    BY <1>3, <1>4, <1>7, FsyncUpdatesInv DEF FsyncUpdates, trackerHistory
  <1>8. CASE TrackerCrash
    BY <1>3, <1>4, <1>8, TrackerCrashInv DEF TrackerCrash, StopTracker, trackerFile, trackerHistory
  <1>9. CASE FlushUpdates \/ AdvanceFails
    BY <1>3, <1>9, FlushUpdatesInv, AdvanceFailsInv DEF FlushUpdates, AdvanceFails, trackerHistory
  <1>10. CASE CloseTracker \/ TrackerPowerLoss
    BY <1>3, <1>10, CloseTrackerInv, TrackerPowerLossInv
    DEF CloseTracker, TrackerPowerLoss, StopTracker, trackerHistory
  <1> QED BY <1>1, <1>2, <1>3, <1>4, <1>5, <1>6, <1>7, <1>8, <1>9, <1>10 DEF TrackerNext

\* The tracker's inductive invariant holds in every behaviour.
THEOREM TrackerInvariant == TrackerSpec => []TrackerInv
  BY TrackerInitInv, TrackerStepKeeps, PTL DEF TrackerSpec

\* An open tracker is never behind a stage that Tracker.advance acknowledged
\* after a write, whatever crashes, power losses and I/O errors came between.
THEOREM TrackerKeepsStages == TrackerSpec => []TrackerKeeps
  <1>1. TrackerInv => TrackerKeeps
    BY DEF TrackerInv, TrackerKeeps
  <1> QED BY <1>1, TrackerInvariant, PTL

\* The stages written and acknowledged for an object only go forward.
THEOREM StagesGoForward == TrackerSpec => PersistedMonotone
  <1>1. TrackerInv /\ [TrackerNext]_trackervars =>
          [\A o \in Objects : persisted'[o] >= persisted[o]]_trackervars
    BY TrackerStepKeeps
  <1> QED BY <1>1, TrackerInvariant, PTL DEF TrackerSpec, PersistedMonotone

\* No step alters or drops a durable record of the tracker's log.
THEOREM UpdatesStay == TrackerSpec => UpdatesKept
  <1>1. TrackerInv /\ [TrackerNext]_trackervars =>
          [\A k \in 1..Len(durable) : k <= Len(updates') /\ updates'[k] = durable[k]]_trackervars
    BY TrackerStepKeeps
  <1> QED BY <1>1, TrackerInvariant, PTL DEF TrackerSpec, UpdatesKept

(***************************************************************************)
(* The workflow gate                                                       *)
(***************************************************************************)
\* The discipline the Go gate needs: no write of it fails.
GoWritesSucceed == MaxFaults["go"] = 0

\* The step an operation is at; a buffered record is one gate ahead of memory.
GateStepInv ==
  /\ gate # "open" => pc = "idle" /\ buf = Empty
  /\ pc # "idle" => /\ pending \in Record
                    /\ Rank(pending.status) = Rank(status[pending.task]) + 1
  /\ pc = "flush" => buf.rec = pending
  /\ pc \in {"fsync", "ack"} => buf = Empty /\ log # << >> /\ log[Len(log)] = pending
  /\ pc = "ack" => disk = log
  /\ buf # Empty => /\ buf.rec \in Record
                    /\ Rank(buf.rec.status) = Rank(status[buf.rec.task]) + 1
                    /\ port = "go" => pc = "flush"

\* Where an unreadable record can be while the gate is open, and how the file
\* relates to the durable one.
GateFileInv ==
  /\ buf # Empty => buf.at <= Len(log) /\ Len(log) <= buf.at + 1
  /\ port = "go" /\ buf # Empty => buf.at = Len(log)
  /\ gate = "open" => \A k \in 1..Len(log) : log[k] = Torn => buf # Empty /\ k = buf.at + 1
  /\ port = "python" => /\ Len(disk) <= Len(log) /\ \A k \in 1..Len(disk) : log[k] = disk[k]
                        /\ buf # Empty => Len(disk) <= buf.at

\* f holds no record of t behind position k that is before status s.
NotBehind(f, k, t, s) ==
  \A j \in 1..Len(f) : j >= k /\ f[j] # Torn /\ f[j].task = t => Rank(f[j].status) >= Rank(s)

\* The record that keeps an acknowledged status: up to it the file and the disk
\* agree and are readable, behind it nothing is of an earlier status.
StatusKeeper(t, k) ==
  /\ k <= Len(log) /\ k <= Len(disk) /\ log[k].task = t
  /\ \A j \in 1..k : log[j] = disk[j] /\ log[j] # Torn
  /\ NotBehind(log, k, t, acked[t]) /\ NotBehind(disk, k, t, acked[t])

AckedInv == \A t \in Tasks : acked[t] # "unknown" => \E k \in 1..Len(log) : StatusKeeper(t, k)

\* Whatever is past a gate was supplied: in the file, on the disk, in the buffer
\* and in memory.
PastGate(s) == Rank(s) >= 2

SuppliedInv ==
  /\ \A k \in 1..Len(log) : log[k] # Torn /\ PastGate(log[k].status) => log[k].task \in supplied
  /\ \A k \in 1..Len(disk) : disk[k] # Torn /\ PastGate(disk[k].status) => disk[k].task \in supplied
  /\ buf # Empty /\ PastGate(buf.rec.status) => buf.rec.task \in supplied
  /\ pc # "idle" /\ PastGate(pending.status) => pending.task \in supplied
  /\ gate = "open" => \A t \in Tasks : PastGate(status[t]) => t \in supplied

\* The records of a task in f go forward.
Ordered(f) ==
  \A j, k \in 1..Len(f) :
    j < k /\ f[j] # Torn /\ f[k] # Torn /\ f[j].task = f[k].task =>
      Rank(f[j].status) <= Rank(f[k].status)

\* In the Python file they do, and none is more than one gate ahead of memory.
PythonInv ==
  port = "python" =>
    /\ Ordered(log)
    /\ gate = "open" => \A k \in 1..Len(log) : log[k] # Torn =>
                          Rank(log[k].status) <= Rank(status[log[k].task]) + 1

GateInv ==
  /\ GateTypeOK /\ AckedSurvives /\ CrashRecovers
  /\ GateStepInv /\ GateFileInv /\ AckedInv /\ SuppliedInv /\ PythonInv

LEMMA TornCell ==
  /\ Torn \in Cell /\ Torn \notin Record /\ Empty \in [rec : Cell, at : Nat] /\ Empty.rec = Torn
  /\ \A r \in Record : r \in Cell /\ r # Torn
  BY DEF Torn, Cell, Record, Empty, Statuses, Waiting, Passed

LEMMA RankIs ==
  /\ \A s : Rank(s) \in 0..3
  /\ \A s \in Waiting : Rank(s) = 1
  /\ \A s \in Passed : Rank(s) = 2
  /\ Rank("running") = 3 /\ Rank("unknown") = 0
  BY DEF Rank, Waiting, Passed

\* What a write of r at position p leaves in a file.
LEMMA WriteAtIs ==
  ASSUME NEW f \in Seq(Cell), NEW p \in Nat, NEW r \in Cell, p <= Len(f), Len(f) <= p + 1
  PROVE  /\ WriteAt(f, p, r) \in Seq(Cell) /\ Len(WriteAt(f, p, r)) = p + 1
         /\ WriteAt(f, p, r)[p + 1] = r
         /\ \A k \in 1..p : WriteAt(f, p, r)[k] = f[k]
  <1>1. Len(f) \in Nat
    OBVIOUS
  <1>2. CASE p = Len(f)
    BY <1>2 DEF WriteAt
  <1>3. CASE p # Len(f)
    <2>1. Len(f) = p + 1 /\ WriteAt(f, p, r) = [f EXCEPT ![p + 1] = r]
      BY <1>1, <1>3 DEF WriteAt
    <2> QED BY <2>1
  <1> QED BY <1>2, <1>3

\* The part of a file that the Go replay keeps: its longest readable start.
LEMMA ReadablePartIs ==
  ASSUME NEW f \in Seq(Cell)
  PROVE  /\ ReadablePart(f) \in Seq(Cell) /\ Readable(ReadablePart(f))
         /\ Len(ReadablePart(f)) \in Nat /\ Len(ReadablePart(f)) <= Len(f)
         /\ \A k \in 1..Len(ReadablePart(f)) : ReadablePart(f)[k] = f[k]
         /\ \A n \in 0..Len(f) : (\A j \in 1..n : f[j] # Torn) => n <= Len(ReadablePart(f))
  <1> DEFINE bad == {k \in 1..Len(f) : f[k] = Torn}
  <1>1. Len(f) \in Nat /\ bad \in SUBSET (1..Len(f))
    OBVIOUS
  <1>2. ReadablePart(f) = IF bad = {} THEN f ELSE SubSeq(f, 1, Min(bad) - 1)
    BY DEF ReadablePart
  <1>3. CASE bad = {}
    BY <1>1, <1>2, <1>3 DEF Readable
  <1>4. CASE bad # {}
    <2>1. Min(bad) \in bad /\ \A y \in bad : Min(bad) <= y
      <3> HIDE DEF bad
      <3> QED BY <1>1, <1>4, MinIs
    <2> DEFINE m == Min(bad)
               g == SubSeq(f, 1, m - 1)
    <2>2. m \in 1..Len(f) /\ f[m] = Torn /\ \A k \in 1..Len(f) : f[k] = Torn => m <= k
      BY <2>1
    <2>3. ReadablePart(f) = g
      BY <1>2, <1>4
    <2> HIDE DEF bad, m
    <2>4. /\ g \in Seq(Cell) /\ Len(g) = m - 1 /\ m - 1 \in Nat /\ m - 1 <= Len(f)
          /\ \A k \in 1..(m - 1) : g[k] = f[k]
      BY <1>1, <2>2
    <2> HIDE DEF g
    <2>5. Readable(g)
      BY <1>1, <2>2, <2>4 DEF Readable
    <2>6. ASSUME NEW n \in 0..Len(f), \A j \in 1..n : f[j] # Torn PROVE n <= m - 1
      <3>1. ~(m \in 1..n)
        BY <2>2, <2>6
      <3> QED BY <1>1, <2>2, <3>1
    <2> QED BY <2>3, <2>4, <2>5, <2>6
  <1> QED BY <1>3, <1>4

\* The status a replay of a readable log ends with.
LEMMA LastStatusIs ==
  ASSUME NEW f \in Seq(Cell), Readable(f), NEW t \in Tasks
  PROVE  /\ LastStatus(f, t) \in Statuses \cup {"unknown"}
         /\ LastStatus(f, t) # "unknown" =>
              \E m \in 1..Len(f) : f[m].task = t /\ LastStatus(f, t) = f[m].status
         /\ \A k \in 1..Len(f) : f[k].task = t =>
              \E m \in k..Len(f) : f[m].task = t /\ LastStatus(f, t) = f[m].status
  <1> DEFINE ks == {k \in 1..Len(f) : f[k].task = t}
  <1>1. Len(f) \in Nat /\ ks \in SUBSET (1..Len(f))
    OBVIOUS
  <1>2. \A k \in 1..Len(f) : f[k] \in Record
    BY DEF Readable, Cell
  <1>3. LastStatus(f, t) = IF ks = {} THEN "unknown" ELSE f[Max(ks)].status
    BY DEF LastStatus
  <1>4. CASE ks = {}
    BY <1>3, <1>4
  <1>5. CASE ks # {}
    <2>1. Max(ks) \in ks /\ \A y \in ks : y <= Max(ks)
      <3> HIDE DEF ks
      <3> QED BY <1>1, <1>5, MaxIs
    <2> DEFINE m == Max(ks)
    <2>2. m \in 1..Len(f) /\ f[m].task = t /\ \A k \in 1..Len(f) : f[k].task = t => k <= m
      BY <2>1
    <2>3. LastStatus(f, t) = f[m].status
      BY <1>3, <1>5
    <2> HIDE DEF m, ks
    <2>4. f[m].status \in Statuses
      BY <1>2, <2>2 DEF Record
    <2>5. \A k \in 1..Len(f) : f[k].task = t => m \in k..Len(f)
      BY <1>1, <2>2
    <2> QED BY <2>2, <2>3, <2>4, <2>5
  <1> QED BY <1>4, <1>5

\* The parts of the invariant that a step uses.
LEMMA GateTyped ==
  ASSUME GateInv
  PROVE  /\ log \in Seq(Cell) /\ disk \in Seq(Cell) /\ Len(log) \in Nat /\ Len(disk) \in Nat
         /\ status \in [Tasks -> Statuses \cup {"unknown"}]
         /\ acked \in [Tasks -> Statuses \cup {"unknown"}]
         /\ buf \in [rec : Cell, at : Nat] /\ buf.rec \in Cell /\ buf.at \in Nat
         /\ port \in {"python", "go"}
  BY DEF GateInv, GateTypeOK, Ports

LEMMA GateInitInv == GateInit => GateInv
  BY TornCell, RankIs, GateConstants
  DEF GateInit, GateInv, GateTypeOK, AckedSurvives, CrashRecovers, GateStepInv, GateFileInv, AckedInv,
      SuppliedInv, PythonInv, Ordered, Ports

\* A record from the buffer, or part of it, reaches the file.
LEMMA GateWrite ==
  ASSUME GateInv, gate = "open", buf # Empty, NEW r \in {buf.rec, Torn},
         log' = WriteAt(log, buf.at, r), UNCHANGED <<port, disk, acked, supplied>>
  PROVE  /\ log' \in Seq(Cell) /\ Len(log') = buf.at + 1 /\ log'[buf.at + 1] = r
         /\ \A k \in 1..buf.at : k \in 1..Len(log) /\ log'[k] = log[k] /\ log'[k] # Torn
         /\ AckedInv'
         /\ \A k \in 1..Len(log') : log'[k] # Torn /\ PastGate(log'[k].status) => log'[k].task \in supplied
         /\ port = "python" => /\ \A k \in 1..Len(disk) : k <= buf.at /\ log'[k] = disk[k]
                               /\ Ordered(log')
                               /\ \A k \in 1..Len(log') : log'[k] # Torn =>
                                    Rank(log'[k].status) <= Rank(status[log'[k].task]) + 1
  <1> DEFINE p == buf.at
  <1>1. /\ p \in Nat /\ p <= Len(log) /\ Len(log) <= p + 1 /\ Len(log) \in Nat
        /\ buf.rec \in Record /\ r \in Cell /\ Len(disk) \in Nat
        /\ Rank(buf.rec.status) = Rank(status[buf.rec.task]) + 1
        /\ PastGate(buf.rec.status) => buf.rec.task \in supplied
    BY GateTyped, TornCell DEF GateInv, GateStepInv, GateFileInv, SuppliedInv
  <1>2. /\ log' \in Seq(Cell) /\ Len(log') = p + 1 /\ log'[p + 1] = r
        /\ \A k \in 1..p : log'[k] = log[k]
    <2>1. log' = WriteAt(log, p, r) /\ log \in Seq(Cell)
      BY GateTyped
    <2>2. p \in Nat /\ r \in Cell /\ p <= Len(log) /\ Len(log) <= p + 1
      BY <1>1
    <2> HIDE DEF p
    <2>3. /\ WriteAt(log, p, r) \in Seq(Cell) /\ Len(WriteAt(log, p, r)) = p + 1
          /\ WriteAt(log, p, r)[p + 1] = r
          /\ \A k \in 1..p : WriteAt(log, p, r)[k] = log[k]
      BY <2>1, <2>2, WriteAtIs
    <2> QED BY <2>1, <2>3, Zenon
  <1>3. ASSUME NEW k \in 1..p PROVE k \in 1..Len(log) /\ log'[k] = log[k] /\ log'[k] # Torn
    <2>1. k \in 1..Len(log) /\ k # p + 1
      BY <1>1, <1>3
    <2> QED BY <1>2, <1>3, <2>1 DEF GateInv, GateFileInv
  <1>4. \A k \in 1..Len(log') : k = p + 1 \/ k \in 1..p
    BY <1>1, <1>2
  <1>5. AckedInv'
    <2> SUFFICES ASSUME NEW t \in Tasks, acked[t] # "unknown"
                 PROVE  \E k \in 1..Len(log') : StatusKeeper(t, k)'
      BY DEF AckedInv
    <2>1. PICK k \in 1..Len(log) : StatusKeeper(t, k)
      BY DEF GateInv, AckedInv
    <2>2. k <= p
      <3>1. CASE port = "go"
        BY <2>1, <3>1 DEF GateInv, GateFileInv
      <3>2. CASE port = "python"
        BY <1>1, <2>1, <3>2 DEF GateInv, GateFileInv, StatusKeeper
      <3> QED BY <3>1, <3>2, GateTyped
    <2>3. k \in 1..Len(log') /\ k <= Len(log') /\ k <= Len(disk) /\ \A j \in 1..k : j \in 1..p
      BY <1>1, <1>2, <2>1, <2>2 DEF StatusKeeper
    <2>4. log'[k].task = t /\ \A j \in 1..k : log'[j] = disk[j] /\ log'[j] # Torn
      BY <1>3, <2>1, <2>3 DEF StatusKeeper
    <2>5. NotBehind(log', k, t, acked[t])
      <3> SUFFICES ASSUME NEW j \in 1..Len(log'), j >= k, log'[j] # Torn, log'[j].task = t
                   PROVE  Rank(log'[j].status) >= Rank(acked[t])
        BY DEF NotBehind
      <3>1. CASE j \in 1..p
        BY <1>3, <2>1, <3>1 DEF StatusKeeper, NotBehind
      <3>2. CASE j = p + 1
        <4>1. log'[j] = buf.rec
          BY <1>2, <3>2
        <4>2. Rank(status[t]) >= Rank(acked[t])
          BY DEF GateInv, AckedSurvives
        <4> QED BY <1>1, <4>1, <4>2, RankIs
      <3> QED BY <1>4, <3>1, <3>2
    <2>6. NotBehind(disk, k, t, acked[t])
      BY <2>1 DEF StatusKeeper
    <2>7. StatusKeeper(t, k)'
      BY <2>3, <2>4, <2>5, <2>6 DEF StatusKeeper
    <2> QED BY <2>3, <2>7
  <1>6. ASSUME NEW k \in 1..Len(log'), log'[k] # Torn, PastGate(log'[k].status)
        PROVE  log'[k].task \in supplied
    <2>1. CASE k \in 1..p
      BY <1>3, <1>6, <2>1 DEF GateInv, SuppliedInv
    <2>2. CASE k = p + 1
      BY <1>1, <1>2, <1>6, <2>2
    <2> QED BY <1>4, <2>1, <2>2
  <1>7. ASSUME port = "python"
        PROVE  /\ \A k \in 1..Len(disk) : k <= p /\ log'[k] = disk[k]
               /\ Ordered(log')
               /\ \A k \in 1..Len(log') : log'[k] # Torn =>
                    Rank(log'[k].status) <= Rank(status[log'[k].task]) + 1
    <2>1. /\ Ordered(log) /\ Len(disk) <= p
          /\ \A k \in 1..Len(disk) : log[k] = disk[k]
          /\ \A k \in 1..Len(log) : log[k] # Torn => Rank(log[k].status) <= Rank(status[log[k].task]) + 1
      BY <1>7 DEF GateInv, PythonInv, GateFileInv
    <2>2. ASSUME NEW k \in 1..Len(disk) PROVE k <= p /\ log'[k] = disk[k]
      <3>1. k \in 1..p
        BY <1>1, <2>1, <2>2
      <3> QED BY <1>3, <2>1, <3>1
    <2>3. ASSUME NEW k \in 1..Len(log'), log'[k] # Torn
          PROVE  Rank(log'[k].status) <= Rank(status[log'[k].task]) + 1
      <3>1. CASE k \in 1..p
        BY <1>3, <2>1, <2>3, <3>1
      <3>2. CASE k = p + 1
        BY <1>1, <1>2, <2>3, <3>2, RankIs
      <3> QED BY <1>4, <3>1, <3>2
    <2>4. ASSUME NEW j \in 1..Len(log'), NEW k \in 1..Len(log'), j < k,
                 log'[j] # Torn, log'[k] # Torn, log'[j].task = log'[k].task
          PROVE  Rank(log'[j].status) <= Rank(log'[k].status)
      <3>1. j \in 1..p
        BY <1>1, <1>4, <2>4
      <3>2. CASE k \in 1..p
        BY <1>3, <2>1, <2>4, <3>1, <3>2 DEF Ordered
      <3>3. CASE k = p + 1
        <4>1. log'[k] = buf.rec
          BY <1>2, <2>4, <3>3
        <4>2. Rank(log'[j].status) <= Rank(status[log'[j].task]) + 1
          BY <2>3, <2>4
        <4> QED BY <1>1, <2>4, <4>1, <4>2
      <3> QED BY <1>4, <3>2, <3>3
    <2>5. Ordered(log')
      BY <2>4 DEF Ordered
    <2> QED BY <2>2, <2>3, <2>5
  <1> QED BY <1>2, <1>3, <1>5, <1>6, <1>7

\* A replay finds every acknowledged status.
LEMMA ReplayFinds ==
  ASSUME GateInv, NEW f \in Seq(Cell), Readable(f), Len(f) <= Len(log),
         \A k \in 1..Len(f) : f[k] = log[k],
         \A n \in 0..Len(log) : (\A j \in 1..n : log[j] # Torn) => n <= Len(f)
  PROVE  /\ \A t \in Tasks : acked[t] # "unknown" =>
              \E k \in 1..Len(f) : StatusKeeper(t, k) /\ f[k].task = t
         /\ \A t \in Tasks : Rank(LastStatus(f, t)) >= Rank(acked[t])
         /\ \A t \in Tasks : PastGate(LastStatus(f, t)) => t \in supplied
  <1>1. Len(f) \in Nat /\ Len(log) \in Nat /\ \A k \in 1..Len(f) : k \in 1..Len(log) /\ f[k] # Torn
    BY GateTyped DEF Readable
  <1>2. ASSUME NEW t \in Tasks, acked[t] # "unknown"
        PROVE  \E k \in 1..Len(f) : StatusKeeper(t, k) /\ f[k].task = t
    <2>1. PICK k \in 1..Len(log) : StatusKeeper(t, k)
      BY <1>2 DEF GateInv, AckedInv
    <2>2. \A j \in 1..k : log[j] # Torn
      BY <2>1 DEF StatusKeeper
    <2>3. k \in 1..Len(f)
      BY <1>1, <2>1, <2>2
    <2> QED BY <2>1, <2>3 DEF StatusKeeper
  <1>3. ASSUME NEW t \in Tasks PROVE Rank(LastStatus(f, t)) >= Rank(acked[t])
    <2>1. CASE acked[t] = "unknown"
      BY <2>1, RankIs
    <2>2. CASE acked[t] # "unknown"
      <3>1. PICK k \in 1..Len(f) : StatusKeeper(t, k) /\ f[k].task = t
        BY <1>2, <2>2
      <3>2. PICK m \in k..Len(f) : f[m].task = t /\ LastStatus(f, t) = f[m].status
        BY <3>1, LastStatusIs
      <3>3. m \in 1..Len(f) /\ m >= k
        BY <1>1, <3>1, <3>2
      <3>4. m \in 1..Len(log) /\ log[m] # Torn /\ log[m] = f[m]
        BY <1>1, <3>3
      <3> QED BY <3>1, <3>2, <3>3, <3>4 DEF StatusKeeper, NotBehind
    <2> QED BY <2>1, <2>2
  <1>4. ASSUME NEW t \in Tasks, PastGate(LastStatus(f, t)) PROVE t \in supplied
    <2>1. LastStatus(f, t) # "unknown"
      BY <1>4, RankIs DEF PastGate
    <2>2. PICK m \in 1..Len(f) : f[m].task = t /\ LastStatus(f, t) = f[m].status
      BY <2>1, LastStatusIs
    <2>3. m \in 1..Len(log) /\ log[m] # Torn /\ log[m] = f[m]
      BY <1>1, <2>2
    <2> QED BY <1>4, <2>2, <2>3 DEF GateInv, SuppliedInv
  <1> QED BY <1>2, <1>3, <1>4

LEMMA OpenGateInv == ASSUME GateInv, OpenGate, UNCHANGED port PROVE GateInv'
  <1> DEFINE f == IF port = "go" THEN ReadablePart(log) ELSE log
  <1>1. /\ gate # "open" /\ UNCHANGED <<port, disk, buf, pc, pending, acked, supplied, crashes, losses, faults>>
        /\ Readable(f) => /\ gate' = "open" /\ log' = f
                          /\ status' = [t \in Tasks |-> LastStatus(f, t)]
        /\ ~Readable(f) => gate' = "refused" /\ UNCHANGED <<status, log>>
    BY DEF OpenGate, history, counters
  <1>2. buf = Empty /\ pc = "idle"
    BY <1>1 DEF GateInv, GateStepInv
  <1>3. /\ f \in Seq(Cell) /\ Len(f) \in Nat /\ Len(f) <= Len(log) /\ \A k \in 1..Len(f) : f[k] = log[k]
        /\ \A n \in 0..Len(log) : (\A j \in 1..n : log[j] # Torn) => n <= Len(f)
        /\ port = "go" => Readable(f)
        /\ port = "python" => f = log
    BY GateTyped, ReadablePartIs
  <1> HIDE DEF f
  <1>4. CASE Readable(f)
    <2>1. gate' = "open" /\ log' = f /\ status' = [t \in Tasks |-> LastStatus(f, t)]
      BY <1>1, <1>4
    <2>2. /\ \A t \in Tasks : acked[t] # "unknown" =>
               \E k \in 1..Len(f) : StatusKeeper(t, k) /\ f[k].task = t
          /\ \A t \in Tasks : Rank(LastStatus(f, t)) >= Rank(acked[t])
          /\ \A t \in Tasks : PastGate(LastStatus(f, t)) => t \in supplied
      BY <1>3, <1>4, ReplayFinds
    <2>3. \A k \in 1..Len(f) : k \in 1..Len(log) /\ f[k] = log[k] /\ f[k] # Torn /\ f[k] \in Record
      BY <1>3, <1>4, GateTyped DEF Readable, Cell
    <2>4. GateTypeOK'
      <3>1. \A t \in Tasks : LastStatus(f, t) \in Statuses \cup {"unknown"}
        BY <1>3, <1>4, LastStatusIs
      <3> QED BY <1>1, <1>3, <2>1, <3>1 DEF GateInv, GateTypeOK
    <2>5. AckedSurvives' /\ CrashRecovers'
      BY <1>1, <2>1, <2>2 DEF AckedSurvives, CrashRecovers
    <2>6. GateStepInv'
      BY <1>1, <1>2 DEF GateStepInv
    <2>7. GateFileInv'
      BY <1>1, <1>2, <1>3, <2>1, <2>3 DEF GateInv, GateFileInv
    <2>8. AckedInv'
      <3> SUFFICES ASSUME NEW t \in Tasks, acked[t] # "unknown"
                   PROVE  \E k \in 1..Len(log') : StatusKeeper(t, k)'
        BY <1>1 DEF AckedInv
      <3>1. PICK k \in 1..Len(f) : StatusKeeper(t, k) /\ f[k].task = t
        BY <2>2
      <3>2. k <= Len(f) /\ \A j \in 1..k : j \in 1..Len(f)
        BY <1>3, <3>1
      <3>3. \A j \in 1..k : f[j] = disk[j] /\ f[j] # Torn
        BY <2>3, <3>1, <3>2 DEF StatusKeeper
      <3>4. NotBehind(f, k, t, acked[t])
        BY <2>3, <3>1 DEF StatusKeeper, NotBehind
      <3>5. StatusKeeper(t, k)'
        BY <1>1, <2>1, <3>1, <3>2, <3>3, <3>4 DEF StatusKeeper
      <3> QED BY <2>1, <3>1, <3>5
    <2>9. SuppliedInv'
      BY <1>1, <1>2, <2>1, <2>2, <2>3 DEF GateInv, SuppliedInv
    <2>10. PythonInv'
      <3> SUFFICES ASSUME port = "python"
                   PROVE  Ordered(log') /\ \A k \in 1..Len(log') : log'[k] # Torn =>
                            Rank(log'[k].status) <= Rank(status'[log'[k].task]) + 1
        BY <1>1 DEF PythonInv
      <3>1. log' = log /\ f = log /\ Ordered(log)
        BY <1>3, <2>1 DEF GateInv, PythonInv
      <3>2. ASSUME NEW k \in 1..Len(log), log[k] # Torn
            PROVE  Rank(log[k].status) <= Rank(status'[log[k].task]) + 1
        <4> DEFINE t == log[k].task
        <4>1. t \in Tasks
          BY <2>3, <3>1, <3>2 DEF Record
        <4>2. PICK m \in k..Len(f) : f[m].task = t /\ LastStatus(f, t) = f[m].status
          BY <1>3, <1>4, <3>1, <3>2, <4>1, LastStatusIs
        <4>3. m \in 1..Len(log) /\ log[m] # Torn /\ (m = k \/ k < m)
          BY <1>3, <2>3, <3>1, <3>2, <4>2
        <4>4. Rank(log[k].status) <= Rank(log[m].status)
          BY <3>1, <3>2, <4>2, <4>3, RankIs DEF Ordered
        <4>5. status'[t] = log[m].status
          BY <2>1, <3>1, <4>1, <4>2
        <4> QED BY <4>4, <4>5, RankIs
      <3> QED BY <3>1, <3>2
    <2> QED BY <2>4, <2>5, <2>6, <2>7, <2>8, <2>9, <2>10 DEF GateInv
  <1>5. CASE ~Readable(f)
    <2>1. gate' = "refused" /\ UNCHANGED <<status, log>> /\ port # "go"
      BY <1>1, <1>3, <1>5
    <2>2. GateTypeOK' /\ AckedSurvives' /\ CrashRecovers' /\ GateStepInv' /\ GateFileInv'
      BY <1>1, <1>2, <2>1 DEF GateInv, GateTypeOK, AckedSurvives, CrashRecovers, GateStepInv, GateFileInv
    <2>3. AckedInv' /\ SuppliedInv' /\ PythonInv'
      BY <1>1, <1>2, <2>1 DEF GateInv, AckedInv, StatusKeeper, SuppliedInv, PythonInv
    <2> QED BY <2>2, <2>3 DEF GateInv
  <1> QED BY <1>4, <1>5

\* An operation that goes on to persist the next status of t.
LEMMA BeginInv ==
  ASSUME GateInv, gate = "open", pc = "idle", NEW t \in Tasks, NEW s \in Statuses,
         Rank(s) = Rank(status[t]) + 1, PastGate(s) => t \in supplied',
         pc' = "seek", pending' = [task |-> t, status |-> s],
         supplied \subseteq supplied', supplied' \subseteq Tasks,
         UNCHANGED <<port, log, disk, gate, status, buf, acked, crashes, losses, faults>>
  PROVE  GateInv'
  <1>1. pending' \in Record /\ pending' \in Cell /\ pending'.task = t /\ pending'.status = s
    BY TornCell DEF Record
  <1>2. port = "go" => buf = Empty
    BY DEF GateInv, GateStepInv
  <1>3. GateTypeOK'
    BY <1>1 DEF GateInv, GateTypeOK
  <1>4. AckedSurvives' /\ CrashRecovers' /\ GateFileInv' /\ AckedInv' /\ PythonInv'
    BY DEF GateInv, AckedSurvives, CrashRecovers, GateFileInv, AckedInv, StatusKeeper, PythonInv
  <1>5. GateStepInv'
    BY <1>1, <1>2 DEF GateInv, GateStepInv
  <1>6. SuppliedInv'
    BY <1>1 DEF GateInv, SuppliedInv
  <1> QED BY <1>3, <1>4, <1>5, <1>6 DEF GateInv

\* Only the answer changes.
LEMMA AnswerInv ==
  ASSUME GateInv, UNCHANGED <<port, log, disk, gate, status, buf, pc, pending, acked, supplied,
                              crashes, losses, faults>>
  PROVE  GateInv'
  <1>1. GateTypeOK' /\ AckedSurvives' /\ CrashRecovers' /\ GateStepInv' /\ GateFileInv'
    BY DEF GateInv, GateTypeOK, AckedSurvives, CrashRecovers, GateStepInv, GateFileInv
  <1>2. AckedInv' /\ SuppliedInv' /\ PythonInv'
    BY DEF GateInv, AckedInv, StatusKeeper, SuppliedInv, PythonInv
  <1> QED BY <1>1, <1>2 DEF GateInv

LEMMA OperationInv ==
  ASSUME GateInv, UNCHANGED port, NEW t \in Tasks,
         (\E n \in BOOLEAN : Create(t, n)) \/ SupplyInput(t) \/ Run(t)
  PROVE  GateInv'
  <1>1. supplied \subseteq Tasks /\ status[t] \in Statuses \cup {"unknown"}
    BY DEF GateInv, GateTypeOK
  <1>2. ASSUME NEW n \in BOOLEAN, Create(t, n) PROVE GateInv'
    <2> DEFINE s == IF n THEN "awaiting-approval" ELSE "awaiting-input"
    <2>1. /\ gate = "open" /\ pc = "idle"
          /\ UNCHANGED <<port, log, disk, gate, status, buf, acked, supplied, crashes, losses, faults>>
          /\ \/ UNCHANGED <<pc, pending>>
             \/ /\ status[t] = "unknown" /\ pc' = "seek" /\ pending' = [task |-> t, status |-> s]
      BY <1>2 DEF Create, Refuse, Persist, file, history, counters
    <2>2. s \in Statuses /\ s \in Waiting
      BY DEF Statuses, Waiting
    <2> HIDE DEF s
    <2>3. CASE UNCHANGED <<pc, pending>>
      BY <2>1, <2>3, AnswerInv
    <2>4. CASE status[t] = "unknown" /\ pc' = "seek" /\ pending' = [task |-> t, status |-> s]
      <3>1. Rank(s) = Rank(status[t]) + 1 /\ ~PastGate(s)
        BY <2>2, <2>4, RankIs DEF PastGate
      <3> QED BY <1>1, <2>1, <2>2, <2>4, <3>1, BeginInv
    <2> QED BY <2>1, <2>3, <2>4
  <1>3. CASE SupplyInput(t)
    <2> DEFINE s == IF status[t] = "awaiting-input" THEN "input-supplied" ELSE "approved"
    <2>1. /\ gate = "open" /\ pc = "idle"
          /\ UNCHANGED <<port, log, disk, gate, status, buf, acked, crashes, losses, faults>>
          /\ \/ UNCHANGED <<pc, pending, supplied>>
             \/ /\ status[t] \in Waiting /\ pc' = "seek" /\ pending' = [task |-> t, status |-> s]
                /\ supplied' = supplied \cup {t}
      BY <1>3 DEF SupplyInput, Refuse, Persist, file, counters
    <2>2. s \in Statuses /\ s \in Passed
      BY DEF Statuses, Passed
    <2> HIDE DEF s
    <2>3. CASE UNCHANGED <<pc, pending, supplied>>
      BY <2>1, <2>3, AnswerInv
    <2>4. CASE /\ status[t] \in Waiting /\ pc' = "seek" /\ pending' = [task |-> t, status |-> s]
               /\ supplied' = supplied \cup {t}
      <3>1. Rank(s) = Rank(status[t]) + 1
        BY <2>2, <2>4, RankIs
      <3> QED BY <1>1, <2>1, <2>2, <2>4, <3>1, BeginInv
    <2> QED BY <2>1, <2>3, <2>4
  <1>4. CASE Run(t)
    <2>1. /\ gate = "open" /\ pc = "idle"
          /\ UNCHANGED <<port, log, disk, gate, status, buf, acked, supplied, crashes, losses, faults>>
          /\ \/ UNCHANGED <<pc, pending>>
             \/ /\ status[t] \in Passed /\ pc' = "seek"
                /\ pending' = [task |-> t, status |-> "running"]
      BY <1>4 DEF Run, Refuse, Persist, file, history, counters
    <2>2. CASE UNCHANGED <<pc, pending>>
      BY <2>1, <2>2, AnswerInv
    <2>3. CASE status[t] \in Passed /\ pc' = "seek" /\ pending' = [task |-> t, status |-> "running"]
      <3>1. "running" \in Statuses /\ Rank("running") = Rank(status[t]) + 1 /\ PastGate(status[t])
        BY <2>3, RankIs DEF Statuses, PastGate
      <3>2. t \in supplied
        BY <2>1, <3>1 DEF GateInv, SuppliedInv
      <3> QED BY <1>1, <2>1, <2>3, <3>1, <3>2, BeginInv
    <2> QED BY <2>1, <2>2, <2>3
  <1> QED BY <1>2, <1>3, <1>4

\* The seek completes the record of an earlier failed flush; behind it the new
\* one goes into the buffer.
LEMMA SeekWriteInv == ASSUME GateInv, SeekWrite, UNCHANGED port PROVE GateInv'
  <1>1. /\ pc = "seek" /\ log' = Flushed(log, buf) /\ buf' = [rec |-> pending, at |-> Len(log')]
        /\ pc' = "flush"
        /\ UNCHANGED <<port, disk, gate, status, pending, acked, supplied, crashes, losses, faults>>
    BY DEF SeekWrite, history, counters
  <1>2. /\ gate = "open" /\ pending \in Record
        /\ Rank(pending.status) = Rank(status[pending.task]) + 1
        /\ PastGate(pending.status) => pending.task \in supplied
        /\ port = "go" => buf = Empty
    BY <1>1 DEF GateInv, GateStepInv, SuppliedInv
  <1>3. /\ log' \in Seq(Cell) /\ Len(log') \in Nat /\ AckedInv'
        /\ \A k \in 1..Len(log') : log'[k] # Torn
        /\ \A k \in 1..Len(log') : PastGate(log'[k].status) => log'[k].task \in supplied
        /\ port = "python" => /\ Len(disk) <= Len(log') /\ \A k \in 1..Len(disk) : log'[k] = disk[k]
                              /\ Ordered(log')
                              /\ \A k \in 1..Len(log') :
                                   Rank(log'[k].status) <= Rank(status[log'[k].task]) + 1
    <2>1. CASE buf = Empty
      <3>1. log' = log
        BY <1>1, <2>1 DEF Flushed
      <3>2. AckedInv'
        BY <1>1, <3>1 DEF GateInv, AckedInv, StatusKeeper
      <3>3. \A k \in 1..Len(log) : log[k] # Torn
        BY <1>2, <2>1 DEF GateInv, GateFileInv
      <3> QED BY <1>2, <3>1, <3>2, <3>3, GateTyped DEF GateInv, GateFileInv, SuppliedInv, PythonInv
    <2>2. CASE buf # Empty
      <3>1. log' = WriteAt(log, buf.at, buf.rec) /\ buf.rec # Torn
        BY <1>1, <2>2, TornCell DEF Flushed, GateInv, GateStepInv
      <3>2. /\ log' \in Seq(Cell) /\ Len(log') = buf.at + 1 /\ log'[buf.at + 1] = buf.rec
            /\ \A k \in 1..buf.at : log'[k] # Torn
            /\ AckedInv'
            /\ \A k \in 1..Len(log') : log'[k] # Torn /\ PastGate(log'[k].status) => log'[k].task \in supplied
            /\ port = "python" => /\ \A k \in 1..Len(disk) : k <= buf.at /\ log'[k] = disk[k]
                                  /\ Ordered(log')
                                  /\ \A k \in 1..Len(log') : log'[k] # Torn =>
                                       Rank(log'[k].status) <= Rank(status[log'[k].task]) + 1
        BY <1>1, <1>2, <2>2, <3>1, GateWrite
      <3>3. ASSUME NEW k \in 1..Len(log') PROVE log'[k] # Torn
        <4>1. k = buf.at + 1 \/ k \in 1..buf.at
          BY <3>2, <3>3, GateTyped
        <4> QED BY <3>1, <3>2, <4>1
      <3>4. port = "python" => Len(disk) <= Len(log')
        BY <2>2, <3>2, GateTyped DEF GateInv, GateFileInv
      <3> QED BY <3>2, <3>3, <3>4, GateTyped
    <2> QED BY <2>1, <2>2
  <1>4. buf' # Empty /\ buf' \in [rec : Cell, at : Nat] /\ buf'.rec = pending /\ buf'.at = Len(log')
    BY <1>1, <1>2, <1>3, TornCell
  <1>5. GateTypeOK'
    BY <1>1, <1>3, <1>4 DEF GateInv, GateTypeOK
  <1>6. AckedSurvives' /\ CrashRecovers'
    BY <1>1 DEF GateInv, AckedSurvives, CrashRecovers
  <1>7. GateStepInv'
    BY <1>1, <1>2, <1>4 DEF GateStepInv
  <1>8. GateFileInv'
    BY <1>1, <1>3, <1>4 DEF GateFileInv
  <1>9. SuppliedInv' /\ PythonInv'
    BY <1>1, <1>2, <1>3, <1>4 DEF GateInv, SuppliedInv, PythonInv
  <1> QED BY <1>3, <1>5, <1>6, <1>7, <1>8, <1>9 DEF GateInv

LEMMA FlushInv == ASSUME GateInv, Flush, UNCHANGED port PROVE GateInv'
  <1>1. /\ pc = "flush" /\ log' = Flushed(log, buf) /\ buf' = Empty /\ pc' = "fsync"
        /\ UNCHANGED <<port, disk, gate, status, pending, acked, supplied, crashes, losses, faults>>
    BY DEF Flush, history, counters
  <1>2. /\ gate = "open" /\ pending \in Record /\ buf.rec = pending /\ buf # Empty /\ pending # Torn
        /\ Rank(pending.status) = Rank(status[pending.task]) + 1
    BY <1>1, TornCell DEF GateInv, GateStepInv
  <1>3. /\ log' \in Seq(Cell) /\ Len(log') = buf.at + 1 /\ log'[buf.at + 1] = pending
        /\ \A k \in 1..buf.at : log'[k] # Torn
        /\ AckedInv'
        /\ \A k \in 1..Len(log') : log'[k] # Torn /\ PastGate(log'[k].status) => log'[k].task \in supplied
        /\ port = "python" => /\ \A k \in 1..Len(disk) : k <= buf.at /\ log'[k] = disk[k]
                              /\ Ordered(log')
                              /\ \A k \in 1..Len(log') : log'[k] # Torn =>
                                   Rank(log'[k].status) <= Rank(status[log'[k].task]) + 1
    <2>1. log' = WriteAt(log, buf.at, buf.rec)
      BY <1>1, <1>2 DEF Flushed
    <2> QED BY <1>1, <1>2, <2>1, GateWrite
  <1>4. Len(log') \in Nat /\ log' # << >> /\ log'[Len(log')] = pending
    BY <1>3, GateTyped
  <1>5. ASSUME NEW k \in 1..Len(log') PROVE log'[k] # Torn
    <2>1. k = buf.at + 1 \/ k \in 1..buf.at
      BY <1>3, <1>5, GateTyped
    <2> QED BY <1>2, <1>3, <2>1
  <1>6. port = "python" => Len(disk) <= Len(log')
    BY <1>2, <1>3, GateTyped DEF GateInv, GateFileInv
  <1>7. GateTypeOK'
    BY <1>1, <1>3, TornCell DEF GateInv, GateTypeOK
  <1>8. AckedSurvives' /\ CrashRecovers'
    BY <1>1 DEF GateInv, AckedSurvives, CrashRecovers
  <1>9. GateStepInv' /\ GateFileInv'
    BY <1>1, <1>2, <1>3, <1>4, <1>5, <1>6 DEF GateStepInv, GateFileInv
  <1>10. SuppliedInv' /\ PythonInv'
    BY <1>1, <1>3 DEF GateInv, SuppliedInv, PythonInv
  <1> QED BY <1>3, <1>7, <1>8, <1>9, <1>10 DEF GateInv

LEMMA FsyncInv == ASSUME GateInv, Fsync, UNCHANGED port PROVE GateInv'
  <1>1. /\ pc = "fsync" /\ disk' = log /\ pc' = "ack"
        /\ UNCHANGED <<port, log, gate, status, buf, pending, acked, supplied, crashes, losses, faults>>
    BY DEF Fsync, history, counters
  <1>2. buf = Empty
    BY <1>1 DEF GateInv, GateStepInv
  <1>3. GateTypeOK' /\ AckedSurvives' /\ CrashRecovers' /\ GateStepInv'
    BY <1>1 DEF GateInv, GateTypeOK, AckedSurvives, CrashRecovers, GateStepInv
  <1>4. GateFileInv'
    BY <1>1, <1>2, GateTyped DEF GateInv, GateFileInv
  <1>5. AckedInv'
    <2> SUFFICES ASSUME NEW t \in Tasks, acked[t] # "unknown"
                 PROVE  \E k \in 1..Len(log) : StatusKeeper(t, k)'
      BY <1>1 DEF AckedInv
    <2>1. PICK k \in 1..Len(log) : StatusKeeper(t, k)
      BY DEF GateInv, AckedInv
    <2>2. StatusKeeper(t, k)'
      BY <1>1, <2>1 DEF StatusKeeper
    <2> QED BY <2>2
  <1>6. SuppliedInv' /\ PythonInv'
    BY <1>1 DEF GateInv, SuppliedInv, PythonInv
  <1> QED BY <1>3, <1>4, <1>5, <1>6 DEF GateInv

\* The record that is acknowledged is the last one, on a disk equal to the file.
LEMMA AckInv == ASSUME GateInv, Ack, UNCHANGED port PROVE GateInv'
  <1> DEFINE b == pending.task
             s == pending.status
  <1>1. /\ pc = "ack" /\ pc' = "idle" /\ pending' = Torn
        /\ status' = [status EXCEPT ![b] = s] /\ acked' = [acked EXCEPT ![b] = s]
        /\ UNCHANGED <<port, log, disk, gate, buf, supplied, crashes, losses, faults>>
    BY DEF Ack, Done, file, counters
  <1>2. /\ gate = "open" /\ pending \in Record /\ b \in Tasks /\ s \in Statuses
        /\ buf = Empty /\ log # << >> /\ log[Len(log)] = pending /\ disk = log
        /\ Rank(s) = Rank(status[b]) + 1 /\ (PastGate(s) => b \in supplied)
    BY <1>1 DEF GateInv, GateStepInv, SuppliedInv, Record
  <1>3. /\ \A k \in 1..Len(log) : log[k] # Torn
        /\ \A t \in Tasks : Rank(status[t]) >= Rank(acked[t])
    BY <1>2 DEF GateInv, GateFileInv, AckedSurvives
  <1>4. GateTypeOK'
    BY <1>1, <1>2, TornCell DEF GateInv, GateTypeOK
  <1>5. s # "unknown"
    BY <1>2 DEF Statuses, Waiting, Passed
  <1> HIDE DEF b, s
  <1>6. /\ status'[b] = s /\ acked'[b] = s
        /\ \A t \in Tasks \ {b} : status'[t] = status[t] /\ acked'[t] = acked[t]
    BY <1>1, <1>2, GateTyped
  <1>7. AckedSurvives' /\ CrashRecovers'
    <2>1. \A t \in Tasks : Rank(status'[t]) >= Rank(acked'[t])
      BY <1>3, <1>6, RankIs
    <2> QED BY <1>1, <2>1 DEF GateInv, AckedSurvives, CrashRecovers
  <1>8. GateStepInv' /\ GateFileInv'
    BY <1>1, <1>2, <1>3 DEF GateInv, GateStepInv, GateFileInv
  <1>9. AckedInv'
    <2> SUFFICES ASSUME NEW t \in Tasks, acked'[t] # "unknown"
                 PROVE  \E k \in 1..Len(log) : StatusKeeper(t, k)'
      BY <1>1 DEF AckedInv
    <2>1. CASE t = b
      <3>1. PICK n \in Nat : n = Len(log)
        BY GateTyped
      <3>2. n \in 1..Len(log) /\ log[n] = pending
        BY <1>2, <3>1, GateTyped
      <3>3. NotBehind(log, n, t, s)
        <4> SUFFICES ASSUME NEW j \in 1..Len(log), j >= n PROVE Rank(log[j].status) >= Rank(s)
          BY DEF NotBehind
        <4>1. j = n
          BY <3>1
        <4> QED BY <3>2, <4>1, RankIs DEF s
      <3>4. StatusKeeper(t, n)'
        BY <1>1, <1>2, <1>3, <1>6, <2>1, <3>1, <3>2, <3>3 DEF StatusKeeper, b
      <3> QED BY <3>2, <3>4
    <2>2. CASE t # b
      <3>1. acked'[t] = acked[t]
        BY <1>6, <2>2
      <3>2. PICK k \in 1..Len(log) : StatusKeeper(t, k)
        BY <3>1 DEF GateInv, AckedInv
      <3>3. StatusKeeper(t, k)'
        BY <1>1, <3>1, <3>2 DEF StatusKeeper
      <3> QED BY <3>3
    <2> QED BY <2>1, <2>2
  <1>10. SuppliedInv'
    BY <1>1, <1>2, <1>6 DEF GateInv, SuppliedInv
  <1>11. PythonInv'
    <2> SUFFICES ASSUME port = "python", NEW k \in 1..Len(log)
                 PROVE  Rank(log[k].status) <= Rank(status'[log[k].task]) + 1
      BY <1>1 DEF GateInv, PythonInv
    <2>1. Rank(log[k].status) <= Rank(status[log[k].task]) + 1 /\ log[k].task \in Tasks
      <3>1. log[k] \in Record
        BY <1>3, GateTyped DEF Cell
      <3> QED BY <1>2, <1>3, <3>1 DEF GateInv, PythonInv, Record
    <2>2. CASE log[k].task = b
      BY <1>2, <1>6, <2>1, <2>2, RankIs
    <2>3. CASE log[k].task # b
      BY <1>6, <2>1, <2>3
    <2> QED BY <2>2, <2>3
  <1> QED BY <1>4, <1>7, <1>8, <1>9, <1>10, <1>11 DEF GateInv

\* Only the Python gate meets an I/O error: its buffer keeps the record.
LEMMA FaultInv ==
  ASSUME GoWritesSucceed, GateInv, Fault, UNCHANGED port PROVE GateInv'
  <1>1. /\ faults < MaxFaults[port] /\ faults' = faults + 1
        /\ pc' = "idle" /\ pending' = Torn
        /\ UNCHANGED <<port, disk, gate, status, acked, supplied, crashes, losses>>
        /\ pc \in {"seek", "flush", "fsync"}
    BY DEF Fault, Done, history
  <1>2. port = "python" /\ faults' \in 0..MaxFaults[port]
    BY <1>1, GateTyped, GateConstants DEF GoWritesSucceed, GateInv, GateTypeOK, Ports
  <1>3. /\ buf' = buf
        /\ \/ log' = log
           \/ buf # Empty /\ log' = WriteAt(log, buf.at, Torn)
    <2>1. pc = "flush" => buf # Empty
      BY TornCell DEF GateInv, GateStepInv
    <2> QED BY <1>2, <2>1 DEF Fault, Fragments
  <1>4. gate = "open"
    BY <1>1 DEF GateInv, GateStepInv
  <1>5. /\ log' \in Seq(Cell) /\ Len(log') \in Nat /\ AckedInv'
        /\ buf # Empty => buf.at <= Len(log') /\ Len(log') <= buf.at + 1
        /\ \A k \in 1..Len(log') : log'[k] = Torn => buf # Empty /\ k = buf.at + 1
        /\ \A k \in 1..Len(log') : log'[k] # Torn /\ PastGate(log'[k].status) => log'[k].task \in supplied
        /\ Len(disk) <= Len(log') /\ \A k \in 1..Len(disk) : log'[k] = disk[k]
        /\ Ordered(log')
        /\ \A k \in 1..Len(log') : log'[k] # Torn =>
             Rank(log'[k].status) <= Rank(status[log'[k].task]) + 1
    <2>1. CASE log' = log
      <3>1. AckedInv'
        BY <1>1, <2>1 DEF GateInv, AckedInv, StatusKeeper
      <3> QED BY <1>2, <1>4, <2>1, <3>1, GateTyped DEF GateInv, GateFileInv, SuppliedInv, PythonInv
    <2>2. CASE buf # Empty /\ log' = WriteAt(log, buf.at, Torn)
      <3>1. /\ log' \in Seq(Cell) /\ Len(log') = buf.at + 1
            /\ \A k \in 1..buf.at : log'[k] # Torn
            /\ AckedInv'
            /\ \A k \in 1..Len(log') : log'[k] # Torn /\ PastGate(log'[k].status) => log'[k].task \in supplied
            /\ \A k \in 1..Len(disk) : k <= buf.at /\ log'[k] = disk[k]
            /\ Ordered(log')
            /\ \A k \in 1..Len(log') : log'[k] # Torn =>
                 Rank(log'[k].status) <= Rank(status[log'[k].task]) + 1
        BY <1>1, <1>2, <1>4, <2>2, GateWrite
      <3>2. \A k \in 1..Len(log') : k = buf.at + 1 \/ k \in 1..buf.at
        BY <3>1, GateTyped
      <3>3. Len(disk) <= Len(log') /\ buf.at <= Len(log') /\ Len(log') <= buf.at + 1 /\ Len(log') \in Nat
        BY <1>2, <2>2, <3>1, GateTyped DEF GateInv, GateFileInv
      <3> QED BY <2>2, <3>1, <3>2, <3>3
    <2> QED BY <1>3, <2>1, <2>2
  <1>6. GateTypeOK' /\ AckedSurvives' /\ CrashRecovers'
    BY <1>1, <1>2, <1>3, <1>5, TornCell DEF GateInv, GateTypeOK, AckedSurvives, CrashRecovers
  <1>7. GateStepInv'
    BY <1>1, <1>2, <1>3, <1>4 DEF GateInv, GateStepInv
  <1>8. GateFileInv'
    BY <1>1, <1>2, <1>3, <1>5 DEF GateInv, GateFileInv
  <1>9. SuppliedInv' /\ PythonInv'
    BY <1>1, <1>3, <1>5 DEF GateInv, SuppliedInv, PythonInv
  <1> QED BY <1>5, <1>6, <1>7, <1>8, <1>9 DEF GateInv
\* What a failure or a close that stops the gate has to leave in the files.
LEMMA StoppedGateInv ==
  ASSUME GateInv, gate' = "closed", buf' = Empty, pc' = "idle", pending' = Torn,
         UNCHANGED <<port, status, acked, supplied>>,
         crashes' \in 0..MaxCrashes[port], losses' \in 0..MaxLosses[port], faults' \in 0..MaxFaults[port],
         log' \in Seq(Cell), disk' \in Seq(Cell), AckedInv',
         \A k \in 1..Len(log') : log'[k] # Torn /\ PastGate(log'[k].status) => log'[k].task \in supplied,
         \A k \in 1..Len(disk') : disk'[k] # Torn /\ PastGate(disk'[k].status) => disk'[k].task \in supplied,
         port = "python" => /\ Len(disk') <= Len(log') /\ \A k \in 1..Len(disk') : log'[k] = disk'[k]
                            /\ Ordered(log')
  PROVE  GateInv'
  <1>1. GateTypeOK'
    BY TornCell DEF GateInv, GateTypeOK
  <1>2. AckedSurvives' /\ CrashRecovers' /\ GateStepInv'
    BY DEF AckedSurvives, CrashRecovers, GateStepInv
  <1>3. GateFileInv' /\ SuppliedInv' /\ PythonInv'
    BY DEF GateFileInv, SuppliedInv, PythonInv
  <1> QED BY <1>1, <1>2, <1>3 DEF GateInv

LEMMA CloseInv ==
  ASSUME GoWritesSucceed, GateInv, Close, UNCHANGED port PROVE GateInv'
  <1>1. /\ gate = "open" /\ gate' = "closed" /\ buf' = Empty /\ pc' = "idle" /\ pending' = Torn
        /\ UNCHANGED <<port, disk, status, acked, supplied, crashes, losses>>
    BY DEF Close, Stop, Done, history
  <1>2. /\ crashes' \in 0..MaxCrashes[port] /\ losses' \in 0..MaxLosses[port]
        /\ faults' \in 0..MaxFaults[port]
    <2>1. faults' = faults \/ (faults < MaxFaults[port] /\ faults' = faults + 1)
      BY DEF Close
    <2>2. MaxFaults[port] \in Nat
      BY GateTyped, GateConstants DEF Ports
    <2> QED BY <1>1, <2>1, <2>2 DEF GateInv, GateTypeOK
  <1>3. \/ log' = log
        \/ buf # Empty /\ \E r \in {buf.rec, Torn} : log' = WriteAt(log, buf.at, r)
    BY DEF Close, Flushed, Fragments
  <1>4. CASE log' = log
    <2>1. AckedInv'
      BY <1>1, <1>4 DEF GateInv, AckedInv, StatusKeeper
    <2>2. /\ log' \in Seq(Cell) /\ disk' \in Seq(Cell)
          /\ \A k \in 1..Len(log') : log'[k] # Torn /\ PastGate(log'[k].status) => log'[k].task \in supplied
          /\ \A k \in 1..Len(disk') : disk'[k] # Torn /\ PastGate(disk'[k].status) => disk'[k].task \in supplied
          /\ port = "python" => /\ Len(disk') <= Len(log') /\ \A k \in 1..Len(disk') : log'[k] = disk'[k]
                                /\ Ordered(log')
      BY <1>1, <1>4, GateTyped DEF GateInv, SuppliedInv, GateFileInv, PythonInv
    <2> QED BY <1>1, <1>2, <2>1, <2>2, StoppedGateInv
  <1>5. CASE buf # Empty /\ \E r \in {buf.rec, Torn} : log' = WriteAt(log, buf.at, r)
    <2>1. /\ log' \in Seq(Cell) /\ Len(log') = buf.at + 1 /\ AckedInv'
          /\ \A k \in 1..Len(log') : log'[k] # Torn /\ PastGate(log'[k].status) => log'[k].task \in supplied
          /\ port = "python" => /\ \A k \in 1..Len(disk) : k <= buf.at /\ log'[k] = disk[k]
                                /\ Ordered(log')
      BY <1>1, <1>5, GateWrite
    <2>2. port = "python" => Len(disk) <= Len(log')
      BY <1>5, <2>1, GateTyped DEF GateInv, GateFileInv
    <2>3. /\ disk' \in Seq(Cell)
          /\ \A k \in 1..Len(disk') : disk'[k] # Torn /\ PastGate(disk'[k].status) => disk'[k].task \in supplied
          /\ port = "python" => /\ Len(disk') <= Len(log') /\ \A k \in 1..Len(disk') : log'[k] = disk'[k]
                                /\ Ordered(log')
      BY <1>1, <2>1, <2>2, GateTyped DEF GateInv, SuppliedInv
    <2> QED BY <1>1, <1>2, <2>1, <2>3, StoppedGateInv
  <1> QED BY <1>3, <1>4, <1>5

LEMMA CrashInv == ASSUME GateInv, ProcessCrash, UNCHANGED port PROVE GateInv'
  <1>1. /\ gate' = "closed" /\ buf' = Empty /\ pc' = "idle" /\ pending' = Torn
        /\ crashes < MaxCrashes[port] /\ crashes' = crashes + 1
        /\ UNCHANGED <<port, log, disk, status, acked, supplied, losses, faults>>
    BY DEF ProcessCrash, Stop, Done, history, file
  <1>2. /\ crashes' \in 0..MaxCrashes[port] /\ losses' \in 0..MaxLosses[port]
        /\ faults' \in 0..MaxFaults[port]
    <2>1. MaxCrashes[port] \in Nat
      BY GateTyped, GateConstants DEF Ports
    <2> QED BY <1>1, <2>1 DEF GateInv, GateTypeOK
  <1>3. AckedInv'
    BY <1>1 DEF GateInv, AckedInv, StatusKeeper
  <1>4. /\ log' \in Seq(Cell) /\ disk' \in Seq(Cell)
        /\ \A k \in 1..Len(log') : log'[k] # Torn /\ PastGate(log'[k].status) => log'[k].task \in supplied
        /\ \A k \in 1..Len(disk') : disk'[k] # Torn /\ PastGate(disk'[k].status) => disk'[k].task \in supplied
        /\ port = "python" => /\ Len(disk') <= Len(log') /\ \A k \in 1..Len(disk') : log'[k] = disk'[k]
                              /\ Ordered(log')
    BY <1>1, GateTyped DEF GateInv, SuppliedInv, GateFileInv, PythonInv
  <1> QED BY <1>1, <1>2, <1>3, <1>4, StoppedGateInv

\* The durable length the truncation of a file may come back to.
LEMMA MinOfTwo ==
  ASSUME NEW a \in Nat, NEW b \in Nat
  PROVE  Min({a, b}) = IF a <= b THEN a ELSE b
  <1> DEFINE c == IF a <= b THEN a ELSE b
  <1>1. c \in {a, b} /\ \A y \in {a, b} : c <= y
    OBVIOUS
  <1>2. \A x \in {a, b} : (\A y \in {a, b} : x <= y) => x = c
    OBVIOUS
  <1> HIDE DEF c
  <1>3. Min({a, b}) = c
    BY <1>1, <1>2 DEF Min
  <1> QED BY <1>3 DEF c

LEMMA LossCells ==
  ASSUME NEW d, NEW c, NEW g \in AfterPowerLoss(d, c, Torn)
  PROVE  \E n \in Len(d)..Len(c) : \E kept \in [1..n -> BOOLEAN] :
           g = [k \in 1..n |-> IF kept[k] THEN c[k] ELSE IF k <= Len(d) THEN d[k] ELSE Torn]
  BY DEF AfterPowerLoss

\* What the machine finds after a power loss: every record is torn, or comes
\* from the cache or the disk; none is lost that both held.
LEMMA AfterLossIs ==
  ASSUME NEW f \in Seq(Cell), NEW e \in Seq(Cell),
         NEW d \in {e, SubSeq(e, 1, Min({Len(e), Len(f)}))},
         NEW g \in AfterPowerLoss(d, f \o SubSeq(d, Len(f) + 1, Len(d)), Torn)
  PROVE  /\ g \in Seq(Cell)
         /\ \A k \in 1..Len(g) : \/ g[k] = Torn
                                 \/ k <= Len(f) /\ g[k] = f[k]
                                 \/ k <= Len(e) /\ g[k] = e[k]
         /\ \A k \in 1..Len(f) : k <= Len(e) => k <= Len(g) /\ g[k] \in {f[k], e[k]}
         /\ Len(e) <= Len(f) => Len(e) <= Len(g) /\ Len(g) <= Len(f)
  <1>1. Len(f) \in Nat /\ Len(e) \in Nat
    OBVIOUS
  <1>2. /\ d \in Seq(Cell) /\ Len(d) \in Nat /\ Len(d) <= Len(e)
        /\ \A k \in 1..Len(d) : d[k] = e[k]
        /\ \A k \in 1..Len(f) : k <= Len(e) => k <= Len(d)
        /\ Len(e) <= Len(f) => Len(d) = Len(e)
    <2>1. CASE d = e
      BY <1>1, <2>1
    <2>2. CASE d # e
      <3> DEFINE m == Min({Len(e), Len(f)})
      <3>1. m = IF Len(e) <= Len(f) THEN Len(e) ELSE Len(f)
        BY <1>1, MinOfTwo
      <3>2. d = SubSeq(e, 1, m)
        BY <2>2
      <3> HIDE DEF m
      <3>3. m \in Nat /\ m <= Len(e)
        BY <1>1, <3>1
      <3>4. d \in Seq(Cell) /\ Len(d) = m /\ \A k \in 1..m : d[k] = e[k]
        BY <1>1, <3>2, <3>3
      <3> QED BY <1>1, <3>1, <3>3, <3>4
    <2> QED BY <2>1, <2>2
  <1> DEFINE c == f \o SubSeq(d, Len(f) + 1, Len(d))
  <1>3. /\ c \in Seq(Cell) /\ Len(c) = IF Len(d) <= Len(f) THEN Len(f) ELSE Len(d)
        /\ \A k \in 1..Len(f) : c[k] = f[k]
        /\ \A k \in 1..Len(c) : k > Len(f) => k <= Len(d) /\ c[k] = d[k]
    <2> DEFINE r == SubSeq(d, Len(f) + 1, Len(d))
    <2>1. r \in Seq(Cell) /\ Len(r) = IF Len(d) <= Len(f) THEN 0 ELSE Len(d) - Len(f)
      BY <1>1, <1>2
    <2>2. \A i \in 1..Len(r) : r[i] = d[Len(f) + i]
      BY <1>1, <1>2
    <2>3. c = f \o r
      OBVIOUS
    <2> HIDE DEF r, c
    <2>4. /\ c \in Seq(Cell) /\ Len(c) = Len(f) + Len(r)
          /\ \A k \in 1..Len(c) : c[k] = IF k <= Len(f) THEN f[k] ELSE r[k - Len(f)]
      <3>1. f \in Seq(Cell) /\ r \in Seq(Cell)
        BY <2>1
      <3> QED BY ONLY <2>3, <3>1
    <2>5. Len(r) \in Nat /\ Len(c) = IF Len(d) <= Len(f) THEN Len(f) ELSE Len(d)
      BY <1>1, <1>2, <2>1, <2>4
    <2>6. ASSUME NEW k \in 1..Len(c), k > Len(f) PROVE k <= Len(d) /\ c[k] = d[k]
      <3>1. k <= Len(d) /\ k - Len(f) \in 1..Len(r) /\ Len(f) + (k - Len(f)) = k
        BY <1>1, <1>2, <2>1, <2>4, <2>6
      <3>2. c[k] = r[k - Len(f)]
        BY <1>1, <2>4, <2>6
      <3> QED BY <2>2, <3>1, <3>2
    <2>7. \A k \in 1..Len(f) : k \in 1..Len(c) /\ c[k] = f[k]
      BY <1>1, <2>4, <2>5
    <2> QED BY <2>4, <2>5, <2>6, <2>7
  <1>4. g \in AfterPowerLoss(d, c, Torn)
    OBVIOUS
  <1> HIDE DEF c
  <1>5. PICK n \in Len(d)..Len(c) :
          \E kept \in [1..n -> BOOLEAN] :
            g = [k \in 1..n |-> IF kept[k] THEN c[k] ELSE IF k <= Len(d) THEN d[k] ELSE Torn]
    BY <1>4, LossCells
  <1>6. n \in Nat /\ Len(d) <= n /\ n <= Len(c) /\ Len(c) \in Nat
    BY <1>1, <1>2, <1>3, <1>5
  <1>k. PICK kept \in [1..n -> BOOLEAN] :
          g = [k \in 1..n |-> IF kept[k] THEN c[k] ELSE IF k <= Len(d) THEN d[k] ELSE Torn]
    BY <1>5
  <1>7. ASSUME NEW k \in 1..n
        PROVE  /\ g[k] \in Cell
               /\ \/ g[k] = c[k]
                  \/ k <= Len(d) /\ g[k] = d[k]
                  \/ k > Len(d) /\ g[k] = Torn
    <2>1. k \in 1..Len(c) /\ c[k] \in Cell /\ (k <= Len(d) => d[k] \in Cell) /\ k \in Int
      BY <1>2, <1>3, <1>6, <1>7
    <2>2. g[k] = IF kept[k] THEN c[k] ELSE IF k <= Len(d) THEN d[k] ELSE Torn
      BY <1>k, <1>7
    <2> QED BY <1>2, <2>1, <2>2, TornCell
  <1>8. g \in Seq(Cell) /\ Len(g) = n
    BY <1>k, <1>6, <1>7
  <1>9. ASSUME NEW k \in 1..n
        PROVE  g[k] = Torn \/ (k <= Len(f) /\ g[k] = f[k]) \/ (k <= Len(e) /\ g[k] = e[k])
    <2>1. k \in 1..Len(c) /\ (k \in 1..Len(f) \/ k > Len(f))
      BY <1>1, <1>6, <1>9
    <2>2. (k <= Len(f) /\ c[k] = f[k]) \/ (k <= Len(d) /\ c[k] = d[k])
      BY <1>1, <1>3, <2>1
    <2>3. k <= Len(d) => k <= Len(e) /\ d[k] = e[k]
      BY <1>1, <1>2, <2>1
    <2> QED BY <1>7, <1>9, <2>2, <2>3
  <1>10. ASSUME NEW k \in 1..Len(f), k <= Len(e) PROVE k <= n /\ g[k] \in {f[k], e[k]}
    <2>1. k <= Len(d) /\ k \in 1..n /\ d[k] = e[k] /\ c[k] = f[k]
      BY <1>1, <1>2, <1>3, <1>6, <1>10
    <2> QED BY <1>2, <1>7, <2>1
  <1>11. Len(e) <= Len(f) => Len(e) <= n /\ n <= Len(f)
    BY <1>1, <1>2, <1>3, <1>6
  <1> QED BY <1>8, <1>9, <1>10, <1>11

\* A power loss keeps the records that the cache and the disk agreed on.
LEMMA PowerLossInv == ASSUME GateInv, PowerLoss, UNCHANGED port PROVE GateInv'
  <1>1. /\ gate' = "closed" /\ buf' = Empty /\ pc' = "idle" /\ pending' = Torn
        /\ losses < MaxLosses[port] /\ losses' = losses + 1 /\ disk' = log'
        /\ UNCHANGED <<port, status, acked, supplied, crashes, faults>>
    BY DEF PowerLoss, Stop, Done, history
  <1>2. /\ log' \in Seq(Cell)
        /\ \A k \in 1..Len(log') : \/ log'[k] = Torn
                                   \/ k <= Len(log) /\ log'[k] = log[k]
                                   \/ k <= Len(disk) /\ log'[k] = disk[k]
        /\ \A k \in 1..Len(log) : k <= Len(disk) => k <= Len(log') /\ log'[k] \in {log[k], disk[k]}
    <2>1. PICK d \in {disk, SubSeq(disk, 1, Min({Len(disk), Len(log)}))} :
            log' \in AfterPowerLoss(d, log \o SubSeq(d, Len(log) + 1, Len(d)), Torn)
      BY DEF PowerLoss
    <2>2. log \in Seq(Cell) /\ disk \in Seq(Cell)
      BY GateTyped
    <2> QED BY <2>1, <2>2, AfterLossIs, Zenon
  <1>3. Len(log') \in Nat /\ Len(log) \in Nat /\ Len(disk) \in Nat
    BY <1>2, GateTyped
  <1>4. /\ crashes' \in 0..MaxCrashes[port] /\ losses' \in 0..MaxLosses[port]
        /\ faults' \in 0..MaxFaults[port]
    <2>1. MaxLosses[port] \in Nat
      BY GateTyped, GateConstants DEF Ports
    <2> QED BY <1>1, <2>1 DEF GateInv, GateTypeOK
  <1>5. AckedInv'
    <2> SUFFICES ASSUME NEW t \in Tasks, acked[t] # "unknown"
                 PROVE  \E k \in 1..Len(log') : StatusKeeper(t, k)'
      BY <1>1 DEF AckedInv
    <2>1. PICK k \in 1..Len(log) : StatusKeeper(t, k)
      BY DEF GateInv, AckedInv
    <2>2. /\ k <= Len(disk) /\ \A j \in 1..k : log[j] = disk[j] /\ log[j] # Torn
          /\ log[k].task = t
          /\ NotBehind(log, k, t, acked[t]) /\ NotBehind(disk, k, t, acked[t])
      BY <2>1 DEF StatusKeeper
    <2>3. \A j \in 1..k : j \in 1..Len(log) /\ j <= Len(disk)
      BY <1>3, <2>1, <2>2
    <2>4. k \in 1..k /\ k \in 1..Len(log')
      BY <1>2, <1>3, <2>2, <2>3
    <2>5. \A j \in 1..k : log'[j] = log[j] /\ log'[j] # Torn
      BY <1>2, <2>2, <2>3
    <2>6. NotBehind(log', k, t, acked[t])
      <3> SUFFICES ASSUME NEW j \in 1..Len(log'), j >= k, log'[j] # Torn, log'[j].task = t
                   PROVE  Rank(log'[j].status) >= Rank(acked[t])
        BY DEF NotBehind
      <3>1. CASE j <= Len(log) /\ log'[j] = log[j]
        <4>1. j \in 1..Len(log)
          BY <1>3, <3>1
        <4> QED BY <2>2, <3>1, <4>1 DEF NotBehind
      <3>2. CASE j <= Len(disk) /\ log'[j] = disk[j]
        <4>1. j \in 1..Len(disk)
          BY <1>3, <3>2
        <4> QED BY <2>2, <3>2, <4>1 DEF NotBehind
      <3> QED BY <1>2, <3>1, <3>2
    <2>7. StatusKeeper(t, k)'
      BY <1>1, <2>2, <2>4, <2>5, <2>6 DEF StatusKeeper
    <2> QED BY <2>4, <2>7
  <1>6. ASSUME NEW k \in 1..Len(log'), log'[k] # Torn, PastGate(log'[k].status)
        PROVE  log'[k].task \in supplied
    <2>1. (k \in 1..Len(log) /\ log'[k] = log[k]) \/ (k \in 1..Len(disk) /\ log'[k] = disk[k])
      BY <1>2, <1>3, <1>6
    <2> QED BY <1>6, <2>1 DEF GateInv, SuppliedInv
  <1>7. port = "python" => Ordered(log')
    <2> SUFFICES ASSUME port = "python", NEW j \in 1..Len(log'), NEW k \in 1..Len(log'), j < k,
                        log'[j] # Torn, log'[k] # Torn, log'[j].task = log'[k].task
                 PROVE  Rank(log'[j].status) <= Rank(log'[k].status)
      BY DEF Ordered
    <2>1. /\ Len(disk) <= Len(log) /\ \A i \in 1..Len(disk) : log[i] = disk[i]
          /\ Ordered(log)
      BY DEF GateInv, GateFileInv, PythonInv
    <2>2. \A i \in 1..Len(log') : log'[i] # Torn => i \in 1..Len(log) /\ log'[i] = log[i]
      BY <1>2, <1>3, <2>1
    <2>3. /\ j \in 1..Len(log) /\ log'[j] = log[j] /\ log[j] # Torn
          /\ k \in 1..Len(log) /\ log'[k] = log[k] /\ log[k] # Torn
      BY <2>2
    <2> QED BY <2>1, <2>3 DEF Ordered
  <1>8. /\ disk' \in Seq(Cell)
        /\ \A k \in 1..Len(disk') : disk'[k] # Torn /\ PastGate(disk'[k].status) => disk'[k].task \in supplied
        /\ Len(disk') <= Len(log') /\ \A k \in 1..Len(disk') : log'[k] = disk'[k]
    BY <1>1, <1>2, <1>3, <1>6
  <1> QED BY <1>1, <1>2, <1>4, <1>5, <1>6, <1>7, <1>8, StoppedGateInv

\* Every step keeps the gate's invariant.
LEMMA GateStepKeeps ==
  ASSUME GoWritesSucceed, GateInv, [GateNext]_gatevars PROVE GateInv'
  <1>1. CASE UNCHANGED gatevars
    <2>1. UNCHANGED <<port, log, disk, gate, status, buf, pc, pending, acked, supplied,
                      crashes, losses, faults>>
      BY <1>1 DEF gatevars
    <2> QED BY <2>1, AnswerInv
  <1>2. CASE OpenGate /\ UNCHANGED port
    BY <1>2, OpenGateInv
  <1>3. CASE Close /\ UNCHANGED port
    BY <1>3, CloseInv
  <1>4. ASSUME NEW t \in Tasks, UNCHANGED port,
               (\E needs_approval \in BOOLEAN : Create(t, needs_approval)) \/ SupplyInput(t) \/ Run(t)
        PROVE  GateInv'
    BY <1>4, OperationInv
  <1>5. CASE (SeekWrite \/ Flush \/ Fsync \/ Ack) /\ UNCHANGED port
    BY <1>5, SeekWriteInv, FlushInv, FsyncInv, AckInv
  <1>6. CASE (Fault \/ ProcessCrash \/ PowerLoss) /\ UNCHANGED port
    BY <1>6, FaultInv, CrashInv, PowerLossInv
  <1> QED BY <1>1, <1>2, <1>3, <1>4, <1>5, <1>6 DEF GateNext

\* The gate's inductive invariant holds in every behaviour, when no write of
\* the Go gate fails.
THEOREM GateInvariant ==
  ASSUME GoWritesSucceed
  PROVE  GateSpec => []GateInv
  BY GateInitInv, GateStepKeeps, PTL DEF GateSpec

\* Through crashes and power losses of either port, and I/O errors of Python's:
\* no task is past a gate that nobody opened, no status a caller was told of is
\* behind when the gate is open again, and the Go gate always opens again
\* (channels.WorkflowGate.run, _persist, _replay).
THEOREM GateHoldsThrough ==
  ASSUME GoWritesSucceed
  PROVE  GateSpec => []GateHolds
  <1>1. GateInv => GateHolds
    <2> SUFFICES ASSUME GateInv, gate = "open", NEW t \in Tasks, status[t] = "running" PROVE t \in supplied
      BY DEF GateInv, GateHolds, GateNeverBypassed
    <2>1. PastGate(status[t])
      BY RankIs DEF PastGate
    <2> QED BY <2>1 DEF GateInv, SuppliedInv
  <1> QED BY <1>1, GateInvariant, PTL

\* What a replay of the disk finds.
Found(f, t) == Rank(LastStatus(ReadablePart(f), t))

\* A replay of the disk finds every acknowledged status.
AckedFound == \A t \in Tasks : Found(disk, t) >= Rank(acked[t])

LEMMA DiskFinds == GateInv => AckedFound
  <1> SUFFICES ASSUME GateInv, NEW t \in Tasks PROVE Found(disk, t) >= Rank(acked[t])
    BY DEF AckedFound
  <1> DEFINE f == ReadablePart(disk)
  <1>1. /\ f \in Seq(Cell) /\ Readable(f) /\ Len(f) \in Nat /\ Len(f) <= Len(disk)
        /\ \A k \in 1..Len(f) : f[k] = disk[k]
        /\ \A n \in 0..Len(disk) : (\A j \in 1..n : disk[j] # Torn) => n <= Len(f)
    BY GateTyped, ReadablePartIs
  <1>2. Found(disk, t) = Rank(LastStatus(f, t))
    BY DEF Found
  <1> HIDE DEF f
  <1>3. CASE acked[t] = "unknown"
    BY <1>2, <1>3, RankIs
  <1>4. CASE acked[t] # "unknown"
    <2>1. PICK k \in 1..Len(log) : StatusKeeper(t, k)
      BY <1>4 DEF GateInv, AckedInv
    <2>2. /\ k <= Len(disk) /\ \A j \in 1..k : disk[j] # Torn
          /\ log[k].task = t /\ \A j \in 1..k : log[j] = disk[j]
      BY <2>1 DEF StatusKeeper
    <2>3. k \in 1..k /\ k \in 0..Len(disk)
      BY <2>1, <2>2, GateTyped
    <2>4. k \in 1..Len(f)
      BY <1>1, <2>1, <2>2, <2>3
    <2>5. f[k].task = t
      BY <1>1, <2>2, <2>3, <2>4
    <2>6. PICK m \in k..Len(f) : f[m].task = t /\ LastStatus(f, t) = f[m].status
      BY <1>1, <2>4, <2>5, LastStatusIs
    <2>7. m \in 1..Len(f) /\ m >= k /\ m \in 1..Len(disk)
      BY <1>1, <2>4, <2>6, GateTyped
    <2>8. disk[m] = f[m] /\ disk[m] # Torn
      BY <1>1, <2>7 DEF Readable
    <2> QED BY <1>2, <2>1, <2>6, <2>7, <2>8 DEF StatusKeeper, NotBehind
  <1> QED BY <1>3, <1>4

\* A file that keeps the readable start of another, and in which the records of
\* a task go forward, is not behind it.
LEMMA FoundForward ==
  ASSUME NEW f \in Seq(Cell), NEW g \in Seq(Cell), NEW t \in Tasks, Ordered(g),
         \A k \in 1..Len(f) : k <= Len(g) /\ g[k] = f[k]
  PROVE  Found(g, t) >= Found(f, t)
  <1> DEFINE u == ReadablePart(f)
             v == ReadablePart(g)
  <1>1. /\ u \in Seq(Cell) /\ Readable(u) /\ Len(u) \in Nat /\ Len(u) <= Len(f)
        /\ \A k \in 1..Len(u) : u[k] = f[k]
    BY ReadablePartIs
  <1>2. /\ v \in Seq(Cell) /\ Readable(v) /\ Len(v) \in Nat /\ Len(v) <= Len(g)
        /\ \A k \in 1..Len(v) : v[k] = g[k]
        /\ \A n \in 0..Len(g) : (\A j \in 1..n : g[j] # Torn) => n <= Len(v)
    BY ReadablePartIs
  <1>3. Found(f, t) = Rank(LastStatus(u, t)) /\ Found(g, t) = Rank(LastStatus(v, t))
    BY DEF Found
  <1> HIDE DEF u, v
  <1>4. Len(f) \in Nat /\ Len(g) \in Nat
    OBVIOUS
  <1>5. CASE LastStatus(u, t) = "unknown"
    BY <1>3, <1>5, RankIs
  <1>6. CASE LastStatus(u, t) # "unknown"
    <2>1. PICK m \in 1..Len(u) : u[m].task = t /\ LastStatus(u, t) = u[m].status
      BY <1>1, <1>6, LastStatusIs
    <2>2. \A j \in 1..Len(u) : j \in 1..Len(f) /\ j \in 1..Len(g) /\ g[j] = u[j] /\ g[j] # Torn
      BY <1>1, <1>4 DEF Readable
    <2>3. Len(u) \in 0..Len(g)
      <3>1. Len(u) = 0 \/ Len(u) \in 1..Len(u)
        BY <1>1
      <3> QED BY <1>1, <1>4, <2>2, <3>1
    <2>4. m \in 1..Len(v) /\ v[m] = u[m]
      BY <1>1, <1>2, <2>1, <2>2, <2>3
    <2>5. PICK i \in m..Len(v) : v[i].task = t /\ LastStatus(v, t) = v[i].status
      BY <1>2, <2>1, <2>4, LastStatusIs
    <2>6. i \in 1..Len(v) /\ i >= m /\ i \in 1..Len(g) /\ m \in 1..Len(g)
      BY <1>2, <1>4, <2>4, <2>5
    <2>7. v[i] = g[i] /\ g[i] # Torn /\ v[m] = g[m] /\ g[m] # Torn
      BY <1>2, <2>4, <2>6 DEF Readable
    <2>8. CASE i = m
      BY <1>3, <2>1, <2>4, <2>5, <2>8, RankIs
    <2>9. CASE i # m
      <3>1. m < i
        BY <2>6, <2>9
      <3>2. Rank(g[m].status) <= Rank(g[i].status)
        BY <2>1, <2>4, <2>5, <2>6, <2>7, <3>1 DEF Ordered
      <3> QED BY <1>3, <2>1, <2>4, <2>5, <2>7, <3>2, RankIs
    <2> QED BY <2>8, <2>9
  <1> QED BY <1>5, <1>6

\* What a step does to the disk.
LEMMA DiskStep ==
  ASSUME GateInv, GateInv', [GateNext]_gatevars
  PROVE  /\ port' = port
         /\ disk' = disk \/ acked' = acked
         /\ port = "python" => \A t \in Tasks : Found(disk', t) >= Found(disk, t)
  <1>1. port' = port
    BY DEF GateNext, gatevars
  <1>2. CASE disk' = disk
    BY <1>1, <1>2, RankIs DEF Found
  <1>3. CASE Fsync
    <2>1. disk' = log /\ acked' = acked
      BY <1>3 DEF Fsync, history
    <2>2. ASSUME port = "python", NEW t \in Tasks PROVE Found(log, t) >= Found(disk, t)
      <3>1. Ordered(log) /\ \A k \in 1..Len(disk) : k <= Len(log) /\ log[k] = disk[k]
        BY <2>2, GateTyped DEF GateInv, PythonInv, GateFileInv
      <3> QED BY <3>1, GateTyped, FoundForward
    <2> QED BY <1>1, <2>1, <2>2
  <1>4. CASE PowerLoss
    <2>1. disk' = log' /\ acked' = acked
      BY <1>4 DEF PowerLoss, Stop, history
    <2>2. ASSUME port = "python", NEW t \in Tasks PROVE Found(log', t) >= Found(disk, t)
      <3>1. PICK d \in {disk, SubSeq(disk, 1, Min({Len(disk), Len(log)}))} :
              log' \in AfterPowerLoss(d, log \o SubSeq(d, Len(log) + 1, Len(d)), Torn)
        BY <1>4 DEF PowerLoss
      <3>2. log \in Seq(Cell) /\ disk \in Seq(Cell)
        BY GateTyped
      <3>3. /\ log' \in Seq(Cell)
            /\ \A k \in 1..Len(log) : k <= Len(disk) => k <= Len(log') /\ log'[k] \in {log[k], disk[k]}
        BY <3>1, <3>2, AfterLossIs, Zenon
      <3>4. Ordered(log')
        BY <1>1, <2>2 DEF GateInv, PythonInv
      <3>5. /\ Len(disk) <= Len(log) /\ \A k \in 1..Len(disk) : log[k] = disk[k]
        BY <2>2 DEF GateInv, GateFileInv
      <3>6. \A k \in 1..Len(disk) : k <= Len(log') /\ log'[k] = disk[k]
        BY <3>3, <3>5, GateTyped
      <3> QED BY <3>2, <3>3, <3>4, <3>6, FoundForward
    <2> QED BY <1>1, <2>1, <2>2
  <1>5. disk' = disk \/ Fsync \/ PowerLoss
    BY DEF GateNext, gatevars, OpenGate, Close, Create, SupplyInput, Run, SeekWrite, Flush, Ack, Fault,
           ProcessCrash, file
  <1> QED BY <1>2, <1>3, <1>4, <1>5

\* What a replay of the disk finds is never behind a status a caller was told
\* of, and in Python never behind what an earlier replay would have found
\* (WorkflowGate._persist, and _replay / replay with its truncation).
THEOREM DurableStatusForward ==
  ASSUME GoWritesSucceed
  PROVE  GateSpec => DurableForward
  <1> DEFINE Forward ==
        \A t \in Tasks :
          LET found == Rank(LastStatus(ReadablePart(disk'), t)) IN
          /\ found >= Rank(acked[t])
          /\ port = "python" => found >= Rank(LastStatus(ReadablePart(disk), t))
  <1>1. GateInv /\ GateInv' /\ AckedFound /\ AckedFound' /\ [GateNext]_gatevars => Forward
    <2> SUFFICES ASSUME GateInv, GateInv', AckedFound, AckedFound', [GateNext]_gatevars, NEW t \in Tasks
                 PROVE  /\ Found(disk', t) >= Rank(acked[t])
                        /\ port = "python" => Found(disk', t) >= Found(disk, t)
      BY DEF Found
    <2>1. Found(disk, t) >= Rank(acked[t]) /\ Found(disk', t) >= Rank(acked'[t])
      BY DEF AckedFound
    <2> QED BY <2>1, DiskStep
  <1>2. GateInv /\ GateInv' /\ AckedFound /\ AckedFound' /\ [GateNext]_gatevars => [Forward]_gatevars
    BY <1>1
  <1> QED BY <1>2, GateInvariant, DiskFinds, PTL DEF GateSpec, DurableForward

(***************************************************************************)
(* Both stores                                                             *)
(***************************************************************************)
\* A behaviour of the two stores is one of each.
LEMMA StoresApart == DurableSpec => GateSpec /\ TrackerSpec
  <1>1. DurableInit => GateInit /\ TrackerInit
    BY DEF DurableInit
  <1>2. [DurableNext]_durablevars => [GateNext]_gatevars /\ [TrackerNext]_trackervars
    BY DEF DurableNext, durablevars
  <1> QED BY <1>1, <1>2, PTL DEF DurableSpec, GateSpec, TrackerSpec

\* Neither store loses what it acknowledged.
THEOREM StoresKeep ==
  ASSUME GoWritesSucceed
  PROVE  DurableSpec => [](GateHolds /\ TrackerKeeps)
  BY StoresApart, GateHoldsThrough, TrackerKeepsStages, PTL

\* No step of either store takes back what is durable and acknowledged, nor,
\* for a tracker and a Python gate, anything that is durable.
THEOREM StoresGoForward ==
  ASSUME GoWritesSucceed
  PROVE  DurableSpec => LogsGoForward
  BY StoresApart, DurableStatusForward, StagesGoForward, UpdatesStay, PTL DEF LogsGoForward
==============================================================================
