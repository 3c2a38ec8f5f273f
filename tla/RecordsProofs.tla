---------------------------- MODULE RecordsProofs ----------------------------
(***************************************************************************)
(* What is proved of the records that outlive their makers: the receipts   *)
(* of ordering authorities and the logs of relays and rooms (OrderedLogs), *)
(* identities and principals (Identities), the logs and bundles that are   *)
(* verified away from the parties (ProofRecords), the chains of names,     *)
(* tasks, consents and directories (SignedChains, Descriptions), who can   *)
(* be accused (Accusations), and the gateway's statements (Gateway).       *)
(*                                                                         *)
(* The replay of a room, the causal order of a log, and root, path and     *)
(* recomputed root of a Merkle tree are recursive functions.  Their values *)
(* are found by induction up to the length of the log (AllUpTo), which     *)
(* follows from the well-ordering of the natural numbers (LeastOf).        *)
(***************************************************************************)
EXTENDS Accusations, Identities, Gateway, ProofRecords,
        SequenceTheorems, FiniteSetTheorems, WellFoundedInduction, TLAPS

(***************************************************************************)
(* Induction over the natural numbers                                      *)
(***************************************************************************)
\* Natural numbers are well ordered: a set of them has a least element.
LEMMA LeastOf ==
  ASSUME NEW T \in SUBSET Nat, T # {}
  PROVE  \E m \in T : \A y \in T : m <= y
  <1> DEFINE R == {ss \in Nat \X Nat : ss[1] < ss[2]}
  <1>1. IsWellFoundedOn(R, Nat)
    BY NatLessThanWellFounded, Zenon DEF OpToRel
  <1>2. \A x, y \in Nat : <<x, y>> \in R <=> x < y
    OBVIOUS
  <1> HIDE DEF R
  <1>3. PICK m \in T : \A y \in Nat : <<y, m>> \in R => ~(y \in T)
    BY <1>1, WFMin, Zenon
  <1>4. \A y \in T : ~(y < m)
    BY <1>2, <1>3, Zenon
  <1> QED BY <1>3, <1>4

\* Induction up to a bound, as a fact about sets.
LEMMA AllUpTo ==
  ASSUME NEW n \in Nat, NEW G, 0 \in G, \A k \in 0..n : k < n /\ k \in G => k + 1 \in G
  PROVE  \A k \in 0..n : k \in G
  <1> DEFINE Out == {k \in 0..n : k \notin G}
  <1> SUFFICES ASSUME Out # {} PROVE FALSE
    OBVIOUS
  <1>0. Out \in SUBSET Nat
    OBVIOUS
  <1>1. PICK m \in Out : \A y \in Out : m <= y
    BY <1>0, LeastOf
  <1>2. m \in 1..n /\ m - 1 \in 0..n
    OBVIOUS
  <1>3. m - 1 \in G
    BY <1>1, <1>2
  <1> QED BY <1>1, <1>2, <1>3

(***************************************************************************)
(* Logs of receipts                                                        *)
(***************************************************************************)
\* None of these objects takes a lock: one thread calls them at a time.
OneThread == \A t, u \in Threads : t = u

\* The relay made its own authority, and each room was given one of its own.
OwnAuthorities ==
  /\ \A r \in RoomIds : AuthOf[r] # RelayAuth
  /\ \A r, m \in RoomIds : AuthOf[r] = AuthOf[m] => r = m

RepBody(log, f, n) ==
  IF n = 0 THEN [members |-> << >>, owners |-> {}] ELSE Effect(log[n].obj, f[n - 1])
RepFn(log) == CHOOSE f : f = [n \in 0..Len(log) |-> RepBody(log, f, n)]

LEMMA RepIs == ASSUME NEW log PROVE Replayed(log) = RepFn(log)[Len(log)]
  BY Zenon DEF Replayed, RepFn, RepBody

\* The replay of a log is well founded.
LEMMA RepFnIs ==
  ASSUME NEW log, NEW N \in Nat, N = Len(log)
  PROVE  \A n \in 0..N : RepFn(log)[n] = RepBody(log, RepFn(log), n)
  <1> DEFINE G == {k \in 0..N : \E g : g = [n \in 0..k |-> RepBody(log, g, n)]}
  <1>1. 0 \in G
    <2>1. PICK g : g = [n \in 0..0 |-> [members |-> << >>, owners |-> {}]]
      OBVIOUS
    <2>2. \A n \in 0..0 : RepBody(log, g, n) = [members |-> << >>, owners |-> {}]
      BY DEF RepBody
    <2>3. g = [n \in 0..0 |-> RepBody(log, g, n)]
      BY <2>1, <2>2
    <2> QED BY <2>3
  <1>2. ASSUME NEW k \in 0..N, k < N, k \in G PROVE k + 1 \in G
    <2>1. PICK g : g = [n \in 0..k |-> RepBody(log, g, n)]
      BY <1>2
    <2>2. PICK h : h = [n \in 0..(k + 1) |-> IF n = k + 1 THEN RepBody(log, g, n) ELSE g[n]]
      OBVIOUS
    <2>3. \A n \in 0..k : h[n] = g[n] /\ g[n] = RepBody(log, g, n)
      <3>1. \A n \in 0..k : g[n] = RepBody(log, g, n)
        BY <2>1
      <3>2. \A n \in 0..k : n \in 0..(k + 1) /\ n # k + 1
        OBVIOUS
      <3>3. \A n \in 0..k : h[n] = g[n]
        BY <2>2, <3>2
      <3> QED BY <3>1, <3>3
    <2>4. \A n \in 0..(k + 1) : RepBody(log, h, n) = RepBody(log, g, n)
      <3> SUFFICES ASSUME NEW n \in 0..(k + 1) PROVE RepBody(log, h, n) = RepBody(log, g, n)
        OBVIOUS
      <3>1. CASE n = 0
        BY <3>1 DEF RepBody
      <3>2. CASE n # 0
        <4>1. n - 1 \in 0..k
          BY <3>2
        <4>2. h[n - 1] = g[n - 1]
          BY <2>3, <4>1
        <4> QED BY <4>2 DEF RepBody
      <3> QED BY <3>1, <3>2
    <2>5. \A n \in 0..(k + 1) : h[n] = RepBody(log, h, n)
      <3> SUFFICES ASSUME NEW n \in 0..(k + 1) PROVE h[n] = RepBody(log, g, n)
        BY <2>4
      <3>1. CASE n = k + 1
        BY <2>2, <3>1
      <3>2. CASE n # k + 1
        <4>1. n \in 0..k
          BY <3>2
        <4> QED BY <2>3, <4>1
      <3> QED BY <3>1, <3>2
    <2>6. h = [n \in 0..(k + 1) |-> RepBody(log, h, n)]
      BY <2>2, <2>5
    <2>7. k + 1 \in 0..N
      BY <1>2
    <2> QED BY <2>6, <2>7
  <1>3. N \in G
    <2> HIDE DEF G
    <2>1. \A k \in 0..N : k \in G
      BY <1>1, <1>2, AllUpTo
    <2> QED BY <2>1
  <1>4. \E g : g = [n \in 0..Len(log) |-> RepBody(log, g, n)]
    BY <1>3
  <1>5. PICK f : f = RepFn(log)
    OBVIOUS
  <1>6. f = [n \in 0..Len(log) |-> RepBody(log, f, n)]
    BY <1>4, <1>5, Zenon DEF RepFn
  <1>7. \A n \in 0..N : f[n] = RepBody(log, f, n)
    BY <1>6
  <1> QED BY <1>5, <1>7

LEMMA ReplayedEmpty == Replayed(<< >>) = [members |-> << >>, owners |-> {}]
  <1>1. PICK f : f = RepFn(<< >>)
    OBVIOUS
  <1>2. f[0] = RepBody(<< >>, f, 0)
    BY <1>1, RepFnIs
  <1>3. f[0] = [members |-> << >>, owners |-> {}]
    BY <1>2 DEF RepBody
  <1>4. Len(<< >>) = 0
    OBVIOUS
  <1> QED BY <1>1, <1>3, <1>4, RepIs

\* One more receipt is one more operation.
LEMMA ReplayedAppend ==
  ASSUME NEW S, NEW log \in Seq(S), NEW q \in S
  PROVE  Replayed(Append(log, q)) = Effect(q.obj, Replayed(log))
  <1>1. PICK N \in Nat : N = Len(log)
    OBVIOUS
  <1>2. PICK more : more = Append(log, q)
    OBVIOUS
  <1>3. Len(more) = N + 1 /\ more[N + 1] = q /\ \A i \in 1..N : more[i] = log[i]
    BY <1>1, <1>2
  <1>4. PICK f : f = RepFn(log)
    OBVIOUS
  <1>5. PICK g : g = RepFn(more)
    OBVIOUS
  <1>6. \A n \in 0..N : f[n] = RepBody(log, f, n)
    BY <1>1, <1>4, RepFnIs
  <1>7. \A n \in 0..(N + 1) : g[n] = RepBody(more, g, n)
    BY <1>3, <1>5, RepFnIs
  <1> DEFINE G == {k \in 0..N : g[k] = f[k]}
  <1>8. 0 \in G
    <2>1. 0 \in 0..N /\ 0 \in 0..(N + 1)
      OBVIOUS
    <2>2. f[0] = [members |-> << >>, owners |-> {}]
      BY <1>6, <2>1 DEF RepBody
    <2>3. g[0] = [members |-> << >>, owners |-> {}]
      BY <1>7, <2>1 DEF RepBody
    <2> QED BY <2>1, <2>2, <2>3, Zenon
  <1>9. ASSUME NEW k \in 0..N, k < N, k \in G PROVE k + 1 \in G
    <2>1. k + 1 \in 1..N /\ k + 1 \in 0..N /\ k + 1 \in 0..(N + 1) /\ (k + 1) - 1 = k /\ k + 1 # 0
      BY <1>9
    <2>2. f[k + 1] = Effect(log[k + 1].obj, f[k])
      BY <1>6, <2>1 DEF RepBody
    <2>3. g[k + 1] = Effect(more[k + 1].obj, g[k])
      BY <1>7, <2>1 DEF RepBody
    <2>4. more[k + 1] = log[k + 1] /\ g[k] = f[k]
      BY <1>3, <1>9, <2>1
    <2>5. g[k + 1] = f[k + 1]
      BY <2>2, <2>3, <2>4, Zenon
    <2> QED BY <2>1, <2>5
  <1>10. g[N] = f[N]
    <2>1. \A k \in 0..N : k \in G
      <3> HIDE DEF G
      <3> QED BY <1>8, <1>9, AllUpTo
    <2> QED BY <2>1
  <1>11. g[N + 1] = Effect(q.obj, g[N])
    <2>1. N + 1 \in 0..(N + 1) /\ N + 1 # 0 /\ (N + 1) - 1 = N
      OBVIOUS
    <2> QED BY <1>3, <1>7, <2>1 DEF RepBody
  <1>12. Replayed(more) = g[N + 1] /\ Replayed(log) = f[N]
    BY <1>1, <1>3, <1>4, <1>5, RepIs
  <1> QED BY <1>2, <1>10, <1>11, <1>12

\* The auditor of an authority keeps one delivered receipt for each position; any other object
\* delivered at that position has been proven against it.
AuditInv ==
  /\ delivered \subseteq issued
  /\ DOMAIN audited = Authorities
  /\ \A a \in Authorities : \A s \in DOMAIN audited[a] :
       audited[a][s] \in delivered /\ audited[a][s].by = a /\ audited[a][s].seq = s
  /\ \A r \in delivered :
       /\ r.by \in Authorities /\ r.seq \in DOMAIN audited[r.by]
       /\ audited[r.by][r.seq].obj = r.obj \/ \E p \in forkproofs : p.signer = r.by /\ p.a.seq = r.seq
  /\ \A p \in forkproofs :
       /\ p.a \in delivered /\ p.b \in delivered /\ p.a.by = p.signer /\ p.b.by = p.signer
       /\ p.a.seq = p.b.seq /\ p.a.obj # p.b.obj

LEMMA AuditInitInv == ASSUME LogsInit PROVE AuditInv
  BY DEF LogsInit, AuditInv

LEMMA AuditKept == ASSUME AuditInv, issued \subseteq issued', UNCHANGED auditor PROVE AuditInv'
  BY DEF AuditInv, auditor

LEMMA ObserveAudit ==
  ASSUME AuditInv, NEW a \in Watched, NEW r \in issued, AuditorObserve(a, r), issued' = issued
  PROVE  AuditInv'
  <1>1. a \in Authorities /\ r.by = a /\ delivered' = delivered \cup {r}
    BY OrderedLogsConstants DEF AuditorObserve
  <1>2. delivered' \subseteq issued'
    BY <1>1 DEF AuditInv
  <1>3. CASE r.seq \notin DOMAIN audited[a]
    <2>1. PICK seen : seen = [s \in DOMAIN audited[a] \cup {r.seq} |-> IF s = r.seq THEN r ELSE audited[a][s]]
      OBVIOUS
    <2>2. audited' = [audited EXCEPT ![a] = seen] /\ forkproofs' = forkproofs
      BY <1>3, <2>1 DEF AuditorObserve
    <2>3. DOMAIN audited' = Authorities /\ audited'[a] = seen /\ \A b \in Authorities : b # a => audited'[b] = audited[b]
      BY <1>1, <2>2 DEF AuditInv
    <2>4. DOMAIN seen = DOMAIN audited[a] \cup {r.seq} /\ seen[r.seq] = r /\ \A s \in DOMAIN audited[a] : seen[s] = audited[a][s]
      BY <1>3, <2>1
    <2>5. ASSUME NEW b \in Authorities, NEW s \in DOMAIN audited'[b]
          PROVE  audited'[b][s] \in delivered' /\ audited'[b][s].by = b /\ audited'[b][s].seq = s
      <3>1. CASE b = a /\ s = r.seq
        BY <1>1, <2>3, <2>4, <3>1
      <3>2. CASE b = a /\ s # r.seq
        <4>1. s \in DOMAIN audited[a] /\ audited'[b][s] = audited[a][s]
          BY <2>3, <2>4, <2>5, <3>2
        <4> QED BY <1>1, <3>2, <4>1 DEF AuditInv
      <3>3. CASE b # a
        <4>1. s \in DOMAIN audited[b] /\ audited'[b][s] = audited[b][s]
          BY <2>3, <2>5, <3>3
        <4> QED BY <1>1, <4>1 DEF AuditInv
      <3> QED BY <3>1, <3>2, <3>3
    <2>6. ASSUME NEW q \in delivered'
          PROVE  /\ q.by \in Authorities /\ q.seq \in DOMAIN audited'[q.by]
                 /\ audited'[q.by][q.seq].obj = q.obj \/ \E p \in forkproofs' : p.signer = q.by /\ p.a.seq = q.seq
      <3>1. CASE q = r
        BY <1>1, <2>3, <2>4, <3>1
      <3>2. CASE q # r
        <4>1. /\ q.by \in Authorities /\ q.seq \in DOMAIN audited[q.by]
              /\ audited[q.by][q.seq].obj = q.obj \/ \E p \in forkproofs : p.signer = q.by /\ p.a.seq = q.seq
          BY <1>1, <2>6, <3>2 DEF AuditInv
        <4>2. q.seq \in DOMAIN audited'[q.by] /\ audited'[q.by][q.seq] = audited[q.by][q.seq]
          BY <2>3, <2>4, <4>1
        <4> QED BY <2>2, <4>1, <4>2
      <3> QED BY <3>1, <3>2
    <2>7. ASSUME NEW p \in forkproofs'
          PROVE  /\ p.a \in delivered' /\ p.b \in delivered' /\ p.a.by = p.signer /\ p.b.by = p.signer
                 /\ p.a.seq = p.b.seq /\ p.a.obj # p.b.obj
      BY <1>1, <2>2, <2>7 DEF AuditInv
    <2> QED BY <1>2, <2>3, <2>5, <2>6, <2>7, Zenon DEF AuditInv
  <1>4. CASE r.seq \in DOMAIN audited[a]
    <2>1. PICK old : old = audited[a][r.seq]
      OBVIOUS
    <2>2. old \in delivered /\ old.by = a /\ old.seq = r.seq
      BY <1>1, <1>4, <2>1 DEF AuditInv
    <2>3. audited' = audited
      BY <1>4 DEF AuditorObserve
    <2>4. PICK f : f = ForkProof(a, old, r)
      OBVIOUS
    <2>5. f.signer = a /\ f.a = old /\ f.b = r
      BY <2>4 DEF ForkProof
    <2>6. (old.obj = r.obj /\ forkproofs' = forkproofs) \/ (old.obj # r.obj /\ forkproofs' = forkproofs \cup {f})
      BY <1>4, <2>1, <2>4 DEF AuditorObserve
    <2>7. ASSUME NEW q \in delivered'
          PROVE  /\ q.by \in Authorities /\ q.seq \in DOMAIN audited[q.by]
                 /\ audited[q.by][q.seq].obj = q.obj \/ \E p \in forkproofs' : p.signer = q.by /\ p.a.seq = q.seq
      <3>1. CASE q = r
        BY <1>1, <1>4, <2>1, <2>2, <2>5, <2>6, <3>1
      <3>2. CASE q # r
        BY <1>1, <2>6, <2>7, <3>2 DEF AuditInv
      <3> QED BY <3>1, <3>2
    <2>8. ASSUME NEW p \in forkproofs'
          PROVE  /\ p.a \in delivered' /\ p.b \in delivered' /\ p.a.by = p.signer /\ p.b.by = p.signer
                 /\ p.a.seq = p.b.seq /\ p.a.obj # p.b.obj
      <3>1. CASE p \in forkproofs
        BY <1>1, <3>1 DEF AuditInv
      <3>2. CASE p \notin forkproofs
        <4>1. p = f /\ old.obj # r.obj
          BY <2>6, <2>8, <3>2
        <4> QED BY <1>1, <2>2, <2>5, <4>1
      <3> QED BY <3>1, <3>2
    <2>9. \A b \in Authorities : \A s \in DOMAIN audited[b] :
             audited[b][s] \in delivered' /\ audited[b][s].by = b /\ audited[b][s].seq = s
      BY <1>1 DEF AuditInv
    <2>10. DOMAIN audited = Authorities
      BY DEF AuditInv
    <2> QED BY <1>2, <2>3, <2>7, <2>8, <2>9, <2>10 DEF AuditInv
  <1> QED BY <1>3, <1>4

LEMMA StartAudit ==
  ASSUME AuditInv, NEW t, NEW p, Start(t, p)
  PROVE  AuditInv'
  <1>1. issued \subseteq issued' /\ UNCHANGED auditor
    BY DEF Start
  <1> QED BY <1>1, AuditKept

LEMMA AuditStepKeeps == ASSUME AuditInv, [LogsNext]_logsvars PROVE AuditInv'
  <1>1. ASSUME NEW t \in Threads, NEW obj, Route(t, obj) PROVE AuditInv'
    BY <1>1, StartAudit DEF Route
  <1>2. ASSUME NEW t \in Threads, NEW r, Found(t, r) PROVE AuditInv'
    <2>1. PICK p : Start(t, p)
      BY <1>2, Zenon DEF Found, CreateRoom
    <2> QED BY <2>1, StartAudit
  <1>3. ASSUME NEW t \in Threads, NEW r, Submit(t, r) PROVE AuditInv'
    <2>1. PICK p : Start(t, p)
      <3>1. PICK o, op : Apply(t, r, o, op)
        BY <1>3, Zenon DEF Submit
      <3> QED BY <3>1 DEF Apply
    <2> QED BY <2>1, StartAudit
  <1>4. ASSUME NEW t \in Threads, Commit(t) PROVE AuditInv'
    BY <1>4, AuditKept DEF Commit
  <1>5. ASSUME NEW a \in Watched, NEW r \in issued, AuditorObserve(a, r), UNCHANGED <<authority, trail, room, pend, authorityRestarts>>
        PROVE  AuditInv'
    BY <1>5, ObserveAudit DEF authority
  <1>6. CASE AuthorityRestart
    BY <1>6, AuditKept DEF AuthorityRestart
  <1>7. CASE UNCHANGED logsvars
    BY <1>7, AuditKept DEF logsvars, auditor
  <1> QED BY <1>1, <1>2, <1>3, <1>4, <1>5, <1>6, <1>7, Zenon DEF LogsNext

\* With any number of threads, restarts and deliveries: two objects at one position never go
\* unnoticed once both were delivered, and the proof convinces whoever has the key
\* (audit.Auditor.observe, audit.ForkProof.verify).
THEOREM EquivocationAlwaysProven == LogsSpec => []EquivocationProven
  <1>1. LogsInit => AuditInv
    BY AuditInitInv
  <1>2. AuditInv /\ [LogsNext]_logsvars => AuditInv'
    BY AuditStepKeeps
  <1>3. ASSUME AuditInv PROVE EquivocationProven
    <2>1. ASSUME NEW r \in delivered, NEW q \in delivered, r.by = q.by, r.seq = q.seq, r.obj # q.obj
          PROVE  \E p \in forkproofs : p.signer = r.by /\ p.a.seq = r.seq
      BY <1>3, <2>1 DEF AuditInv
    <2>2. ASSUME NEW p \in forkproofs
          PROVE  ForkProofVerify(p, p.signer) = "ok" /\ {p.a, p.b} \subseteq issued
      <3>1. /\ p.a \in issued /\ p.b \in issued /\ p.a.by = p.signer /\ p.b.by = p.signer
            /\ p.a.seq = p.b.seq /\ p.a.obj # p.b.obj /\ p.signer \in Authorities
        BY <1>3 DEF AuditInv
      <3>2. {p.a.by, p.b.by} = {p.signer} /\ p.signer # ""
        BY <3>1, AuthoritiesNamed
      <3> QED BY <3>1, <3>2 DEF ForkProofVerify
    <2> QED BY <2>1, <2>2, Zenon DEF EquivocationProven
  <1> QED BY <1>1, <1>2, <1>3, PTL DEF LogsSpec

\* A log and its authority go together: every receipt chains on the one before, and the
\* authority's head and position are those after the last.
EndOf(log) == IF log = << >> THEN << >> ELSE HeadOf(log[Len(log)])

Chained(log, a) ==
  /\ \A i \in 1..Len(log) :
       /\ log[i].by = a /\ log[i].seq = i - 1
       /\ log[i].prev = IF i = 1 THEN << >> ELSE HeadOf(log[i - 1])
  /\ head[a] = EndOf(log) /\ next[a] = Len(log)

\* The operation was accepted for the room as it is.
Fitting(op, m) ==
  /\ op.epoch = m.epoch
  /\ (m = NoRoom /\ op.op = OP.create) \/ (m # NoRoom /\ OpVerdict(op, m) = "ok")

Busy(t) == pend[t] # Idle

PendInv ==
  \A t \in Threads : Busy(t) =>
    /\ pend[t].receipt \in issued
    /\ pend[t].receipt.prev = head[pend[t].receipt.by] /\ pend[t].receipt.seq = next[pend[t].receipt.by]
    /\ \/ pend[t].user = "relay" /\ pend[t].receipt.by = RelayAuth
       \/ /\ pend[t].user \in RoomIds /\ pend[t].receipt.by = AuthOf[pend[t].user]
          /\ Fitting(pend[t].receipt.obj, room[pend[t].user])

ChainInv ==
  /\ trail \in Seq(issued) /\ Chained(trail, RelayAuth)
  /\ \A r \in RoomIds : room[r].log \in Seq(issued) /\ Chained(room[r].log, AuthOf[r])

\* What was signed is in the log of whoever it was signed for, unless it is being appended.
InItsLog(q) ==
  \/ q.by = RelayAuth /\ q.seq + 1 \in 1..Len(trail) /\ trail[q.seq + 1] = q
  \/ \E r \in RoomIds : q.by = AuthOf[r] /\ q.seq + 1 \in 1..Len(room[r].log) /\ room[r].log[q.seq + 1] = q

IssuedInv ==
  authorityRestarts = 0 =>
    \A q \in issued : q.seq \in Nat /\ (InItsLog(q) \/ \E t \in Threads : Busy(t) /\ pend[t].receipt = q)

Owned(m) == m.owners # {} /\ \A s \in m.owners : s \in DOMAIN m.members /\ m.members[s] = ROLE.owner

RoomInv ==
  \A r \in RoomIds :
    /\ room[r].epoch = Len(room[r].log)
    /\ \A i \in 1..Len(room[r].log) : room[r].log[i].obj.epoch = i - 1
    /\ [members |-> room[r].members, owners |-> room[r].owners] = Replayed(room[r].log)
    /\ room[r] # NoRoom => Owned(room[r])

LogTypes == /\ DOMAIN head = Authorities /\ DOMAIN next = Authorities /\ DOMAIN room = RoomIds /\ DOMAIN pend = Threads
            /\ authorityRestarts \in Nat

LogsInv == LogTypes /\ PendInv /\ ChainInv /\ IssuedInv /\ RoomInv

LEMMA FreshInv ==
  ASSUME head' = [a \in Authorities |-> << >>], next' = [a \in Authorities |-> 0],
         trail' = << >>, room' = [r \in RoomIds |-> NoRoom], pend' = [t \in Threads |-> Idle]
  PROVE  PendInv' /\ ChainInv' /\ RoomInv'
  <1>1. \A r \in RoomIds : room'[r].log = << >> /\ room'[r] = NoRoom /\ room'[r].epoch = 0
                           /\ room'[r].members = << >> /\ room'[r].owners = {}
    BY DEF NoRoom
  <1>2. PendInv'
    BY DEF PendInv, Busy
  <1>3. Chained(<< >>, RelayAuth)' /\ \A r \in RoomIds : Chained(<< >>, AuthOf[r])'
    BY OrderedLogsConstants DEF Chained, EndOf
  <1>4. ChainInv'
    <2>1. << >> \in Seq(issued')
      OBVIOUS
    <2>2. trail' = << >>
      OBVIOUS
    <2> QED BY <1>1, <1>3, <2>1, <2>2, Zenon DEF ChainInv
  <1>5. RoomInv'
    <2> SUFFICES ASSUME NEW r \in RoomIds
                 PROVE  /\ room'[r].epoch = Len(room'[r].log)
                        /\ \A i \in 1..Len(room'[r].log) : room'[r].log[i].obj.epoch = i - 1
                        /\ [members |-> room'[r].members, owners |-> room'[r].owners] = Replayed(room'[r].log)
                        /\ room'[r] = NoRoom
      BY Zenon DEF RoomInv
    <2>1. Len(<< >>) = 0 /\ 1..0 = {}
      OBVIOUS
    <2> QED BY <1>1, <2>1, ReplayedEmpty, Zenon
  <1> QED BY <1>2, <1>4, <1>5

LEMMA LogsInitInv == ASSUME LogsInit PROVE LogsInv
  <1>1. \A r \in RoomIds : room[r].log = << >> /\ room[r] = NoRoom /\ room[r].epoch = 0
                           /\ room[r].members = << >> /\ room[r].owners = {}
    BY DEF NoRoom, LogsInit
  <1>2. PendInv
    BY DEF PendInv, Busy, LogsInit
  <1>3. Chained(<< >>, RelayAuth) /\ \A r \in RoomIds : Chained(<< >>, AuthOf[r])
    BY OrderedLogsConstants DEF Chained, EndOf, LogsInit
  <1>4. ChainInv
    <2>1. << >> \in Seq(issued)
      OBVIOUS
    <2>2. trail = << >>
      BY DEF LogsInit
    <2> QED BY <1>1, <1>3, <2>1, <2>2, Zenon DEF ChainInv
  <1>5. RoomInv
    <2> SUFFICES ASSUME NEW r \in RoomIds
                 PROVE  /\ room[r].epoch = Len(room[r].log)
                        /\ \A i \in 1..Len(room[r].log) : room[r].log[i].obj.epoch = i - 1
                        /\ [members |-> room[r].members, owners |-> room[r].owners] = Replayed(room[r].log)
                        /\ room[r] = NoRoom
      BY Zenon DEF RoomInv
    <2>1. Len(<< >>) = 0 /\ 1..0 = {}
      OBVIOUS
    <2> QED BY <1>1, <2>1, ReplayedEmpty, Zenon
  <1>6. LogTypes /\ IssuedInv
    BY DEF LogsInit, LogTypes, IssuedInv
  <1> QED BY <1>2, <1>4, <1>5, <1>6 DEF LogsInv

\* An append begins: the receipt is signed over head and position.
LEMMA StartKeeps ==
  ASSUME OneThread, LogsInv, NEW t \in Threads, NEW u, NEW a \in Authorities, NEW obj, pend[t] = Idle,
         Start(t, [user |-> u, receipt |-> AuditReceipt(a, obj)]),
         \/ u = "relay" /\ a = RelayAuth
         \/ u \in RoomIds /\ a = AuthOf[u] /\ Fitting(obj, room[u])
  PROVE  LogsInv'
  <1>1. PICK q : q = AuditReceipt(a, obj)
    OBVIOUS
  <1>2. q.by = a /\ q.prev = head[a] /\ q.seq = next[a] /\ q.obj = obj
    BY <1>1 DEF AuditReceipt
  <1>3. /\ issued' = issued \cup {q} /\ pend' = [pend EXCEPT ![t] = [user |-> u, receipt |-> q]]
        /\ head' = head /\ next' = next /\ trail' = trail /\ room' = room /\ authorityRestarts' = authorityRestarts
    BY <1>1 DEF Start
  <1>4. \A v \in Threads : v = t
    BY DEF OneThread
  <1>5. pend'[t] = [user |-> u, receipt |-> q] /\ DOMAIN pend' = Threads
    BY <1>3 DEF LogsInv, LogTypes
  <1>6. pend'[t].user = u /\ pend'[t].receipt = q
    BY <1>5
  <1>7. Busy(t)'
    BY <1>5 DEF Busy, Idle
  <1>8. PendInv'
    <2>1. u \in RoomIds => (Fitting(obj, room[u])' <=> Fitting(obj, room[u]))
      BY <1>3 DEF Fitting, OpVerdict
    <2>2. /\ pend'[t].receipt \in issued'
          /\ pend'[t].receipt.prev = head'[pend'[t].receipt.by] /\ pend'[t].receipt.seq = next'[pend'[t].receipt.by]
      BY <1>2, <1>3, <1>6
    <2>3. \/ pend'[t].user = "relay" /\ pend'[t].receipt.by = RelayAuth
          \/ /\ pend'[t].user \in RoomIds /\ pend'[t].receipt.by = AuthOf[pend'[t].user]
             /\ Fitting(pend'[t].receipt.obj, room'[pend'[t].user])
      BY <1>2, <1>3, <1>6
    <2> QED BY <1>4, <2>2, <2>3, Zenon DEF PendInv
  <1>9. ChainInv'
    <2>1. \A log, b : Chained(log, b)' <=> Chained(log, b)
      BY <1>3 DEF Chained, EndOf
    <2>2. \A log \in Seq(issued) : log \in Seq(issued')
      BY <1>3
    <2> QED BY <1>3, <2>1, <2>2 DEF LogsInv, ChainInv
  <1>10. IssuedInv'
    <2> SUFFICES ASSUME authorityRestarts = 0, NEW x \in issued'
                 PROVE  x.seq \in Nat /\ (InItsLog(x)' \/ \E v \in Threads : Busy(v)' /\ pend'[v].receipt = x)
      BY <1>3 DEF IssuedInv
    <2>1. CASE x \in issued
      <3>1. x.seq \in Nat /\ InItsLog(x)
        BY <1>4, <2>1 DEF LogsInv, IssuedInv, Busy
      <3>2. InItsLog(x)'
        BY <1>3, <3>1 DEF InItsLog
      <3> QED BY <3>1, <3>2
    <2>2. CASE x \notin issued
      <3>1. x = q
        BY <1>3, <2>2
      <3>2. next[a] \in Nat
        <4>1. (a = RelayAuth => next[a] = Len(trail) /\ trail \in Seq(issued))
              /\ \A r \in RoomIds : a = AuthOf[r] => next[a] = Len(room[r].log) /\ room[r].log \in Seq(issued)
          BY DEF LogsInv, ChainInv, Chained
        <4> QED BY <4>1
      <3> QED BY <1>2, <1>6, <1>7, <3>1, <3>2
    <2> QED BY <2>1, <2>2
  <1>11. RoomInv' /\ LogTypes'
    <2>1. RoomInv'
      BY <1>3, Zenon DEF LogsInv, RoomInv, Owned
    <2>2. LogTypes'
      BY <1>3, <1>5 DEF LogsInv, LogTypes
    <2> QED BY <2>1, <2>2
  <1> QED BY <1>8, <1>9, <1>10, <1>11 DEF LogsInv

LEMMA ChainGrows ==
  ASSUME NEW S, NEW log \in Seq(S), NEW q \in S, NEW a, Chained(log, a),
         q.by = a, q.prev = head[a], q.seq = next[a], head'[a] = HeadOf(q), next'[a] = next[a] + 1
  PROVE  Chained(Append(log, q), a)'
  <1>1. PICK N \in Nat : N = Len(log)
    OBVIOUS
  <1>2. PICK more : more = Append(log, q)
    OBVIOUS
  <1>3. Len(more) = N + 1 /\ more[N + 1] = q /\ (\A i \in 1..N : more[i] = log[i]) /\ more # << >>
    BY <1>1, <1>2
  <1>4. q.seq = N /\ q.prev = IF N = 0 THEN << >> ELSE HeadOf(log[N])
    BY <1>1 DEF Chained, EndOf
  <1>5. ASSUME NEW i \in 1..(N + 1)
        PROVE  /\ more[i].by = a /\ more[i].seq = i - 1
               /\ more[i].prev = IF i = 1 THEN << >> ELSE HeadOf(more[i - 1])
    <2>1. CASE i = N + 1
      <3>1. N # 0 => i # 1 /\ i - 1 \in 1..N /\ i - 1 = N
        BY <2>1
      <3>2. N = 0 => i = 1
        BY <2>1
      <3>3. i - 1 = N
        BY <2>1
      <3> QED BY <1>3, <1>4, <2>1, <3>1, <3>2, <3>3
    <2>2. CASE i # N + 1
      <3>1. i \in 1..N /\ (i # 1 => i - 1 \in 1..N)
        BY <2>2
      <3>2. /\ log[i].by = a /\ log[i].seq = i - 1
            /\ log[i].prev = IF i = 1 THEN << >> ELSE HeadOf(log[i - 1])
        BY <1>1, <3>1 DEF Chained
      <3> QED BY <1>3, <3>1, <3>2
    <2> QED BY <2>1, <2>2
  <1>6. head'[a] = EndOf(more) /\ next'[a] = Len(more)
    BY <1>1, <1>3, <1>4 DEF EndOf
  <1> QED BY <1>2, <1>3, <1>5, <1>6 DEF Chained

LEMMA ChainStays ==
  ASSUME NEW log, NEW a, Chained(log, a), head'[a] = head[a], next'[a] = next[a]
  PROVE  Chained(log, a)'
  BY DEF Chained

\* An accepted operation leaves a room with its owners.
LEMMA EffectOwned ==
  ASSUME NEW op, NEW m, Fitting(op, m), m # NoRoom => Owned(m), NEW k,
         k.members = Effect(op, m).members, k.owners = Effect(op, m).owners
  PROVE  Owned(k)
  <1>1. CASE m = NoRoom
    <2>1. op.op = 0 /\ m.owners = {} /\ DOMAIN m.members = {}
      BY <1>1 DEF Fitting, OP, NoRoom
    <2>2. k.owners = {op.subject} /\ k.members = [s \in {op.subject} |-> 2]
      BY <2>1 DEF Effect, OP, ROLE
    <2> QED BY <2>2 DEF Owned, ROLE
  <1>2. CASE m # NoRoom
    <2>1. m.owners # {} /\ \A s \in m.owners : s \in DOMAIN m.members /\ m.members[s] = 2
      BY <1>2 DEF Owned, ROLE
    <2>2. OpVerdict(op, m) = "ok"
      BY <1>2 DEF Fitting
    <2>3. op.op \in 1..4
      BY <2>2 DEF OpVerdict, OP
    <2>4. CASE op.op = 1
      <3>1. op.subject \notin DOMAIN m.members
        BY <2>2, <2>4 DEF OpVerdict, OP
      <3>2. k.owners = m.owners /\ k.members = [s \in DOMAIN m.members \cup {op.subject} |-> IF s = op.subject THEN op.role ELSE m.members[s]]
        BY <2>4 DEF Effect, OP
      <3> QED BY <2>1, <3>1, <3>2 DEF Owned, ROLE
    <2>5. CASE op.op = 2
      <3>1. op.subject \notin m.owners
        BY <2>2, <2>5 DEF OpVerdict, OP
      <3>2. k.owners = m.owners /\ k.members = [s \in DOMAIN m.members \ {op.subject} |-> m.members[s]]
        BY <2>5 DEF Effect, OP
      <3> QED BY <2>1, <3>1, <3>2 DEF Owned, ROLE
    <2>6. CASE op.op = 3
      <3>1. m.members[op.subject] # 2
        BY <2>2, <2>6 DEF OpVerdict, OP, ROLE
      <3>2. k.owners = m.owners /\ k.members = [s \in DOMAIN m.members \cup {op.subject} |-> IF s = op.subject THEN op.role ELSE m.members[s]]
        BY <2>6 DEF Effect, OP
      <3> QED BY <2>1, <3>1, <3>2 DEF Owned, ROLE
    <2>7. CASE op.op = 4
      <3>1. k.owners = m.owners \cup {op.subject}
            /\ k.members = [s \in DOMAIN m.members \cup {op.subject} |-> IF s = op.subject THEN 2 ELSE m.members[s]]
        BY <2>7 DEF Effect, OP, ROLE
      <3> QED BY <2>1, <3>1 DEF Owned, ROLE
    <2> QED BY <2>3, <2>4, <2>5, <2>6, <2>7
  <1> QED BY <1>1, <1>2

\* An operation looks at members and owners only.
LEMMA EffectOf ==
  ASSUME NEW op, NEW m, NEW k, k = [members |-> m.members, owners |-> m.owners]
  PROVE  [members |-> Effect(op, m).members, owners |-> Effect(op, m).owners] = Effect(op, k)
  <1>1. k.members = m.members /\ k.owners = m.owners
    OBVIOUS
  <1>2. PICK f : f = Effect(op, m)
    OBVIOUS
  <1>3. f = Effect(op, k)
    BY <1>1, <1>2 DEF Effect
  <1>4. \E x, y : f = [members |-> x, owners |-> y]
    BY <1>2 DEF Effect
  <1>5. f = [members |-> f.members, owners |-> f.owners]
    BY <1>4
  <1> QED BY <1>2, <1>3, <1>5

\* What is being appended is the next receipt of its log; with one thread there is no other.
LEMMA CommitFrame ==
  ASSUME OneThread, LogsInv, NEW t \in Threads, Commit(t), NEW q, q = pend[t].receipt
  PROVE  /\ Busy(t) /\ q \in issued /\ q.prev = head[q.by] /\ q.seq = next[q.by] /\ q.by \in Authorities
         /\ head'[q.by] = HeadOf(q) /\ next'[q.by] = next[q.by] + 1
         /\ \A b \in Authorities : b # q.by => head'[b] = head[b] /\ next'[b] = next[b]
         /\ issued' = issued /\ authorityRestarts' = authorityRestarts /\ \A v \in Threads : v = t
         /\ PendInv' /\ LogTypes'
  <1>1. Busy(t) /\ \A v \in Threads : v = t
    BY DEF Commit, Busy, OneThread
  <1>2. /\ q \in issued /\ q.prev = head[q.by] /\ q.seq = next[q.by]
        /\ q.by = RelayAuth \/ (pend[t].user \in RoomIds /\ q.by = AuthOf[pend[t].user])
    BY <1>1 DEF LogsInv, PendInv
  <1>3. q.by \in Authorities
    BY <1>2, OrderedLogsConstants
  <1>4. /\ head' = [head EXCEPT ![q.by] = HeadOf(q)] /\ next' = [next EXCEPT ![q.by] = @ + 1]
        /\ pend' = [pend EXCEPT ![t] = Idle] /\ issued' = issued /\ authorityRestarts' = authorityRestarts
        /\ DOMAIN room' = DOMAIN room
    BY DEF Commit
  <1>5. DOMAIN pend = Threads /\ DOMAIN head = Authorities /\ DOMAIN next = Authorities
    BY DEF LogsInv, LogTypes
  <1>6. PendInv'
    BY <1>1, <1>4, <1>5 DEF PendInv, Busy
  <1>7. LogTypes'
    BY <1>4 DEF LogsInv, LogTypes
  <1> QED BY <1>1, <1>2, <1>3, <1>4, <1>5, <1>6, <1>7

LEMMA CommitRelay ==
  ASSUME OneThread, OwnAuthorities, LogsInv, NEW t \in Threads, Commit(t), pend[t].user = "relay"
  PROVE  LogsInv'
  <1>1. PICK q : q = pend[t].receipt
    OBVIOUS
  <1>2. /\ Busy(t) /\ q \in issued /\ q.prev = head[q.by] /\ q.seq = next[q.by] /\ q.by \in Authorities
        /\ head'[q.by] = HeadOf(q) /\ next'[q.by] = next[q.by] + 1
        /\ \A b \in Authorities : b # q.by => head'[b] = head[b] /\ next'[b] = next[b]
        /\ issued' = issued /\ authorityRestarts' = authorityRestarts /\ \A v \in Threads : v = t
        /\ PendInv' /\ LogTypes'
    BY <1>1, CommitFrame
  <1>3. q.by = RelayAuth
    BY <1>1, <1>2, OrderedLogsConstants DEF LogsInv, PendInv
  <1>4. PICK more : more = Append(trail, q)
    OBVIOUS
  <1>5. trail' = more /\ room' = room
    BY <1>1, <1>4 DEF Commit
  <1>6. trail \in Seq(issued) /\ Chained(trail, RelayAuth) /\ next[RelayAuth] = Len(trail)
    BY DEF LogsInv, ChainInv, Chained
  <1>7. more \in Seq(issued) /\ Len(more) = Len(trail) + 1 /\ more[Len(trail) + 1] = q /\ \A i \in 1..Len(trail) : more[i] = trail[i]
    BY <1>2, <1>4, <1>6
  <1>8. Chained(more, RelayAuth)'
    BY <1>2, <1>3, <1>4, <1>6, ChainGrows
  <1>9. ChainInv'
    <2>1. ASSUME NEW r \in RoomIds PROVE room[r].log \in Seq(issued) /\ Chained(room[r].log, AuthOf[r])'
      <3>1. AuthOf[r] \in Authorities /\ AuthOf[r] # q.by
        BY <1>3, OrderedLogsConstants DEF OwnAuthorities
      <3>2. head'[AuthOf[r]] = head[AuthOf[r]] /\ next'[AuthOf[r]] = next[AuthOf[r]]
        BY <1>2, <3>1
      <3>3. room[r].log \in Seq(issued) /\ Chained(room[r].log, AuthOf[r])
        BY DEF LogsInv, ChainInv
      <3>4. PICK log : log = room[r].log
        OBVIOUS
      <3>5. Chained(log, AuthOf[r])'
        BY <3>2, <3>3, <3>4, ChainStays
      <3>6. room'[r].log = log
        BY <1>5, <3>4
      <3> QED BY <1>5, <3>3, <3>4, <3>5, <3>6, Zenon
    <2>2. \A r \in RoomIds : room'[r].log \in Seq(issued') /\ Chained(room[r].log, AuthOf[r])'
      BY <1>2, <1>5, <2>1, Zenon
    <2>3. trail' \in Seq(issued') /\ Chained(trail, RelayAuth)'
      BY <1>2, <1>5, <1>7, <1>8, Zenon
    <2> QED BY <2>2, <2>3, Zenon DEF ChainInv
  <1>10. IssuedInv'
    <2> SUFFICES ASSUME authorityRestarts = 0, NEW x \in issued PROVE x.seq \in Nat /\ InItsLog(x)'
      BY <1>2 DEF IssuedInv
    <2>1. x.seq \in Nat /\ (InItsLog(x) \/ x = q)
      BY <1>1, <1>2 DEF LogsInv, IssuedInv
    <2>2. CASE x = q
      BY <1>2, <1>3, <1>5, <1>6, <1>7, <2>2 DEF InItsLog
    <2>3. CASE x # q
      BY <1>5, <1>6, <1>7, <2>1, <2>3 DEF InItsLog
    <2> QED BY <2>1, <2>2, <2>3
  <1>11. RoomInv'
    BY <1>5, Zenon DEF LogsInv, RoomInv, Owned
  <1> QED BY <1>2, <1>9, <1>10, <1>11 DEF LogsInv

LEMMA CommitRoom ==
  ASSUME OneThread, OwnAuthorities, LogsInv, NEW t \in Threads, Commit(t), pend[t].user # "relay"
  PROVE  LogsInv'
  <1>1. PICK q : q = pend[t].receipt
    OBVIOUS
  <1>2. /\ Busy(t) /\ q \in issued /\ q.prev = head[q.by] /\ q.seq = next[q.by] /\ q.by \in Authorities
        /\ head'[q.by] = HeadOf(q) /\ next'[q.by] = next[q.by] + 1
        /\ \A b \in Authorities : b # q.by => head'[b] = head[b] /\ next'[b] = next[b]
        /\ issued' = issued /\ authorityRestarts' = authorityRestarts /\ \A v \in Threads : v = t
        /\ PendInv' /\ LogTypes'
    BY <1>1, CommitFrame
  <1>3. PICK m \in RoomIds : m = pend[t].user /\ q.by = AuthOf[m] /\ Fitting(q.obj, room[m])
    BY <1>1, <1>2 DEF LogsInv, PendInv
  <1>4. PICK old : old = room[m]
    OBVIOUS
  <1>5. PICK more : more = Append(old.log, q)
    OBVIOUS
  <1>6. PICK new : new = [members |-> Effect(q.obj, old).members, owners |-> Effect(q.obj, old).owners,
                          epoch |-> old.epoch + 1, log |-> more]
    OBVIOUS
  <1>7. trail' = trail /\ room' = [room EXCEPT ![m] = new]
    BY <1>1, <1>3, <1>4, <1>5, <1>6 DEF Commit
  <1>8. room'[m] = new /\ \A r \in RoomIds : r # m => room'[r] = room[r]
    BY <1>3, <1>7 DEF LogsInv, LogTypes
  <1>9. old.log \in Seq(issued) /\ Chained(old.log, AuthOf[m]) /\ next[AuthOf[m]] = Len(old.log)
    BY <1>3, <1>4 DEF LogsInv, ChainInv, Chained
  <1>10. /\ more \in Seq(issued) /\ Len(more) = Len(old.log) + 1 /\ more[Len(old.log) + 1] = q
         /\ \A i \in 1..Len(old.log) : more[i] = old.log[i]
    BY <1>2, <1>5, <1>9
  <1>11. Chained(more, AuthOf[m])'
    <2>1. PICK a : a = AuthOf[m]
      OBVIOUS
    <2>2. PICK log : log = old.log
      OBVIOUS
    <2>3. /\ log \in Seq(issued) /\ Chained(log, a) /\ q.by = a /\ q.prev = head[a] /\ q.seq = next[a]
          /\ head'[a] = HeadOf(q) /\ next'[a] = next[a] + 1
      BY <1>2, <1>3, <1>9, <2>1, <2>2
    <2>4. Chained(Append(log, q), a)'
      BY <1>2, <2>3, ChainGrows
    <2> QED BY <1>5, <2>1, <2>2, <2>4
  <1>12. ChainInv'
    <2>1. ASSUME NEW r \in RoomIds PROVE room'[r].log \in Seq(issued) /\ Chained(room[r].log, AuthOf[r])'
      <3>1. CASE r = m
        <4>1. room'[r].log = more
          BY <1>6, <1>8, <3>1
        <4> QED BY <1>10, <1>11, <3>1, <4>1, Zenon
      <3>2. CASE r # m
        <4>1. AuthOf[r] \in Authorities /\ AuthOf[r] # q.by
          BY <1>3, <3>2, OrderedLogsConstants DEF OwnAuthorities
        <4>2. head'[AuthOf[r]] = head[AuthOf[r]] /\ next'[AuthOf[r]] = next[AuthOf[r]]
          BY <1>2, <4>1
        <4>3. PICK log : log = room[r].log
          OBVIOUS
        <4>4. log \in Seq(issued) /\ Chained(log, AuthOf[r])
          BY <4>3, Zenon DEF LogsInv, ChainInv
        <4>5. Chained(log, AuthOf[r])'
          BY <4>2, <4>4, ChainStays
        <4>6. room'[r].log = log
          BY <1>8, <3>2, <4>3
        <4> QED BY <4>4, <4>5, <4>6, Zenon
      <3> QED BY <3>1, <3>2
    <2>2. Chained(trail, RelayAuth)'
      <3>1. RelayAuth \in Authorities /\ RelayAuth # q.by
        BY <1>3, OrderedLogsConstants DEF OwnAuthorities
      <3>2. head'[RelayAuth] = head[RelayAuth] /\ next'[RelayAuth] = next[RelayAuth]
        BY <1>2, <3>1
      <3>3. PICK log : log = trail
        OBVIOUS
      <3>4. Chained(log, RelayAuth)'
        BY <3>2, <3>3, ChainStays DEF LogsInv, ChainInv
      <3> QED BY <1>7, <3>3, <3>4, Zenon
    <2>3. trail \in Seq(issued)
      BY DEF LogsInv, ChainInv
    <2> QED BY <1>2, <1>7, <2>1, <2>2, <2>3, Zenon DEF ChainInv
  <1>13. IssuedInv'
    <2> SUFFICES ASSUME authorityRestarts = 0, NEW x \in issued PROVE x.seq \in Nat /\ InItsLog(x)'
      BY <1>2 DEF IssuedInv
    <2>1. x.seq \in Nat /\ (InItsLog(x) \/ x = q)
      BY <1>1, <1>2 DEF LogsInv, IssuedInv
    <2>2. room'[m].log = more
      BY <1>6, <1>8
    <2>3. CASE x = q
      <3>1. x.by = AuthOf[m] /\ x.seq + 1 \in 1..Len(more) /\ more[x.seq + 1] = x
        BY <1>2, <1>3, <1>9, <1>10, <2>3
      <3> QED BY <2>1, <2>2, <3>1 DEF InItsLog
    <2>4. CASE x # q /\ x.by = RelayAuth /\ x.seq + 1 \in 1..Len(trail) /\ trail[x.seq + 1] = x
      BY <1>7, <2>1, <2>4 DEF InItsLog
    <2>5. CASE x # q /\ \E r \in RoomIds : x.by = AuthOf[r] /\ x.seq + 1 \in 1..Len(room[r].log) /\ room[r].log[x.seq + 1] = x
      <3>1. PICK r \in RoomIds : x.by = AuthOf[r] /\ x.seq + 1 \in 1..Len(room[r].log) /\ room[r].log[x.seq + 1] = x
        BY <2>5
      <3>2. CASE r = m
        <4>1. x.seq + 1 \in 1..Len(more) /\ more[x.seq + 1] = x
          BY <1>4, <1>9, <1>10, <3>1, <3>2
        <4> QED BY <2>1, <2>2, <3>1, <3>2, <4>1 DEF InItsLog
      <3>3. CASE r # m
        <4>1. room'[r].log = room[r].log
          BY <1>8, <3>3
        <4> QED BY <2>1, <3>1, <4>1 DEF InItsLog
      <3> QED BY <3>2, <3>3
    <2> QED BY <2>1, <2>3, <2>4, <2>5 DEF InItsLog
  <1>14. RoomInv'
    <2>1. /\ old.epoch = Len(old.log) /\ (\A i \in 1..Len(old.log) : old.log[i].obj.epoch = i - 1)
          /\ [members |-> old.members, owners |-> old.owners] = Replayed(old.log)
          /\ old # NoRoom => Owned(old)
      BY <1>3, <1>4, Zenon DEF LogsInv, RoomInv
    <2>2. q.obj.epoch = old.epoch
      BY <1>3, <1>4 DEF Fitting
    <2>3. new.members = Effect(q.obj, old).members /\ new.owners = Effect(q.obj, old).owners
          /\ new.epoch = old.epoch + 1 /\ new.log = more
      BY <1>6
    <2>4. new.epoch = Len(new.log) /\ \A i \in 1..Len(new.log) : new.log[i].obj.epoch = i - 1
      <3>1. Len(more) = Len(old.log) + 1 /\ Len(old.log) \in Nat
        BY <1>9, <1>10
      <3>2. ASSUME NEW i \in 1..Len(more) PROVE more[i].obj.epoch = i - 1
        <4>1. CASE i = Len(old.log) + 1
          BY <1>10, <2>1, <2>2, <3>1, <4>1
        <4>2. CASE i # Len(old.log) + 1
          <5>1. i \in 1..Len(old.log)
            BY <3>1, <4>2
          <5> QED BY <1>10, <2>1, <5>1
        <4> QED BY <4>1, <4>2
      <3> QED BY <2>1, <2>3, <3>1, <3>2
    <2>5. [members |-> new.members, owners |-> new.owners] = Replayed(more)
      <3>1. PICK k : k = [members |-> old.members, owners |-> old.owners]
        OBVIOUS
      <3>2. [members |-> Effect(q.obj, old).members, owners |-> Effect(q.obj, old).owners] = Effect(q.obj, k)
        BY <3>1, EffectOf
      <3>3. PICK log : log = old.log
        OBVIOUS
      <3>4. Replayed(Append(log, q)) = Effect(q.obj, Replayed(log))
        BY <1>2, <1>9, <3>3, ReplayedAppend
      <3> QED BY <1>5, <2>1, <2>3, <3>1, <3>2, <3>3, <3>4, Zenon
    <2>6. Owned(new)
      BY <1>3, <1>4, <2>1, <2>3, EffectOwned
    <2> SUFFICES ASSUME NEW r \in RoomIds
                 PROVE  /\ room'[r].epoch = Len(room'[r].log)
                        /\ \A i \in 1..Len(room'[r].log) : room'[r].log[i].obj.epoch = i - 1
                        /\ [members |-> room'[r].members, owners |-> room'[r].owners] = Replayed(room'[r].log)
                        /\ room'[r] # NoRoom => Owned(room'[r])
      BY Zenon DEF RoomInv, Owned
    <2>7. CASE r = m
      BY <1>8, <2>3, <2>4, <2>5, <2>6, <2>7, Zenon
    <2>8. CASE r # m
      BY <1>8, <2>8, Zenon DEF LogsInv, RoomInv
    <2> QED BY <2>7, <2>8
  <1> QED BY <1>2, <1>12, <1>13, <1>14 DEF LogsInv

LEMMA RouteKeeps ==
  ASSUME OneThread, LogsInv, NEW t \in Threads, Free(t), NEW obj, Route(t, obj)
  PROVE  LogsInv'
  <1>1. pend[t] = Idle /\ RelayAuth \in Authorities
    BY OrderedLogsConstants DEF Free
  <1>2. PICK x : Start(t, [user |-> "relay", receipt |-> AuditReceipt(RelayAuth, x)])
    BY Zenon DEF Route
  <1> QED BY <1>1, <1>2, StartKeeps

LEMMA FoundKeeps ==
  ASSUME OneThread, LogsInv, NEW t \in Threads, Free(t), NEW r \in RoomIds, Found(t, r)
  PROVE  LogsInv'
  <1>1. pend[t] = Idle /\ AuthOf[r] \in Authorities
    BY OrderedLogsConstants DEF Free
  <1>2. PICK actor, op : CreateRoom(t, r, actor, op)
    BY Zenon DEF Found
  <1>3. room[r] = NoRoom /\ CreateVerdict(op, actor) = "ok" /\ Start(t, [user |-> r, receipt |-> AuditReceipt(AuthOf[r], op)])
    BY <1>2, Zenon DEF CreateRoom
  <1>4. op.op = OP.create /\ op.epoch = 0
    BY <1>3 DEF CreateVerdict
  <1>5. Fitting(op, room[r])
    BY <1>3, <1>4 DEF Fitting, NoRoom
  <1> QED BY <1>1, <1>3, <1>5, StartKeeps

LEMMA SubmitKeeps ==
  ASSUME OneThread, LogsInv, NEW t \in Threads, Free(t), NEW r \in RoomIds, Submit(t, r)
  PROVE  LogsInv'
  <1>1. pend[t] = Idle /\ AuthOf[r] \in Authorities
    BY OrderedLogsConstants DEF Free
  <1>2. PICK o, op : Apply(t, r, o, op)
    BY Zenon DEF Submit
  <1>3. room[r] # NoRoom /\ ApplySignedVerdict(o, op, r) = "ok" /\ Start(t, [user |-> r, receipt |-> AuditReceipt(AuthOf[r], op)])
    BY <1>2, Zenon DEF Apply
  <1>4. ApplyVerdict(op, ActorOf(o), r) = "ok"
    BY <1>3 DEF ApplySignedVerdict
  <1>5. op.epoch = room[r].epoch /\ OpVerdict(op, room[r]) = "ok"
    BY <1>4 DEF ApplyVerdict
  <1>6. Fitting(op, room[r])
    BY <1>3, <1>5 DEF Fitting
  <1> QED BY <1>1, <1>3, <1>6, StartKeeps

LEMMA LogsStepKeeps ==
  ASSUME OneThread, OwnAuthorities, LogsInv, [LogsNext]_logsvars
  PROVE  LogsInv'
  <1>1. ASSUME NEW t \in Threads, Commit(t) PROVE LogsInv'
    BY <1>1, CommitRelay, CommitRoom
  <1>2. ASSUME UNCHANGED <<head, next, issued, trail, room, pend, authorityRestarts>> PROVE LogsInv'
    <2>1. head' = head /\ next' = next /\ issued' = issued /\ trail' = trail /\ room' = room /\ pend' = pend
          /\ authorityRestarts' = authorityRestarts
      BY <1>2
    <2>2. PendInv'
      BY <2>1, Zenon DEF LogsInv, PendInv, Busy
    <2>3. ChainInv' /\ LogTypes'
      <3>1. \A log, b : Chained(log, b)' <=> Chained(log, b)
        BY <2>1 DEF Chained, EndOf
      <3>2. ChainInv'
        BY <2>1, <3>1 DEF LogsInv, ChainInv
      <3>3. LogTypes'
        BY <2>1 DEF LogsInv, LogTypes
      <3> QED BY <3>2, <3>3
    <2>4. IssuedInv'
      BY <2>1, Zenon DEF LogsInv, IssuedInv, InItsLog, Busy
    <2>5. RoomInv'
      BY <2>1, Zenon DEF LogsInv, RoomInv
    <2> QED BY <2>2, <2>3, <2>4, <2>5 DEF LogsInv
  <1>3. CASE AuthorityRestart
    <2>1. authorityRestarts' = authorityRestarts + 1 /\ authorityRestarts \in Nat
      BY <1>3 DEF AuthorityRestart, LogsInv, LogTypes
    <2>2. IssuedInv'
      BY <2>1 DEF IssuedInv
    <2>3. LogTypes'
      BY <1>3, <2>1 DEF AuthorityRestart, LogTypes
    <2>4. PendInv' /\ ChainInv' /\ RoomInv'
      BY <1>3, FreshInv DEF AuthorityRestart
    <2> QED BY <2>2, <2>3, <2>4 DEF LogsInv
  <1>4. ASSUME NEW a \in Watched, NEW r \in issued, UNCHANGED <<authority, trail, room, pend, authorityRestarts>>
        PROVE  LogsInv'
    BY <1>2, <1>4 DEF authority
  <1>5. CASE UNCHANGED logsvars
    BY <1>2, <1>5 DEF logsvars
  <1> QED BY <1>1, <1>3, <1>4, <1>5, RouteKeeps, FoundKeeps, SubmitKeeps, Zenon DEF LogsNext

\* What the logs, their authorities and the append under way have to do with each other.
THEOREM LogsInvariant == ASSUME OneThread, OwnAuthorities PROVE LogsSpec => []LogsInv
  <1>1. LogsInit => LogsInv
    BY LogsInitInv
  <1>2. LogsInv /\ [LogsNext]_logsvars => LogsInv'
    BY LogsStepKeeps
  <1> QED BY <1>1, <1>2, PTL DEF LogsSpec

LEMMA ChainVerifies ==
  ASSUME NEW S, NEW log \in Seq(S), NEW a, Chained(log, a)
  PROVE  VerifyChain(log, a) = "ok"
  <1>1. DOMAIN log = 1..Len(log)
    OBVIOUS
  <1>2. \A i \in DOMAIN log : log[i].seq = i - 1 /\ log[i].by = a /\ log[i].prev = IF i = 1 THEN << >> ELSE HeadOf(log[i - 1])
    BY <1>1 DEF Chained
  <1>3. {i \in DOMAIN log : \/ \/ log[i].seq # i - 1
                              \/ log[i].prev # (IF i = 1 THEN << >> ELSE HeadOf(log[i - 1]))
                           \/ log[i].by # a} = {}
    BY <1>2
  <1> QED BY <1>3 DEF VerifyChain

LEMMA VerifiedAre ==
  ASSUME NEW receipts, NEW a, VerifyChain(receipts, a) = "ok"
  PROVE  \A i \in DOMAIN receipts : receipts[i].seq = i - 1 /\ receipts[i].by = a
  BY DEF VerifyChain

\* One authority at a time, one receipt at a time, never restarted: no two receipts at one position.
LEMMA OnePerPosition ==
  ASSUME OneThread, OwnAuthorities, LogsInv, authorityRestarts = 0,
         NEW p \in issued, NEW q \in issued, p.by = q.by, p.seq = q.seq
  PROVE  p = q
  <1>1. ASSUME NEW x \in issued, NEW t \in Threads, Busy(t), pend[t].receipt = x, InItsLog(x) PROVE FALSE
    <2>1. x.seq = next[x.by] /\ x.seq \in Nat
      BY <1>1 DEF LogsInv, PendInv, IssuedInv
    <2>2. x.by = RelayAuth => next[x.by] = Len(trail) /\ trail \in Seq(issued)
      BY DEF LogsInv, ChainInv, Chained
    <2>3. \A r \in RoomIds : x.by = AuthOf[r] => next[x.by] = Len(room[r].log) /\ room[r].log \in Seq(issued)
      BY DEF LogsInv, ChainInv, Chained
    <2> QED BY <1>1, <2>1, <2>2, <2>3 DEF InItsLog
  <1>2. ASSUME NEW x \in issued, InItsLog(x), NEW y \in issued, x.by = y.by, x.seq = y.seq PROVE InItsLog(y) => x = y
    BY <1>2 DEF InItsLog, OwnAuthorities
  <1>3. ASSUME NEW x \in issued, NEW y \in issued, InItsLog(x), x.by = y.by, x.seq = y.seq,
               NEW t \in Threads, Busy(t), pend[t].receipt = y
        PROVE  FALSE
    <2>1. y.seq = next[y.by] /\ y.seq \in Nat
      BY <1>3 DEF LogsInv, PendInv, IssuedInv
    <2>2. y.by = RelayAuth => next[y.by] = Len(trail) /\ trail \in Seq(issued)
      BY DEF LogsInv, ChainInv, Chained
    <2>3. \A r \in RoomIds : y.by = AuthOf[r] => next[y.by] = Len(room[r].log) /\ room[r].log \in Seq(issued)
      BY DEF LogsInv, ChainInv, Chained
    <2> QED BY <1>3, <2>1, <2>2, <2>3 DEF InItsLog
  <1>4. /\ InItsLog(p) \/ \E t \in Threads : Busy(t) /\ pend[t].receipt = p
        /\ InItsLog(q) \/ \E t \in Threads : Busy(t) /\ pend[t].receipt = q
    BY DEF LogsInv, IssuedInv
  <1> QED BY <1>2, <1>3, <1>4 DEF OneThread

\* For any authorities, rooms, people and objects, an authority that appends one object at a time
\* and was never restarted is never accused (audit.Auditor.observe).
THEOREM HonestNeverAccusedAlways ==
  ASSUME OneThread, OwnAuthorities PROVE LogsSpec => []HonestNeverAccused
  <1>1. ASSUME LogsInv, AuditInv PROVE HonestNeverAccused
    <2> SUFFICES ASSUME authorityRestarts = 0, NEW p \in forkproofs PROVE FALSE
      BY DEF HonestNeverAccused
    <2>1. p.a \in issued /\ p.b \in issued /\ p.a.by = p.b.by /\ p.a.seq = p.b.seq /\ p.a.obj # p.b.obj
      BY <1>1 DEF AuditInv
    <2>2. p.a = p.b
      BY <1>1, <2>1, OnePerPosition
    <2> QED BY <2>1, <2>2
  <1>2. LogsInit => AuditInv
    BY AuditInitInv
  <1>3. AuditInv /\ [LogsNext]_logsvars => AuditInv'
    BY AuditStepKeeps
  <1> QED BY <1>1, <1>2, <1>3, LogsInvariant, PTL DEF LogsSpec

\* For any relay, rooms, people and operations: logs verify offline, only whole and in order, they
\* explain the room they are of, and no sequence of operations costs a room its owners
\* (delivery.ContentFreeRelay, rooms.Room.apply).
THEOREM RoomLogsTrue == ASSUME OneThread, OwnAuthorities PROVE LogsSpec => []RoomLogsTellAll
  <1>1. ASSUME LogsInv PROVE LogsVerify
    <2> SUFFICES ASSUME authorityRestarts = 0, LogsQuiet
                 PROVE  /\ VerifyChain(trail, RelayAuth) = "ok"
                        /\ \A r \in RoomIds : VerifyChain(room[r].log, AuthOf[r]) = "ok"
                        /\ \A receipts \in SeqOf({r \in issued : r.by = RelayAuth}, 2) :
                             VerifyChain(receipts, RelayAuth) = "ok" => IsPrefix(receipts, trail)
      BY Zenon DEF LogsVerify
    <2>1. VerifyChain(trail, RelayAuth) = "ok"
      BY <1>1, ChainVerifies DEF LogsInv, ChainInv
    <2>2. ASSUME NEW r \in RoomIds PROVE VerifyChain(room[r].log, AuthOf[r]) = "ok"
      <3>1. PICK log : log = room[r].log
        OBVIOUS
      <3>2. log \in Seq(issued) /\ Chained(log, AuthOf[r])
        BY <1>1, <3>1, Zenon DEF LogsInv, ChainInv
      <3>3. VerifyChain(log, AuthOf[r]) = "ok"
        BY <3>2, ChainVerifies
      <3> QED BY <3>1, <3>3
    <2>3. ASSUME NEW receipts \in SeqOf({r \in issued : r.by = RelayAuth}, 2), VerifyChain(receipts, RelayAuth) = "ok"
          PROVE  IsPrefix(receipts, trail)
      <3>1. PICK n \in 0..2 : receipts \in [1..n -> {r \in issued : r.by = RelayAuth}]
        BY DEF SeqOf
      <3>2. receipts \in Seq(issued) /\ Len(receipts) = n /\ trail \in Seq(issued) /\ Len(trail) \in Nat
        BY <1>1, <3>1 DEF LogsInv, ChainInv
      <3>3. ASSUME NEW i \in 1..n PROVE i \in 1..Len(trail) /\ trail[i] = receipts[i]
        <4>1. receipts[i] \in issued /\ receipts[i].by = RelayAuth /\ receipts[i].seq = i - 1
          BY <2>3, <3>1, <3>3, VerifiedAre
        <4>2. InItsLog(receipts[i])
          BY <1>1, <4>1 DEF LogsInv, IssuedInv, LogsQuiet, Busy
        <4>3. (i - 1) + 1 = i
          OBVIOUS
        <4> QED BY <4>1, <4>2, <4>3 DEF InItsLog, OwnAuthorities
      <3>4. n <= Len(trail)
        BY <3>2, <3>3
      <3>5. PICK s : s = SubSeq(trail, 1, n)
        OBVIOUS
      <3>6. PICK c : c = SubSeq(receipts, 1, n)
        OBVIOUS
      <3>7. s \in Seq(issued) /\ Len(s) = n /\ \A i \in 1..n : s[i] = trail[i]
        BY <3>2, <3>4, <3>5
      <3>8. c \in Seq(issued) /\ Len(c) = n /\ \A i \in 1..n : c[i] = receipts[i]
        BY <3>2, <3>6
      <3>9. s = c
        BY <3>3, <3>7, <3>8
      <3> QED BY <3>2, <3>4, <3>5, <3>6, <3>9 DEF IsPrefix
    <2> QED BY <2>1, <2>2, <2>3
  <1>2. ASSUME LogsInv PROVE LogExplainsRoom /\ OwnersAreMembers
    <2>1. \A r \in RoomIds : DOMAIN room[r].log = 1..Len(room[r].log)
      BY <1>2 DEF LogsInv, ChainInv
    <2>2. LogExplainsRoom
      BY <1>2, <2>1, Zenon DEF LogsInv, RoomInv, LogExplainsRoom
    <2>3. OwnersAreMembers
      BY <1>2, Zenon DEF LogsInv, RoomInv, Owned, OwnersAreMembers
    <2> QED BY <2>2, <2>3
  <1>3. LogsInv => RoomLogsTellAll
    BY <1>1, <1>2 DEF RoomLogsTellAll
  <1> QED BY <1>3, LogsInvariant, PTL

(***************************************************************************)
(* Identities                                                              *)
(***************************************************************************)
\* Every signature is one its maker was willing to give.
SigInv == \A s \in sigs : s.key \in KeyIds /\ s = Signature(s.key, s.body) /\ Willing(s.key, s.body)

\* A principal's bindings and the rotations between them.
ThreadOf(bs, evs) ==
  /\ \E S : bs \in Seq(S)
  /\ \E S : evs \in Seq(S)
  /\ bs = << >> => evs = << >>
  /\ bs # << >> => Len(bs) = Len(evs) + 1
  /\ \A i \in 1..Len(evs) :
       /\ EvidenceVerdict(evs[i]) = "ok"
       /\ evs[i].record.old = bs[i].handle /\ evs[i].record.new = bs[i + 1].handle
  /\ \A i \in 1..Len(bs) :
       /\ bs[i].epoch = i - 1 /\ Owner(bs[i].handle) = Owner(bs[1].handle)
       /\ i > 1 => bs[i].prev = BindingHead(bs[i - 1])

ThreadInv == \A p \in Principals : ThreadOf(bindings[p], rebinds[p])

DeadInv ==
  \A k \in KeyIds : \A r \in dead[k] : \E s \in sigs : s.body = r /\ (s.key = k \/ s.key \in Recovery)

IdInv ==
  /\ DOMAIN bindings = Principals /\ DOMAIN rebinds = Principals /\ DOMAIN dead = KeyIds
  /\ SigInv /\ ThreadInv /\ DeadInv

LEMMA IdInitInv == ASSUME IdInit PROVE IdInv
  <1>1. DOMAIN bindings = Principals /\ DOMAIN rebinds = Principals /\ DOMAIN dead = KeyIds
    BY DEF IdInit
  <1>2. SigInv /\ DeadInv
    BY DEF IdInit, SigInv, DeadInv
  <1>3. \A p \in Principals : bindings[p] = << >> /\ rebinds[p] = << >>
    BY DEF IdInit
  <1>4. ThreadOf(<< >>, << >>)
    <2>1. << >> \in Seq({}) /\ Len(<< >>) = 0
      OBVIOUS
    <2> QED BY <2>1 DEF ThreadOf
  <1>5. ThreadInv
    BY <1>3, <1>4, Zenon DEF ThreadInv
  <1> QED BY <1>1, <1>2, <1>5 DEF IdInv

LEMMA IdOfKey == ASSUME NEW k, NEW id \in KeyIds, SignerId(k) = id PROVE k = id
  BY IdentitiesConstants DEF SignerId

LEMMA Kinds ==
  ASSUME NEW r \in RotationRecord
  PROVE  r \notin RevocationRecord /\ r \notin ForeignLinkRecord /\ r.old \in KeyIds /\ r.new \in KeyIds
  <1>1. "old" \in DOMAIN r /\ r.old \in KeyIds /\ r.new \in KeyIds
    BY DEF RotationRecord
  <1>2. ASSUME r \in RevocationRecord PROVE FALSE
    BY <1>1, <1>2 DEF RevocationRecord
  <1>3. ASSUME r \in ForeignLinkRecord PROVE FALSE
    BY <1>1, <1>3 DEF ForeignLinkRecord
  <1> QED BY <1>1, <1>2, <1>3

\* No rotation that verifies passes from one owner to another.
LEMMA RotationSameOwner ==
  ASSUME SigInv, NEW e \in Offered, EvidenceVerdict(e) = "ok"
  PROVE  Owner(e.record.old) = Owner(e.record.new)
  <1>1. PICK r \in {s.body : s \in Rotations}, ko \in KeyIds, kn \in KeyIds, so \in Rotations, sn \in Rotations :
          e = RotationEvidence(r, ko, kn, so, sn)
    BY DEF Offered
  <1>2. e.record = r /\ e.oldKey = ko /\ e.newKey = kn /\ e.oldSig = so /\ e.newSig = sn
    BY <1>1 DEF RotationEvidence
  <1>3. /\ SignerId(ko) = r.old /\ SignerId(kn) = r.new
        /\ so = Signature(ko, r) /\ sn = Signature(kn, r)
    BY <1>2 DEF EvidenceVerdict, VerifyRotation
  <1>4. r \in RotationRecord /\ so \in sigs /\ sn \in sigs
    BY <1>1 DEF Rotations
  <1>5. ko = r.old /\ kn = r.new
    BY <1>3, <1>4, Kinds, IdOfKey
  <1>6. so.key = ko /\ so.body = r /\ sn.key = kn /\ sn.body = r
    BY <1>3 DEF Signature
  <1>7. Willing(ko, r) /\ Willing(kn, r)
    BY <1>4, <1>6 DEF SigInv
  <1>8. \A k : Willing(k, r) => Owner(k) = "mallory" \/ (Owner(r.old) = Owner(k) /\ Owner(r.new) = Owner(k))
    BY <1>4, Kinds DEF Willing
  <1> QED BY <1>2, <1>5, <1>7, <1>8

LEMMA SigsGrow ==
  ASSUME IdInv, sigs \subseteq sigs', UNCHANGED <<bindings, rebinds, dead>>,
         \A s \in sigs' \ sigs : s.key \in KeyIds /\ s = Signature(s.key, s.body) /\ Willing(s.key, s.body)
  PROVE  IdInv'
  <1>1. bindings' = bindings /\ rebinds' = rebinds /\ dead' = dead
    OBVIOUS
  <1>2. SigInv'
    BY DEF IdInv, SigInv
  <1>3. ThreadInv'
    BY <1>1, Zenon DEF IdInv, ThreadInv
  <1>4. DeadInv'
    BY <1>1 DEF IdInv, DeadInv
  <1> QED BY <1>1, <1>2, <1>3, <1>4 DEF IdInv

LEMMA SignKeeps == ASSUME IdInv, NEW k \in KeyIds, NEW body, Sign(k, body) PROVE IdInv'
  <1>1. PICK s : s = Signature(k, body)
    OBVIOUS
  <1>2. s.key = k /\ s.body = body
    BY <1>1 DEF Signature
  <1>3. sigs' = sigs \cup {s} /\ Willing(k, body) /\ UNCHANGED <<bindings, rebinds, dead>>
    BY <1>1 DEF Sign
  <1>4. s = Signature(s.key, s.body) /\ Willing(s.key, s.body)
    BY <1>1, <1>2, <1>3
  <1> QED BY <1>2, <1>3, <1>4, SigsGrow

LEMMA SignRotationKeeps == ASSUME IdInv, NEW r \in RotationRecord, SignRotation(r) PROVE IdInv'
  <1>1. PICK s : s = Signature(r.old, r)
    OBVIOUS
  <1>2. PICK n : n = Signature(r.new, r)
    OBVIOUS
  <1>3. s.key = r.old /\ s.body = r /\ n.key = r.new /\ n.body = r /\ r.old \in KeyIds /\ r.new \in KeyIds
    BY <1>1, <1>2, Kinds DEF Signature
  <1>4. sigs' = sigs \cup {s, n} /\ Willing(r.old, r) /\ Willing(r.new, r) /\ UNCHANGED <<bindings, rebinds, dead>>
    BY <1>1, <1>2 DEF SignRotation
  <1>5. s = Signature(s.key, s.body) /\ Willing(s.key, s.body) /\ n = Signature(n.key, n.body) /\ Willing(n.key, n.body)
    BY <1>1, <1>2, <1>3, <1>4
  <1> QED BY <1>3, <1>4, <1>5, SigsGrow

LEMMA RevokeKeeps ==
  ASSUME IdInv, NEW s \in sigs, NEW k \in KeyIds, s.body \in RevocationRecord, Revoke(s.body, k, s)
  PROVE  IdInv'
  <1>1. PICK r : r = s.body
    OBVIOUS
  <1>2. r.key \in KeyIds
    BY <1>1 DEF RevocationRecord
  <1>3. /\ dead' = [dead EXCEPT ![r.key] = @ \cup {r}] /\ sigs' = sigs /\ bindings' = bindings /\ rebinds' = rebinds
        /\ VerifyRevocation(r, k, s, Recovery) = "ok"
    BY <1>1 DEF Revoke
  <1>4. SignerId(k) # NoId /\ SignerId(k) \in {r.key} \cup Recovery /\ s = Signature(k, r)
    BY <1>3 DEF VerifyRevocation
  <1>5. SignerId(k) = k /\ s.key = k /\ s.body = r
    BY <1>4 DEF SignerId, Signature
  <1>6. DeadInv'
    <2> SUFFICES ASSUME NEW x \in KeyIds, NEW y \in dead'[x]
                 PROVE  \E z \in sigs : z.body = y /\ (z.key = x \/ z.key \in Recovery)
      BY <1>3 DEF DeadInv
    <2>1. CASE x = r.key /\ y = r
      BY <1>4, <1>5, <2>1
    <2>2. CASE y \in dead[x]
      BY <2>2 DEF IdInv, DeadInv
    <2> QED BY <1>2, <1>3, <2>1, <2>2 DEF IdInv
  <1>7. SigInv'
    BY <1>3 DEF IdInv, SigInv
  <1>8. ThreadInv'
    BY <1>3, Zenon DEF IdInv, ThreadInv
  <1> QED BY <1>3, <1>6, <1>7, <1>8 DEF IdInv

LEMMA BindKeeps ==
  ASSUME IdInv, NEW p \in Principals, NEW handle, Bind(p, handle)
  PROVE  IdInv'
  <1>1. PICK b : b = [principal |-> p, handle |-> handle, epoch |-> 0, prev |-> << >>]
    OBVIOUS
  <1>2. bindings[p] = << >> /\ bindings' = [bindings EXCEPT ![p] = <<b>>] /\ sigs' = sigs /\ rebinds' = rebinds /\ dead' = dead
    BY <1>1 DEF Bind, BindVerdict
  <1>3. rebinds[p] = << >>
    BY <1>2 DEF IdInv, ThreadInv, ThreadOf
  <1>4. ThreadOf(<<b>>, << >>)
    <2>1. PICK bs : bs = <<b>>
      OBVIOUS
    <2>2. bs \in Seq({b}) /\ << >> \in Seq({}) /\ Len(bs) = 1 /\ Len(<< >>) = 0 /\ bs[1] = b /\ b.epoch = 0
      BY <1>1, <2>1
    <2>3. \A i \in 1..Len(<< >>) : FALSE
      BY <2>2
    <2>4. \A i \in 1..Len(bs) : i = 1 /\ bs[i] = b /\ ~(i > 1) /\ b.epoch = i - 1
      BY <2>2
    <2>5. bs # << >> /\ Len(bs) = Len(<< >>) + 1
      BY <2>1
    <2>6. ThreadOf(bs, << >>)
      BY <2>2, <2>3, <2>4, <2>5, Zenon DEF ThreadOf
    <2> QED BY <2>1, <2>6
  <1>5. bindings'[p] = <<b>> /\ \A x \in Principals : x # p => bindings'[x] = bindings[x]
    BY <1>2 DEF IdInv
  <1>6. ThreadInv'
    <2> SUFFICES ASSUME NEW x \in Principals PROVE ThreadOf(bindings'[x], rebinds'[x])
      BY Zenon DEF ThreadInv
    <2>1. CASE x = p
      BY <1>2, <1>3, <1>4, <1>5, <2>1, Zenon
    <2>2. CASE x # p
      <3>1. ThreadOf(bindings[x], rebinds[x])
        BY Zenon DEF IdInv, ThreadInv
      <3> QED BY <1>2, <1>5, <2>2, <3>1, Zenon
    <2> QED BY <2>1, <2>2
  <1>7. SigInv' /\ DeadInv'
    BY <1>2 DEF IdInv, SigInv, DeadInv
  <1> QED BY <1>2, <1>6, <1>7 DEF IdInv

\* One more rotation, from the current key.
LEMMA ThreadGrows ==
  ASSUME NEW bs, NEW evs, ThreadOf(bs, evs), bs # << >>, NEW e, NEW b, EvidenceVerdict(e) = "ok",
         e.record.old = bs[Len(bs)].handle, e.record.new = b.handle, Owner(e.record.old) = Owner(e.record.new),
         b.epoch = bs[Len(bs)].epoch + 1, b.prev = BindingHead(bs[Len(bs)])
  PROVE  ThreadOf(Append(bs, b), Append(evs, e))
  <1>1. PICK S : bs \in Seq(S)
    BY DEF ThreadOf
  <1>2. PICK T : evs \in Seq(T)
    BY DEF ThreadOf
  <1>3. PICK n \in Nat : n = Len(evs) /\ Len(bs) = n + 1
    BY <1>2 DEF ThreadOf
  <1>4. PICK cs : cs = Append(bs, b)
    OBVIOUS
  <1>5. PICK fs : fs = Append(evs, e)
    OBVIOUS
  <1>6. /\ cs \in Seq(S \cup {b}) /\ Len(cs) = n + 2 /\ cs[n + 2] = b /\ (\A i \in 1..(n + 1) : cs[i] = bs[i]) /\ cs # << >>
    BY <1>1, <1>3, <1>4
  <1>7. /\ fs \in Seq(T \cup {e}) /\ Len(fs) = n + 1 /\ fs[n + 1] = e /\ \A i \in 1..n : fs[i] = evs[i]
    BY <1>2, <1>3, <1>5
  <1>8. ASSUME NEW i \in 1..(n + 1)
        PROVE  EvidenceVerdict(fs[i]) = "ok" /\ fs[i].record.old = cs[i].handle /\ fs[i].record.new = cs[i + 1].handle
    <2>1. CASE i = n + 1
      <3>1. i + 1 = n + 2 /\ cs[i] = bs[Len(bs)]
        BY <1>3, <1>6, <2>1
      <3> QED BY <1>6, <1>7, <2>1, <3>1
    <2>2. CASE i # n + 1
      <3>1. i \in 1..n /\ i + 1 \in 1..(n + 1)
        BY <2>2
      <3>2. EvidenceVerdict(evs[i]) = "ok" /\ evs[i].record.old = bs[i].handle /\ evs[i].record.new = bs[i + 1].handle
        BY <1>3, <3>1 DEF ThreadOf
      <3> QED BY <1>6, <1>7, <3>1, <3>2
    <2> QED BY <2>1, <2>2
  <1>9. \A i \in 1..(n + 1) :
           /\ bs[i].epoch = i - 1 /\ Owner(bs[i].handle) = Owner(bs[1].handle)
           /\ i > 1 => bs[i].prev = BindingHead(bs[i - 1])
    BY <1>3 DEF ThreadOf
  <1>10. ASSUME NEW i \in 1..(n + 2)
         PROVE  /\ cs[i].epoch = i - 1 /\ Owner(cs[i].handle) = Owner(cs[1].handle)
                /\ i > 1 => cs[i].prev = BindingHead(cs[i - 1])
    <2>1. cs[1] = bs[1]
      BY <1>6
    <2>2. CASE i = n + 2
      <3>1. cs[i] = b /\ i - 1 = n + 1 /\ cs[i - 1] = bs[Len(bs)] /\ n + 1 \in 1..(n + 1)
        BY <1>3, <1>6, <2>2
      <3>2. bs[Len(bs)].epoch = n /\ Owner(bs[Len(bs)].handle) = Owner(bs[1].handle)
        BY <1>3, <1>9
      <3> QED BY <2>1, <3>1, <3>2
    <2>3. CASE i # n + 2
      <3>1. i \in 1..(n + 1) /\ (i > 1 => i - 1 \in 1..(n + 1))
        BY <2>3
      <3> QED BY <1>6, <1>9, <2>1, <3>1
    <2> QED BY <2>2, <2>3
  <1>11. Len(cs) = Len(fs) + 1 /\ \A i \in 1..Len(cs) : i \in 1..(n + 2)
    BY <1>6, <1>7
  <1>12. ThreadOf(cs, fs)
    BY <1>6, <1>7, <1>8, <1>10, <1>11 DEF ThreadOf
  <1> QED BY <1>4, <1>5, <1>12

LEMMA RebindKeeps ==
  ASSUME IdInv, NEW p \in Principals, NEW handle, NEW e \in Offered, Rebind(p, handle, e)
  PROVE  IdInv'
  <1>1. PICK bs : bs = bindings[p]
    OBVIOUS
  <1>2. PICK evs : evs = rebinds[p]
    OBVIOUS
  <1>3. PICK b : b = [principal |-> p, handle |-> handle, epoch |-> Last(bs).epoch + 1, prev |-> BindingHead(Last(bs))]
    OBVIOUS
  <1>4. /\ bindings' = [bindings EXCEPT ![p] = Append(bs, b)] /\ rebinds' = [rebinds EXCEPT ![p] = Append(evs, e)]
        /\ sigs' = sigs /\ dead' = dead /\ RebindVerdict(p, handle, e) = "ok"
    BY <1>1, <1>2, <1>3 DEF Rebind
  <1>5. /\ bs # << >> /\ e.record.old = bs[Len(bs)].handle /\ e.record.new = handle /\ EvidenceVerdict(e) = "ok"
    BY <1>1, <1>4 DEF RebindVerdict, Current, Last
  <1>6. b.handle = handle /\ b.epoch = bs[Len(bs)].epoch + 1 /\ b.prev = BindingHead(bs[Len(bs)])
    BY <1>3 DEF Last
  <1>7. Owner(e.record.old) = Owner(e.record.new)
    BY <1>5, RotationSameOwner DEF IdInv
  <1>8. ThreadOf(bs, evs)
    BY <1>1, <1>2, Zenon DEF IdInv, ThreadInv
  <1>9. ThreadOf(Append(bs, b), Append(evs, e))
    BY <1>5, <1>6, <1>7, <1>8, ThreadGrows
  <1>10. /\ bindings'[p] = Append(bs, b) /\ rebinds'[p] = Append(evs, e)
         /\ \A x \in Principals : x # p => bindings'[x] = bindings[x] /\ rebinds'[x] = rebinds[x]
    BY <1>4 DEF IdInv
  <1>11. ThreadInv'
    <2> SUFFICES ASSUME NEW x \in Principals PROVE ThreadOf(bindings'[x], rebinds'[x])
      BY Zenon DEF ThreadInv
    <2>1. CASE x = p
      BY <1>9, <1>10, <2>1, Zenon
    <2>2. CASE x # p
      <3>1. ThreadOf(bindings[x], rebinds[x])
        BY Zenon DEF IdInv, ThreadInv
      <3> QED BY <1>10, <2>2, <3>1, Zenon
    <2> QED BY <2>1, <2>2
  <1>12. SigInv' /\ DeadInv'
    BY <1>4 DEF IdInv, SigInv, DeadInv
  <1> QED BY <1>4, <1>11, <1>12 DEF IdInv

LEMMA IdStepKeeps == ASSUME IdInv, [IdNext]_idvars PROVE IdInv'
  <1>1. CASE UNCHANGED idvars
    BY <1>1, SigsGrow DEF idvars
  <1> QED BY <1>1, SignRotationKeeps, SignKeeps, BindKeeps, RebindKeeps, RevokeKeeps, Zenon DEF IdNext

\* What the registry and the records keep.
THEOREM IdInvariant == IdSpec => []IdInv
  <1>1. IdInit => IdInv
    BY IdInitInv
  <1>2. IdInv /\ [IdNext]_idvars => IdInv'
    BY IdStepKeeps
  <1> QED BY <1>1, <1>2, PTL DEF IdSpec

\* The chain of a thread: the first old key, then every new one.
LEMMA ChainIs ==
  ASSUME NEW S, NEW evs \in Seq(S), evs # << >>, ResolveThread(evs).verdict = "ok", NEW n \in Nat, n = Len(evs)
  PROVE  /\ ResolveThread(evs).chain \in Seq({evs[i].record.old : i \in 1..n} \cup {evs[i].record.new : i \in 1..n})
         /\ Len(ResolveThread(evs).chain) = n + 1 /\ ResolveThread(evs).chain[1] = evs[1].record.old
         /\ \A i \in 1..n : ResolveThread(evs).chain[i + 1] = evs[i].record.new
         /\ \A i \in 1..n : i > 1 => evs[i].record.old = evs[i - 1].record.new
         /\ \A i \in 1..n : EvidenceVerdict(evs[i]) = "ok"
  <1> DEFINE T == {evs[i].record.old : i \in 1..n} \cup {evs[i].record.new : i \in 1..n}
  <1>0. n > 0 /\ DOMAIN evs = 1..n
    OBVIOUS
  <1>1. PICK news : news = [i \in 1..n |-> evs[i].record.new]
    OBVIOUS
  <1>2. PICK one : one = <<evs[1].record.old>>
    OBVIOUS
  <1>3. news \in Seq(T) /\ Len(news) = n /\ one \in Seq(T) /\ Len(one) = 1 /\ one[1] = evs[1].record.old
    BY <1>0, <1>1, <1>2
  <1>4. ~(\E i \in DOMAIN evs : \/ i > 1 /\ evs[i].record.old # evs[i - 1].record.new
                                \/ EvidenceVerdict(evs[i]) # "ok")
    BY DEF ResolveThread
  <1>5. ResolveThread(evs).chain = one \o news
    BY <1>0, <1>1, <1>2, <1>4 DEF ResolveThread
  <1> HIDE DEF T
  <1>6. one \o news \in Seq(T) /\ Len(one \o news) = n + 1 /\ (one \o news)[1] = one[1]
    <2>1. /\ one \o news \in Seq(T) /\ Len(one \o news) = Len(one) + Len(news)
          /\ \A i \in 1..(Len(one) + Len(news)) :
               (one \o news)[i] = IF i <= Len(one) THEN one[i] ELSE news[i - Len(one)]
      BY <1>3, ConcatProperties
    <2> QED BY <1>3, <2>1
  <1>7. ASSUME NEW i \in 1..n PROVE (one \o news)[i + 1] = news[i]
    <2>1. /\ \A x \in 1..(Len(one) + Len(news)) :
               (one \o news)[x] = IF x <= Len(one) THEN one[x] ELSE news[x - Len(one)]
      BY <1>3, ConcatProperties
    <2>2. i + 1 \in 1..(1 + n) /\ ~(i + 1 <= 1) /\ (i + 1) - 1 = i
      OBVIOUS
    <2>3. (one \o news)[i + 1] = IF i + 1 <= 1 THEN one[i + 1] ELSE news[(i + 1) - 1]
      BY <1>3, <2>1, <2>2
    <2> QED BY <2>2, <2>3
  <1>8. \A i \in 1..n : news[i] = evs[i].record.new
    BY <1>1
  <1>9. ResolveThread(evs).chain \in Seq(T)
    BY <1>5, <1>6
  <1> QED BY <1>0, <1>3, <1>4, <1>5, <1>6, <1>7, <1>8, <1>9 DEF T

LEMMA ThreadsKeepOwner ==
  ASSUME SigInv, NEW evs \in SeqOf({e \in Offered : EvidenceVerdict(e) = "ok"}, 2), ResolveThread(evs).verdict = "ok"
  PROVE  \A i, j \in DOMAIN ResolveThread(evs).chain : Owner(ResolveThread(evs).chain[i]) = Owner(ResolveThread(evs).chain[j])
  <1> DEFINE S == {e \in Offered : EvidenceVerdict(e) = "ok"}
  <1>1. PICK n \in 0..2 : evs \in [1..n -> S]
    BY DEF SeqOf
  <1>2. evs \in Seq(S) /\ Len(evs) = n /\ \A i \in 1..n : evs[i] \in S
    BY <1>1
  <1>3. evs # << >>
    BY DEF ResolveThread
  <1>4. n > 0
    BY <1>2, <1>3
  <1>5. \A i \in 1..n : Owner(evs[i].record.old) = Owner(evs[i].record.new)
    BY <1>2, RotationSameOwner
  <1> HIDE DEF S
  <1>6. PICK c : c = ResolveThread(evs).chain
    OBVIOUS
  <1>7. /\ (\E T : c \in Seq(T)) /\ Len(c) = n + 1 /\ c[1] = evs[1].record.old
        /\ \A i \in 1..n : c[i + 1] = evs[i].record.new
        /\ \A i \in 1..n : i > 1 => evs[i].record.old = evs[i - 1].record.new
    <2>1. n \in Nat
      OBVIOUS
    <2> QED BY <1>2, <1>3, <1>6, <2>1, ChainIs, Zenon
  <1>8. DOMAIN c = 1..(n + 1)
    BY <1>7
  <1>9. ASSUME NEW i \in 1..(n + 1) PROVE Owner(c[i]) = Owner(c[1])
    <2>1. Owner(c[2]) = Owner(c[1])
      BY <1>4, <1>5, <1>7
    <2>2. ASSUME n = 2 PROVE Owner(c[3]) = Owner(c[2])
      <3>1. c[3] = evs[2].record.new /\ c[2] = evs[1].record.new /\ evs[2].record.old = evs[1].record.new
        BY <1>7, <2>2
      <3> QED BY <1>5, <2>2, <3>1
    <2>3. i = 1 \/ i = 2 \/ (i = 3 /\ n = 2)
      BY <1>4
    <2> QED BY <2>1, <2>2, <2>3
  <1> QED BY <1>6, <1>8, <1>9, Zenon

LEMMA ThreadIsHistory ==
  ASSUME NEW bs, NEW evs, ThreadOf(bs, evs), evs # << >>, NEW handles, handles = [i \in DOMAIN bs |-> bs[i].handle]
  PROVE  /\ ResolveThread(evs) = [verdict |-> "ok", chain |-> handles]
         /\ \A i \in DOMAIN handles : Attributable(ResolveThread(evs), handles[i])
  <1>1. PICK S : bs \in Seq(S)
    BY DEF ThreadOf
  <1>2. PICK T : evs \in Seq(T)
    BY DEF ThreadOf
  <1>3. bs # << >>
    BY DEF ThreadOf
  <1>4. PICK n \in Nat : n = Len(evs) /\ Len(bs) = n + 1
    BY <1>2, <1>3 DEF ThreadOf
  <1>5. \A i \in 1..n : /\ EvidenceVerdict(evs[i]) = "ok"
                        /\ evs[i].record.old = bs[i].handle /\ evs[i].record.new = bs[i + 1].handle
    BY <1>4 DEF ThreadOf
  <1>6. DOMAIN evs = 1..n /\ DOMAIN bs = 1..(n + 1) /\ n > 0
    BY <1>1, <1>2, <1>4
  <1>7. \A i \in 1..n : i > 1 => evs[i].record.old = evs[i - 1].record.new
    <2> SUFFICES ASSUME NEW i \in 1..n, i > 1 PROVE evs[i].record.old = evs[i - 1].record.new
      OBVIOUS
    <2>1. i - 1 \in 1..n /\ (i - 1) + 1 = i
      OBVIOUS
    <2> QED BY <1>5, <2>1
  <1>8. PICK th : th = ResolveThread(evs)
    OBVIOUS
  <1>9. PICK c : c = <<evs[1].record.old>> \o [i \in DOMAIN evs |-> evs[i].record.new]
    OBVIOUS
  <1>10. th = [verdict |-> "ok", chain |-> c]
    <2>1. ~(\E i \in DOMAIN evs : \/ i > 1 /\ evs[i].record.old # evs[i - 1].record.new
                                  \/ EvidenceVerdict(evs[i]) # "ok")
      BY <1>5, <1>6, <1>7
    <2> QED BY <1>8, <1>9, <2>1, Zenon DEF ResolveThread
  <1>11. th.verdict = "ok" /\ th.chain = c
    BY <1>10
  <1>12. /\ (\E R : c \in Seq(R)) /\ Len(c) = n + 1 /\ c[1] = evs[1].record.old
         /\ \A i \in 1..n : c[i + 1] = evs[i].record.new
    BY <1>2, <1>4, <1>8, <1>11, ChainIs, Zenon
  <1>13. PICK R : c \in Seq(R)
    BY <1>12
  <1>14. DOMAIN c = 1..(n + 1) /\ c = [i \in 1..(n + 1) |-> c[i]]
    BY <1>12, <1>13
  <1>15. ASSUME NEW i \in 1..(n + 1) PROVE c[i] = bs[i].handle
    <2>1. CASE i = 1
      BY <1>5, <1>6, <1>12, <2>1
    <2>2. CASE i # 1
      <3>1. i - 1 \in 1..n /\ (i - 1) + 1 = i
        BY <2>2
      <3> QED BY <1>5, <1>12, <3>1
    <2> QED BY <2>1, <2>2
  <1>16. handles = [i \in 1..(n + 1) |-> bs[i].handle]
    BY <1>6
  <1>17. c = handles
    BY <1>14, <1>15, <1>16
  <1>18. \A i \in DOMAIN handles : handles[i] \in {th.chain[x] : x \in DOMAIN th.chain}
    BY <1>11, <1>17, Zenon
  <1>19. \A i \in DOMAIN handles : Attributable(th, handles[i])
    BY <1>18, Zenon DEF Attributable, ToSet
  <1> QED BY <1>8, <1>10, <1>17, <1>19, Zenon

LEMMA LinkIsSigned ==
  ASSUME NEW s \in sigs, NEW k \in KeyIds, NEW now \in Times, s.body \in ForeignLinkRecord,
         VerifyForeignLink(s.body, k, s, now) = "link"
  PROVE  s.key = k /\ ~RevokedAt(s.body, now) /\ CheckSigner(k, k) \in {"ok", "UnknownAlg"}
  <1>1. ~(now > s.body.not_after) /\ s = Signature(k, s.body)
    BY DEF VerifyForeignLink
  <1>2. s.key = k
    BY <1>1 DEF Signature
  <1>3. SignerId(k) = NoId \/ SignerId(k) = k
    BY DEF SignerId
  <1>4. CheckSigner(k, k) \in {"ok", "UnknownAlg"}
    BY <1>3 DEF CheckSigner
  <1> QED BY <1>1, <1>2, <1>4 DEF RevokedAt

(* An identity stays with its owner (rooms.PrincipalRegistry,                *)
(* identity.resolve_thread, verify_revocation, verify_foreign_link), for any *)
(* keys, owners, recovery keys and principals, and whatever anybody puts     *)
(* together from the signatures that exist.                                  *)
THEOREM IdentityNeverPasses == IdSpec => []IdentityStaysWithItsOwner
  <1>1. ASSUME IdInv PROVE IdentityStaysWithItsOwner
    <2>1. SigInv /\ ThreadInv /\ DeadInv
      BY <1>1 DEF IdInv
    <2>2. OneOwner
      <3>1. ASSUME NEW p \in Principals, NEW i \in DOMAIN bindings[p], NEW j \in DOMAIN bindings[p]
            PROVE  Owner(bindings[p][i].handle) = Owner(bindings[p][j].handle)
        <4>1. PICK bs : bs = bindings[p]
          OBVIOUS
        <4>2. ThreadOf(bs, rebinds[p])
          BY <2>1, <4>1, Zenon DEF ThreadInv
        <4>3. PICK S : bs \in Seq(S)
          BY <4>2 DEF ThreadOf
        <4>4. DOMAIN bs = 1..Len(bs)
          BY <4>3
        <4>5. \A x \in 1..Len(bs) : Owner(bs[x].handle) = Owner(bs[1].handle)
          BY <4>2 DEF ThreadOf
        <4> QED BY <4>1, <4>4, <4>5
      <3> QED BY <2>1, <3>1, ThreadsKeepOwner, Zenon DEF OneOwner
    <2>3. HistoryIsThread
      <3>1. ASSUME NEW p \in Principals, rebinds[p] # << >>,
                   NEW handles, handles = [i \in DOMAIN bindings[p] |-> bindings[p][i].handle]
            PROVE  /\ ResolveThread(rebinds[p]) = [verdict |-> "ok", chain |-> handles]
                   /\ \A i \in DOMAIN handles : Attributable(ResolveThread(rebinds[p]), handles[i])
        <4>1. ThreadOf(bindings[p], rebinds[p])
          BY <2>1, Zenon DEF ThreadInv
        <4> QED BY <3>1, <4>1, ThreadIsHistory, Zenon
      <3>2. ASSUME NEW p \in Principals, NEW i \in DOMAIN bindings[p]
            PROVE  bindings[p][i].epoch = i - 1 /\ (i > 1 => bindings[p][i].prev = BindingHead(bindings[p][i - 1]))
        <4>1. PICK bs : bs = bindings[p]
          OBVIOUS
        <4>2. ThreadOf(bs, rebinds[p])
          BY <2>1, <4>1, Zenon DEF ThreadInv
        <4>3. PICK S : bs \in Seq(S)
          BY <4>2 DEF ThreadOf
        <4>4. i \in 1..Len(bs)
          BY <4>1, <4>3
        <4>5. bs[i].epoch = i - 1 /\ (i > 1 => bs[i].prev = BindingHead(bs[i - 1]))
          BY <4>2, <4>4 DEF ThreadOf
        <4> QED BY <4>1, <4>5
      <3> QED BY <3>1, <3>2, Zenon DEF HistoryIsThread
    <2>4. OnlyTheEntitledSpeak
      BY <2>1, LinkIsSigned DEF OnlyTheEntitledSpeak, DeadInv
    <2> QED BY <2>2, <2>3, <2>4 DEF IdentityStaysWithItsOwner
  <1> QED BY <1>1, IdInvariant, PTL

(***************************************************************************)
(* Logs of records                                                         *)
(***************************************************************************)
RunReady(links, done) == {i \in DOMAIN links \ done : Indegree(links, done, i) = 0}
RunNext(links, sofar) ==
  IF RunReady(links, ToSet(sofar)) = {} THEN sofar
  ELSE Append(sofar, CHOOSE i \in RunReady(links, ToSet(sofar)) :
                       \A j \in RunReady(links, ToSet(sofar)) \ {i} : Before(links, i, j))
RunBody(links, f, n) == IF n = 0 THEN << >> ELSE RunNext(links, f[n - 1])
RunFn(links) == CHOOSE f : f = [n \in 0..Len(links) |-> RunBody(links, f, n)]

LEMMA RunIs == ASSUME NEW links PROVE TopologicalOrder(links) = RunFn(links)[Len(links)]
  BY Zenon DEF TopologicalOrder, RunFn, RunBody, RunNext, RunReady

\* The order of a log is built step by step.
LEMMA RunFnIs ==
  ASSUME NEW links, NEW N \in Nat, N = Len(links)
  PROVE  \A n \in 0..N : RunFn(links)[n] = RunBody(links, RunFn(links), n)
  <1> DEFINE G == {k \in 0..N : \E g : g = [n \in 0..k |-> RunBody(links, g, n)]}
  <1>1. 0 \in G
    <2>1. PICK g : g = [n \in 0..0 |-> << >>]
      OBVIOUS
    <2>2. \A n \in 0..0 : RunBody(links, g, n) = << >>
      BY DEF RunBody
    <2>3. g = [n \in 0..0 |-> RunBody(links, g, n)]
      BY <2>1, <2>2
    <2> QED BY <2>3
  <1>2. ASSUME NEW k \in 0..N, k < N, k \in G PROVE k + 1 \in G
    <2>1. PICK g : g = [n \in 0..k |-> RunBody(links, g, n)]
      BY <1>2
    <2>2. PICK h : h = [n \in 0..(k + 1) |-> IF n = k + 1 THEN RunBody(links, g, n) ELSE g[n]]
      OBVIOUS
    <2>3. \A n \in 0..k : h[n] = g[n] /\ g[n] = RunBody(links, g, n)
      <3>1. \A n \in 0..k : g[n] = RunBody(links, g, n)
        BY <2>1
      <3>2. \A n \in 0..k : n \in 0..(k + 1) /\ n # k + 1
        OBVIOUS
      <3>3. \A n \in 0..k : h[n] = g[n]
        BY <2>2, <3>2
      <3> QED BY <3>1, <3>3
    <2>4. \A n \in 0..(k + 1) : RunBody(links, h, n) = RunBody(links, g, n)
      <3> SUFFICES ASSUME NEW n \in 0..(k + 1) PROVE RunBody(links, h, n) = RunBody(links, g, n)
        OBVIOUS
      <3>1. CASE n = 0
        BY <3>1 DEF RunBody
      <3>2. CASE n # 0
        <4>1. n - 1 \in 0..k
          BY <3>2
        <4>2. h[n - 1] = g[n - 1]
          BY <2>3, <4>1
        <4> QED BY <4>2 DEF RunBody
      <3> QED BY <3>1, <3>2
    <2>5. \A n \in 0..(k + 1) : h[n] = RunBody(links, h, n)
      <3> SUFFICES ASSUME NEW n \in 0..(k + 1) PROVE h[n] = RunBody(links, g, n)
        BY <2>4
      <3>1. CASE n = k + 1
        BY <2>2, <3>1
      <3>2. CASE n # k + 1
        <4>1. n \in 0..k
          BY <3>2
        <4> QED BY <2>3, <4>1
      <3> QED BY <3>1, <3>2
    <2>6. h = [n \in 0..(k + 1) |-> RunBody(links, h, n)]
      BY <2>2, <2>5
    <2>7. k + 1 \in 0..N
      BY <1>2
    <2> QED BY <2>6, <2>7
  <1>3. N \in G
    <2> HIDE DEF G
    <2>1. \A k \in 0..N : k \in G
      BY <1>1, <1>2, AllUpTo
    <2> QED BY <2>1
  <1>4. \E g : g = [n \in 0..Len(links) |-> RunBody(links, g, n)]
    BY <1>3
  <1>5. PICK f : f = RunFn(links)
    OBVIOUS
  <1>6. f = [n \in 0..Len(links) |-> RunBody(links, f, n)]
    BY <1>4, <1>5, Zenon DEF RunFn
  <1>7. \A n \in 0..N : f[n] = RunBody(links, f, n)
    BY <1>6
  <1> QED BY <1>5, <1>7

LEMMA IntervalSize == ASSUME NEW n \in Nat PROVE IsFiniteSet(1..n) /\ Cardinality(1..n) = n
  <1>1. IsFiniteSet(1..n)
    BY FS_Interval
  <1>2. Cardinality(1..n) = n
    BY FS_Interval
  <1> QED BY <1>1, <1>2

\* As long as a record is left, the first of them is ready.
LEMMA SomeoneIsReady ==
  ASSUME NEW S, NEW links \in Seq(S), NEW N \in Nat, N = Len(links),
         \A i, j \in 1..N : links[i].id = links[j].id => i = j,
         \A i \in 1..N : \A k \in DOMAIN links[i].causes : CauseInPlace(links, i, links[i].causes[k]),
         NEW T, NEW sofar \in Seq(T), Len(sofar) < N
  PROVE  RunReady(links, ToSet(sofar)) # {}
  <1>1. PICK n \in Nat : n = Len(sofar) /\ n < N
    OBVIOUS
  <1>2. PICK done : done = ToSet(sofar)
    OBVIOUS
  <1>3. sofar \in Surjection(1..n, done)
    <2>1. DOMAIN sofar = 1..n /\ sofar \in [1..n -> done]
      BY <1>1, <1>2 DEF ToSet
    <2>2. \A y \in done : \E x \in 1..n : sofar[x] = y
      BY <1>2, <2>1 DEF ToSet
    <2> QED BY <2>1, <2>2 DEF Surjection
  <1>4. IsFiniteSet(1..n) /\ Cardinality(1..n) = n /\ IsFiniteSet(1..N) /\ Cardinality(1..N) = N
    BY IntervalSize
  <1>5. IsFiniteSet(done) /\ Cardinality(done) <= n
    BY <1>3, <1>4, FS_Surjection
  <1>6. ~(1..N \subseteq done)
    BY <1>1, <1>4, <1>5, FS_Subset, FS_CardinalityType
  <1> DEFINE Rest == {i \in 1..N : i \notin done}
  <1>7. Rest \in SUBSET Nat /\ Rest # {}
    BY <1>6
  <1>8. PICK m \in Rest : \A y \in Rest : m <= y
    BY <1>7, LeastOf
  <1>9. m \in 1..N /\ m \notin done /\ DOMAIN links = 1..N /\ \A y \in 1..N : y < m => y \in done
    BY <1>8
  <1> HIDE DEF Rest
  <1>10. ASSUME NEW k \in DOMAIN links[m].causes PROVE At(links, links[m].causes[k]) \in done
    <2>1. PICK c : c = links[m].causes[k]
      OBVIOUS
    <2>2. PICK j \in 1..N : j < m /\ links[j].id = c
      BY <1>9, <2>1 DEF CauseInPlace
    <2>3. At(links, c) \in 1..N /\ links[At(links, c)].id = c
      BY <1>9, <2>2, Zenon DEF At
    <2>4. At(links, c) = j
      BY <2>2, <2>3
    <2> QED BY <1>9, <2>1, <2>2, <2>4
  <1>11. {k \in DOMAIN links[m].causes : At(links, links[m].causes[k]) \notin done} = {}
    BY <1>10
  <1>12. Indegree(links, done, m) = 0
    BY <1>11, FS_EmptySet, Zenon DEF Indegree
  <1>13. m \in RunReady(links, done)
    BY <1>9, <1>12, Zenon DEF RunReady
  <1> QED BY <1>2, <1>13

\* A log whose causes precede their effects is ordered to its end.
LEMMA OrderIsFull ==
  ASSUME NEW S, NEW links \in Seq(S), NEW N \in Nat, N = Len(links),
         \A i, j \in 1..N : links[i].id = links[j].id => i = j,
         \A i \in 1..N : \A k \in DOMAIN links[i].causes : CauseInPlace(links, i, links[i].causes[k])
  PROVE  Len(TopologicalOrder(links)) = N
  <1>1. PICK f : f = RunFn(links)
    OBVIOUS
  <1>2. \A n \in 0..N : f[n] = RunBody(links, f, n)
    BY <1>1, RunFnIs
  <1> DEFINE G == {n \in 0..N : (\E T : f[n] \in Seq(T)) /\ Len(f[n]) = n}
  <1>3. 0 \in G
    <2>1. f[0] = << >>
      BY <1>2 DEF RunBody
    <2>2. << >> \in Seq({}) /\ Len(<< >>) = 0
      OBVIOUS
    <2>3. (\E T : f[0] \in Seq(T)) /\ Len(f[0]) = 0
      BY <2>1, <2>2
    <2> QED BY <2>3
  <1>4. ASSUME NEW n \in 0..N, n < N, n \in G PROVE n + 1 \in G
    <2>1. PICK T : f[n] \in Seq(T)
      BY <1>4
    <2>2. PICK sofar : sofar = f[n]
      OBVIOUS
    <2>3. sofar \in Seq(T) /\ Len(sofar) = n
      BY <1>4, <2>1, <2>2
    <2>4. RunReady(links, ToSet(sofar)) # {}
      BY <1>4, <2>3, SomeoneIsReady
    <2>5. n + 1 \in 0..N /\ n + 1 # 0 /\ (n + 1) - 1 = n
      BY <1>4
    <2>6. f[n + 1] = RunNext(links, sofar)
      BY <1>2, <2>2, <2>5 DEF RunBody
    <2>7. PICK e : RunNext(links, sofar) = Append(sofar, e)
      BY <2>4, Zenon DEF RunNext
    <2>8. Append(sofar, e) \in Seq(T \cup {e}) /\ Len(Append(sofar, e)) = n + 1
      BY <2>3
    <2>9. (\E Z : f[n + 1] \in Seq(Z)) /\ Len(f[n + 1]) = n + 1
      BY <2>6, <2>7, <2>8
    <2> QED BY <2>5, <2>9
  <1>5. N \in G
    <2> HIDE DEF G
    <2>1. \A n \in 0..N : n \in G
      BY <1>3, <1>4, AllUpTo
    <2> QED BY <2>1
  <1> QED BY <1>1, <1>5, RunIs

\* The causes a record may name, and the records there may be in storage.
CauseLists == UNION {[1..n -> Nat] : n \in 0..2}
AnyRecord ==
  [id : Nat, signer : Agents, key : {"a", "b", "m", "nobody"}, created : Nat, causes : CauseLists]

\* What the log keeps: records are their signers' own and have ids of their own; in
\* storage there is nothing else but what nobody's key fits.
LogInv ==
  /\ records \in Seq(AnyRecord) /\ stored \in Seq(AnyRecord) /\ torn \in BOOLEAN
  /\ \A i \in 1..Len(records) : records[i].key = records[i].signer
  /\ \A i, j \in 1..Len(records) : records[i].id = records[j].id => i = j
  /\ \A i \in 1..Len(stored) : \/ \E j \in 1..Len(records) : stored[i] = records[j]
                               \/ stored[i].key \in {"m", "nobody"}

LEMMA LogInitInv == ASSUME ProofInit PROVE LogInv
  <1>1. records = << >> /\ stored = << >> /\ torn = FALSE
    BY DEF ProofInit
  <1>2. << >> \in Seq(AnyRecord) /\ Len(<< >>) = 0
    OBVIOUS
  <1>3. \A i \in 1..Len(<< >>) : FALSE
    BY <1>2
  <1> QED BY <1>1, <1>2, <1>3, Zenon DEF LogInv

LEMMA LogUnchanged == ASSUME LogInv, UNCHANGED logvars PROVE LogInv'
  <1>1. records' = records /\ stored' = stored /\ torn' = torn
    BY DEF logvars
  <1> QED BY <1>1 DEF LogInv

LEMMA EmitKeeps ==
  ASSUME LogInv, NEW id \in Nat, NEW agent \in Agents, NEW created \in Nat, NEW causes \in CauseLists,
         EmitRecord(id, agent, created, causes)
  PROVE  LogInv'
  <1>1. PICK r : r = RecordOf(id, agent, agent, created, causes)
    OBVIOUS
  <1>2. r \in AnyRecord /\ r.key = r.signer /\ r.id = id
    BY <1>1 DEF RecordOf, AnyRecord, Agents
  <1>3. records' = Append(records, r) /\ stored' = Append(stored, r) /\ torn' = torn
    BY <1>1 DEF EmitRecord
  <1>4. records \in Seq(AnyRecord) /\ stored \in Seq(AnyRecord) /\ torn \in BOOLEAN
    BY DEF LogInv
  <1>5. \A i \in 1..Len(records) : records[i].id # id
    BY <1>4 DEF EmitRecord
  <1>6. PICK n \in Nat : n = Len(records)
    BY <1>4
  <1>7. PICK m \in Nat : m = Len(stored)
    BY <1>4
  <1>8. /\ records' \in Seq(AnyRecord) /\ Len(records') = n + 1 /\ records'[n + 1] = r
        /\ \A i \in 1..n : records'[i] = records[i]
    BY <1>2, <1>3, <1>4, <1>6
  <1>9. /\ stored' \in Seq(AnyRecord) /\ Len(stored') = m + 1 /\ stored'[m + 1] = r
        /\ \A i \in 1..m : stored'[i] = stored[i]
    BY <1>2, <1>3, <1>4, <1>7
  <1>10. ASSUME NEW i \in 1..(n + 1) PROVE records'[i].key = records'[i].signer
    <2>1. CASE i = n + 1
      BY <1>2, <1>8, <2>1
    <2>2. CASE i # n + 1
      <3>1. i \in 1..n
        BY <2>2
      <3> QED BY <1>6, <1>8, <3>1 DEF LogInv
    <2> QED BY <2>1, <2>2
  <1>11. ASSUME NEW i \in 1..(n + 1), NEW j \in 1..(n + 1), records'[i].id = records'[j].id PROVE i = j
    <2>1. i = n + 1 \/ i \in 1..n
      OBVIOUS
    <2>2. j = n + 1 \/ j \in 1..n
      OBVIOUS
    <2>3. CASE i = n + 1 /\ j = n + 1
      BY <2>3
    <2>4. CASE i = n + 1 /\ j \in 1..n
      BY <1>2, <1>5, <1>6, <1>8, <1>11, <2>4
    <2>5. CASE i \in 1..n /\ j = n + 1
      BY <1>2, <1>5, <1>6, <1>8, <1>11, <2>5
    <2>6. CASE i \in 1..n /\ j \in 1..n
      <3>1. records[i].id = records[j].id
        BY <1>8, <1>11, <2>6
      <3> QED BY <1>6, <2>6, <3>1 DEF LogInv
    <2> QED BY <2>1, <2>2, <2>3, <2>4, <2>5, <2>6
  <1>12. ASSUME NEW i \in 1..(m + 1)
         PROVE  (\E j \in 1..(n + 1) : stored'[i] = records'[j]) \/ stored'[i].key \in {"m", "nobody"}
    <2>1. CASE i = m + 1
      BY <1>8, <1>9, <2>1
    <2>2. CASE i # m + 1
      <3>1. i \in 1..m /\ stored'[i] = stored[i]
        BY <1>9, <2>2
      <3>2. CASE stored[i].key \in {"m", "nobody"}
        BY <3>1, <3>2
      <3>3. CASE \E j \in 1..n : stored[i] = records[j]
        <4>1. PICK j \in 1..n : stored[i] = records[j]
          BY <3>3
        <4>2. j \in 1..(n + 1) /\ records'[j] = records[j]
          BY <1>8
        <4> QED BY <3>1, <4>1, <4>2
      <3> QED BY <1>6, <1>7, <3>1, <3>2, <3>3 DEF LogInv
    <2> QED BY <2>1, <2>2
  <1>13. torn' \in BOOLEAN
    BY <1>3, <1>4
  <1> QED BY <1>8, <1>9, <1>10, <1>11, <1>12, <1>13, Zenon DEF LogInv

\* Whatever storage does, what is there was there, or no key fits it.
LEMMA StoredFrom ==
  ASSUME LogInv, records' = records, torn' \in BOOLEAN, stored' \in Seq(AnyRecord),
         \A i \in 1..Len(stored') : \/ \E j \in 1..Len(stored) : stored'[i] = stored[j]
                                    \/ stored'[i].key \in {"m", "nobody"}
  PROVE  LogInv'
  <1>1. ASSUME NEW i \in 1..Len(stored')
        PROVE  (\E j \in 1..Len(records) : stored'[i] = records[j]) \/ stored'[i].key \in {"m", "nobody"}
    BY DEF LogInv
  <1> QED BY <1>1 DEF LogInv

LEMMA TamperKeeps ==
  ASSUME LogInv, NEW i \in DOMAIN stored, SwapStored(i) \/ DropStored(i) \/ RepeatStored(i) \/ AlterStored(i)
  PROVE  LogInv'
  <1>1. records' = records
    BY DEF SwapStored, DropStored, RepeatStored, AlterStored, Tamper
  <1>2. stored \in Seq(AnyRecord) /\ torn \in BOOLEAN /\ torn' = torn
    BY DEF LogInv, SwapStored, DropStored, RepeatStored, AlterStored
  <1>3. PICK n \in Nat : n = Len(stored)
    BY <1>2
  <1>4. i \in 1..n /\ DOMAIN stored = 1..n
    BY <1>2, <1>3
  <1>5. CASE SwapStored(i)
    <2>1. stored' = [stored EXCEPT ![i] = stored[i + 1], ![i + 1] = stored[i]] /\ i + 1 \in 1..n
      BY <1>4, <1>5 DEF SwapStored
    <2>2. stored \in [1..n -> AnyRecord]
      BY <1>2, <1>3
    <2>3. \A x \in 1..n : stored'[x] \in {stored[x], stored[i], stored[i + 1]}
      BY <1>4, <2>1, <2>2
    <2>4. DOMAIN stored' = 1..n /\ stored' \in [1..n -> AnyRecord]
      BY <1>4, <2>1, <2>2
    <2>5. stored' \in Seq(AnyRecord) /\ Len(stored') = n
      BY <2>4
    <2>6. \A x \in 1..n : \E j \in 1..n : stored'[x] = stored[j]
      BY <1>4, <2>1, <2>3
    <2> QED BY <1>1, <1>2, <1>3, <2>5, <2>6, StoredFrom
  <1>6. CASE DropStored(i)
    <2>1. PICK s : s = SubSeq(stored, 1, i - 1)
      OBVIOUS
    <2>2. PICK t : t = SubSeq(stored, i + 1, n)
      OBVIOUS
    <2>3. stored' = s \o t
      BY <1>3, <1>6, <2>1, <2>2 DEF DropStored, RemoveAt
    <2>4. s \in Seq(AnyRecord) /\ Len(s) = i - 1 /\ \A x \in 1..(i - 1) : s[x] = stored[x]
      BY <1>2, <1>3, <1>4, <2>1
    <2>5. t \in Seq(AnyRecord) /\ Len(t) = n - i /\ \A x \in 1..(n - i) : t[x] = stored[i + x]
      BY <1>2, <1>3, <1>4, <2>2
    <2>6. /\ s \o t \in Seq(AnyRecord) /\ Len(s \o t) = Len(s) + Len(t)
          /\ \A x \in 1..(Len(s) + Len(t)) : (s \o t)[x] = IF x <= Len(s) THEN s[x] ELSE t[x - Len(s)]
      BY <2>4, <2>5, ConcatProperties
    <2>7. ASSUME NEW x \in 1..(n - 1) PROVE \E j \in 1..n : stored'[x] = stored[j]
      <3>1. stored'[x] = IF x <= i - 1 THEN s[x] ELSE t[x - (i - 1)]
        BY <1>4, <2>3, <2>4, <2>5, <2>6
      <3>2. CASE x <= i - 1
        BY <1>4, <2>4, <3>1, <3>2
      <3>3. CASE ~(x <= i - 1)
        <4>1. x - (i - 1) \in 1..(n - i) /\ i + (x - (i - 1)) = x + 1 /\ x + 1 \in 1..n
          BY <1>4, <3>3
        <4>2. t[x - (i - 1)] = stored[x + 1]
          BY <2>5, <4>1
        <4> QED BY <3>1, <3>3, <4>1, <4>2
      <3> QED BY <3>2, <3>3
    <2>8. Len(stored') = n - 1 /\ stored' \in Seq(AnyRecord)
      BY <1>4, <2>3, <2>4, <2>5, <2>6
    <2> QED BY <1>1, <1>2, <1>3, <2>7, <2>8, StoredFrom
  <1>7. CASE RepeatStored(i)
    <2>1. stored' = Append(stored, stored[i]) /\ stored[i] \in AnyRecord
      BY <1>2, <1>3, <1>4, <1>7 DEF RepeatStored
    <2>2. stored' \in Seq(AnyRecord) /\ Len(stored') = n + 1 /\ stored'[n + 1] = stored[i] /\ \A x \in 1..n : stored'[x] = stored[x]
      BY <1>2, <1>3, <2>1
    <2>3. \A x \in 1..(n + 1) : x = n + 1 \/ x \in 1..n
      OBVIOUS
    <2>4. \A x \in 1..(n + 1) : \E j \in 1..n : stored'[x] = stored[j]
      BY <1>4, <2>2, <2>3
    <2> QED BY <1>1, <1>2, <1>3, <2>2, <2>4, StoredFrom
  <1>8. CASE AlterStored(i)
    <2>1. stored' = [stored EXCEPT ![i].key = "nobody"]
      BY <1>8 DEF AlterStored
    <2>2. stored \in [1..n -> AnyRecord] /\ stored[i] \in AnyRecord
      BY <1>2, <1>3, <1>4
    <2>3. [stored[i] EXCEPT !.key = "nobody"] \in AnyRecord /\ [stored[i] EXCEPT !.key = "nobody"].key = "nobody"
      BY <2>2 DEF AnyRecord
    <2>4. PICK r : r = [stored[i] EXCEPT !.key = "nobody"]
      OBVIOUS
    <2>5. stored' = [stored EXCEPT ![i] = r]
      BY <2>1, <2>4
    <2>6. stored' \in [1..n -> AnyRecord] /\ stored'[i] = r /\ \A x \in 1..n : x # i => stored'[x] = stored[x]
      BY <1>4, <2>2, <2>3, <2>4, <2>5
    <2>7. stored' \in Seq(AnyRecord) /\ Len(stored') = n
      BY <2>6
    <2>8. ASSUME NEW x \in 1..n PROVE (\E j \in 1..n : stored'[x] = stored[j]) \/ stored'[x].key \in {"m", "nobody"}
      BY <2>3, <2>4, <2>6
    <2> QED BY <1>1, <1>2, <1>3, <2>7, <2>8, StoredFrom
  <1> QED BY <1>5, <1>6, <1>7, <1>8

LEMMA ForgeKeeps == ASSUME LogInv, NEW agent \in Agents, ForgeStored(agent) PROVE LogInv'
  <1>1. PICK r : r = RecordOf(ForgedId, agent, "m", 0, << >>)
    OBVIOUS
  <1>2. << >> \in CauseLists
    <2>1. << >> \in [1..0 -> Nat] /\ 0 \in 0..2
      OBVIOUS
    <2> QED BY <2>1 DEF CauseLists
  <1>3. r \in AnyRecord /\ r.key = "m"
    BY <1>1, <1>2 DEF RecordOf, AnyRecord, ForgedId
  <1>4. stored' = Append(stored, r) /\ records' = records /\ torn' = torn /\ torn \in BOOLEAN /\ stored \in Seq(AnyRecord)
    BY <1>1 DEF ForgeStored, Tamper, LogInv
  <1>5. PICK n \in Nat : n = Len(stored)
    BY <1>4
  <1>6. stored' \in Seq(AnyRecord) /\ Len(stored') = n + 1 /\ stored'[n + 1] = r /\ \A x \in 1..n : stored'[x] = stored[x]
    BY <1>3, <1>4, <1>5
  <1>7. ASSUME NEW x \in 1..(n + 1) PROVE (\E j \in 1..n : stored'[x] = stored[j]) \/ stored'[x].key \in {"m", "nobody"}
    <2>1. x = n + 1 \/ x \in 1..n
      OBVIOUS
    <2> QED BY <1>3, <1>6, <2>1
  <1> QED BY <1>4, <1>5, <1>6, <1>7, StoredFrom

LEMMA CutKeeps == ASSUME LogInv, CutStored PROVE LogInv'
  <1>1. records' = records /\ stored' = stored /\ torn' = TRUE
    BY DEF CutStored, Tamper
  <1> QED BY <1>1 DEF LogInv

LEMMA LogNextKeeps == ASSUME LogInv, LogNext PROVE LogInv'
  <1>1. ASSUME NEW id \in Ids, NEW agent \in Agents, NEW created \in 0..1,
               NEW causes \in UNION {[1..n -> {records[i].id : i \in DOMAIN records}] : n \in 0..2},
               EmitRecord(id, agent, created, causes)
        PROVE  LogInv'
    <2>1. id \in Nat /\ created \in Nat
      BY DEF Ids
    <2>2. {records[i].id : i \in DOMAIN records} \subseteq Nat
      <3>1. records \in Seq(AnyRecord)
        BY DEF LogInv
      <3>2. \A i \in DOMAIN records : records[i] \in AnyRecord
        BY <3>1
      <3>3. \A r \in AnyRecord : r.id \in Nat
        BY DEF AnyRecord
      <3> QED BY <3>2, <3>3
    <2>3. PICK n \in 0..2 : causes \in [1..n -> {records[i].id : i \in DOMAIN records}]
      OBVIOUS
    <2>4. causes \in [1..n -> Nat]
      BY <2>2, <2>3
    <2>5. causes \in CauseLists
      BY <2>4 DEF CauseLists
    <2> QED BY <1>1, <2>1, <2>5, EmitKeeps
  <1> QED BY <1>1, TamperKeeps, ForgeKeeps, CutKeeps, Zenon DEF LogNext

\* What verify_chain looks for: a record that does not verify or comes twice, ...
BadLinks(links, resolver) ==
  {i \in DOMAIN links : \/ VerifyOne(links[i], resolver) # "ok"
                        \/ \E j \in 1..(i - 1) : links[j].id = links[i].id}
\* ... and a cause that is not in front of its effect.
StrayCauses(links) ==
  {p \in (DOMAIN links) \X (1..2) :
     p[2] \in DOMAIN links[p[1]].causes /\ ~CauseInPlace(links, p[1], links[p[1]].causes[p[2]])}

LEMMA ChainErr ==
  ASSUME NEW links, NEW resolver
  PROVE  VerifyRecordChain(links, resolver).err = "" <=>
           /\ BadLinks(links, resolver) = {} /\ StrayCauses(links) = {}
           /\ Len(TopologicalOrder(links)) = Len(links)
  <1>1. PICK bad : bad = BadLinks(links, resolver)
    OBVIOUS
  <1>2. PICK stray : stray = StrayCauses(links)
    OBVIOUS
  <1>3. PICK order : order = TopologicalOrder(links)
    OBVIOUS
  <1>4. PICK v : v = VerifyOne(links[Min(bad)], resolver)
    OBVIOUS
  <1>5. v # ""
    BY <1>4 DEF VerifyOne
  <1>6. PICK e : /\ VerifyRecordChain(links, resolver) =
                      CASE bad # {} /\ v # "ok"         -> LogRefused(v)
                        [] bad # {}                     -> LogRefused("ChainOrderBroken")
                        [] stray # {}                   -> LogRefused(e)
                        [] Len(order) # Len(links)      -> LogRefused("ChainOrderBroken")
                        [] OTHER                        -> LogOk(links, order)
                 /\ e \in {"ChainOrderBroken", "BrokenReferent"}
    <2> DEFINE i1 == Min({p[1] : p \in stray})
               k1 == Min({p[2] : p \in {q \in stray : q[1] = i1}})
               e0 == IF \E i \in DOMAIN links : links[i].id = links[i1].causes[k1]
                     THEN "ChainOrderBroken" ELSE "BrokenReferent"
    <2>1. VerifyRecordChain(links, resolver) =
            CASE bad # {} /\ v # "ok"         -> LogRefused(v)
              [] bad # {}                     -> LogRefused("ChainOrderBroken")
              [] stray # {}                   -> LogRefused(e0)
              [] Len(order) # Len(links)      -> LogRefused("ChainOrderBroken")
              [] OTHER                        -> LogOk(links, order)
      BY <1>1, <1>2, <1>3, <1>4, Zenon DEF VerifyRecordChain, BadLinks, StrayCauses
    <2>2. e0 \in {"ChainOrderBroken", "BrokenReferent"}
      OBVIOUS
    <2> HIDE DEF e0
    <2> QED BY <2>1, <2>2
  <1>7. \A x : LogRefused(x).err = x
    BY DEF LogRefused
  <1>8. LogOk(links, order).err = ""
    BY DEF LogOk
  <1>9. PICK l : Len(order) # Len(links) <=> l = TRUE
    OBVIOUS
  <1>10. VerifyRecordChain(links, resolver).err = "" <=> bad = {} /\ stray = {} /\ ~(Len(order) # Len(links))
    BY <1>5, <1>6, <1>7, <1>8
  <1> QED BY <1>1, <1>2, <1>3, <1>10

\* A log that is what it should be is accepted.
LEMMA SoundIsAccepted ==
  ASSUME LogInv, NEW resolver \in Resolvers, ~torn,
         \A i \in DOMAIN stored : stored[i] \in ToSet(records) /\ resolver[stored[i].signer] = stored[i].key,
         \A i, j \in DOMAIN stored : i # j => stored[i] # stored[j],
         \A i \in DOMAIN stored : \A c \in ToSet(stored[i].causes) : \E j \in 1..(i - 1) : stored[j].id = c
  PROVE  VerifyAndReplay(stored, torn, resolver).err = ""
  <1>1. stored \in Seq(AnyRecord) /\ records \in Seq(AnyRecord)
    BY DEF LogInv
  <1>2. PICK n \in Nat : n = Len(stored)
    BY <1>1
  <1>3. DOMAIN stored = 1..n /\ \A i \in 1..n : stored[i] \in AnyRecord
    BY <1>1, <1>2
  <1>4. ASSUME NEW i \in 1..n PROVE VerifyOne(stored[i], resolver) = "ok"
    <2>1. PICK x \in DOMAIN records : stored[i] = records[x]
      BY <1>3 DEF ToSet
    <2>2. x \in 1..Len(records) /\ records[x] \in AnyRecord
      BY <1>1, <2>1
    <2>3. stored[i].key = stored[i].signer /\ stored[i].signer \in {"a", "b"}
      BY <2>1, <2>2 DEF LogInv, AnyRecord, Agents
    <2>4. resolver[stored[i].signer] = stored[i].key /\ stored[i].key # Missing
      BY <1>3, <2>3, ProofRecordsConstants
    <2> QED BY <2>4 DEF VerifyOne
  <1>5. ASSUME NEW i \in 1..n, NEW j \in 1..n, stored[i].id = stored[j].id PROVE i = j
    <2>1. PICK x \in 1..Len(records) : stored[i] = records[x]
      BY <1>1, <1>3 DEF ToSet
    <2>2. PICK y \in 1..Len(records) : stored[j] = records[y]
      BY <1>1, <1>3 DEF ToSet
    <2>3. x = y
      BY <1>5, <2>1, <2>2 DEF LogInv
    <2>4. stored[i] = stored[j]
      BY <2>1, <2>2, <2>3
    <2> QED BY <1>3, <2>4
  <1>6. ASSUME NEW i \in 1..n, NEW k \in DOMAIN stored[i].causes PROVE CauseInPlace(stored, i, stored[i].causes[k])
    <2>1. stored[i].causes[k] \in ToSet(stored[i].causes)
      BY DEF ToSet
    <2>2. PICK j \in 1..(i - 1) : stored[j].id = stored[i].causes[k]
      BY <1>3, <2>1
    <2>3. j \in DOMAIN stored /\ j < i
      BY <1>3
    <2> QED BY <2>2, <2>3 DEF CauseInPlace
  <1>7. BadLinks(stored, resolver) = {}
    <2>1. ASSUME NEW i \in 1..n, NEW j \in 1..(i - 1) PROVE stored[j].id # stored[i].id
      <3>1. j \in 1..n /\ j # i
        OBVIOUS
      <3> QED BY <1>5, <3>1
    <2> QED BY <1>3, <1>4, <2>1, Zenon DEF BadLinks
  <1>8. StrayCauses(stored) = {}
    <2> SUFFICES ASSUME NEW p \in StrayCauses(stored) PROVE FALSE
      OBVIOUS
    <2>1. p[1] \in 1..n /\ p[2] \in DOMAIN stored[p[1]].causes /\ ~CauseInPlace(stored, p[1], stored[p[1]].causes[p[2]])
      BY <1>3 DEF StrayCauses
    <2> QED BY <1>6, <2>1
  <1>9. Len(TopologicalOrder(stored)) = Len(stored)
    BY <1>1, <1>2, <1>5, <1>6, OrderIsFull
  <1>10. VerifyRecordChain(stored, resolver).err = ""
    BY <1>7, <1>8, <1>9, ChainErr
  <1>11. ReadLog(torn) = "ok"
    BY DEF ReadLog
  <1> QED BY <1>10, <1>11 DEF VerifyAndReplay

LogAccepted(resolver) == VerifyAndReplay(stored, torn, resolver).err = ""

\* A log that is accepted is what it should be.
LEMMA AcceptedIsSound ==
  ASSUME LogInv, NEW resolver \in Resolvers, LogAccepted(resolver)
  PROVE  /\ ~torn
         /\ \A i \in DOMAIN stored : stored[i] \in ToSet(records) /\ resolver[stored[i].signer] = stored[i].key
         /\ \A i, j \in DOMAIN stored : i # j => stored[i] # stored[j]
         /\ \A i \in DOMAIN stored : \A c \in ToSet(stored[i].causes) : \E j \in 1..(i - 1) : stored[j].id = c
  <1>1. stored \in Seq(AnyRecord) /\ records \in Seq(AnyRecord)
    BY DEF LogInv
  <1>2. PICK n \in Nat : n = Len(stored)
    BY <1>1
  <1>3. DOMAIN stored = 1..n /\ \A i \in 1..n : stored[i] \in AnyRecord
    BY <1>1, <1>2
  <1>4. ~torn
    BY DEF LogAccepted, VerifyAndReplay, ReadLog, LogRefused
  <1>5. VerifyRecordChain(stored, resolver).err = ""
    BY <1>4 DEF LogAccepted, VerifyAndReplay, ReadLog
  <1>6. BadLinks(stored, resolver) = {} /\ StrayCauses(stored) = {}
    BY <1>5, ChainErr
  <1>7. ASSUME NEW i \in 1..n
        PROVE  VerifyOne(stored[i], resolver) = "ok" /\ \A j \in 1..(i - 1) : stored[j].id # stored[i].id
    BY <1>3, <1>6, Zenon DEF BadLinks
  <1>8. ASSUME NEW i \in 1..n PROVE stored[i] \in ToSet(records) /\ resolver[stored[i].signer] = stored[i].key
    <2>1. resolver[stored[i].signer] # Missing /\ stored[i].key = resolver[stored[i].signer]
      BY <1>7 DEF VerifyOne
    <2>2. stored[i].signer \in {"a", "b"}
      BY <1>3 DEF AnyRecord, Agents
    <2>3. \A x \in {"a", "b"} : resolver[x] \in {"a", "b", Missing}
      <3>1. \/ resolver = [a |-> "a", b |-> "b"] \/ resolver = [a |-> "a", b |-> Missing]
            \/ resolver = [a |-> "a", b |-> "a"]
        BY DEF Resolvers
      <3>2. resolver.a \in {"a", "b", Missing} /\ resolver.b \in {"a", "b", Missing}
        BY <3>1
      <3> QED BY <3>2
    <2>4. stored[i].key \notin {"m", "nobody"}
      BY <2>1, <2>2, <2>3
    <2>5. PICK j \in 1..Len(records) : stored[i] = records[j]
      BY <1>2, <2>4 DEF LogInv
    <2>6. j \in DOMAIN records
      BY <1>1
    <2> QED BY <2>1, <2>5, <2>6 DEF ToSet
  <1>9. ASSUME NEW i \in 1..n, NEW j \in 1..n, i # j PROVE stored[i] # stored[j]
    <2>1. j \in 1..(i - 1) \/ i \in 1..(j - 1)
      BY <1>9
    <2> QED BY <1>7, <2>1
  <1>10. ASSUME NEW i \in 1..n, NEW c \in ToSet(stored[i].causes) PROVE \E j \in 1..(i - 1) : stored[j].id = c
    <2>1. PICK k \in DOMAIN stored[i].causes : c = stored[i].causes[k]
      BY DEF ToSet
    <2>2. stored[i].causes \in CauseLists
      BY <1>3 DEF AnyRecord
    <2>3. k \in 1..2
      <3>1. PICK m \in 0..2 : stored[i].causes \in [1..m -> Nat]
        BY <2>2 DEF CauseLists
      <3>2. k \in 1..m
        BY <3>1
      <3> QED BY <3>2
    <2>4. PICK p : p = <<i, k>>
      OBVIOUS
    <2>5. p \in (DOMAIN stored) \X (1..2) /\ p[1] = i /\ p[2] = k
      BY <1>3, <2>3, <2>4
    <2>6. CauseInPlace(stored, i, c)
      BY <1>6, <2>1, <2>5, Zenon DEF StrayCauses
    <2>7. PICK j \in 1..n : j < i /\ stored[j].id = c
      BY <1>3, <2>6 DEF CauseInPlace
    <2> QED BY <2>7
  <1> QED BY <1>3, <1>4, <1>8, <1>9, <1>10, Zenon

SoundLog(resolver) ==
  /\ ~torn /\ \A i \in DOMAIN stored : stored[i] \in ToSet(records) /\ resolver[stored[i].signer] = stored[i].key
  /\ \A i, j \in DOMAIN stored : i # j => stored[i] # stored[j]
  /\ \A i \in DOMAIN stored : \A c \in ToSet(stored[i].causes) : \E j \in 1..(i - 1) : stored[j].id = c

\* Every resolver accepts exactly the sound logs.
LEMMA LogInvTells == ASSUME LogInv PROVE AcceptedLogIsHistory
  <1> SUFFICES ASSUME NEW resolver \in Resolvers
               PROVE  LET wrote(r) == r \in ToSet(records) /\ resolver[r.signer] = r.key
                          sound == /\ ~torn /\ \A i \in DOMAIN stored : wrote(stored[i])
                                   /\ \A i, j \in DOMAIN stored : i # j => stored[i] # stored[j]
                                   /\ \A i \in DOMAIN stored : \A c \in ToSet(stored[i].causes) :
                                        \E j \in 1..(i - 1) : stored[j].id = c
                      IN sound <=> LogAccepted(resolver)
    BY Zenon DEF AcceptedLogIsHistory, LogAccepted
  <1>1. SoundLog(resolver) => LogAccepted(resolver)
    BY SoundIsAccepted, Zenon DEF SoundLog, LogAccepted
  <1>2. LogAccepted(resolver) => SoundLog(resolver)
    BY AcceptedIsSound, Zenon DEF SoundLog
  <1> QED BY <1>1, <1>2, Zenon DEF SoundLog

(***************************************************************************)
(* Bundles                                                                 *)
(***************************************************************************)
\* What the parties signed is what they sign, and what was accepted is true.
BundleInv ==
  /\ Signed("object") \subseteq Objects /\ Signed("approval") \subseteq BoundApprovals
  /\ Signed("receipt") \subseteq Receipts(BoundApprovals)
  /\ BundleTellsOneStory

LEMMA SignedIs == ASSUME NEW role PROVE \A x : x \in Signed(role) <=> \E f \in facts : f.role = role /\ f.thing = x
  BY DEF Signed

LEMMA SignedUnchanged == ASSUME facts' = facts PROVE \A role : Signed(role)' = Signed(role)
  BY Zenon DEF Signed

LEMMA SignedGrows ==
  ASSUME NEW role, NEW by, NEW thing, facts' = facts \cup {Fact(role, by, thing)}
  PROVE  \A q : Signed(q)' = Signed(q) \cup (IF q = role THEN {thing} ELSE {})
  <1>1. Fact(role, by, thing).role = role /\ Fact(role, by, thing).thing = thing
    BY DEF Fact
  <1>2. PICK f : f = Fact(role, by, thing)
    OBVIOUS
  <1>3. ASSUME NEW q PROVE Signed(q)' = Signed(q) \cup (IF q = role THEN {thing} ELSE {})
    <2>1. \A x : x \in Signed(q)' <=> \E g \in facts' : g.role = q /\ g.thing = x
      BY DEF Signed
    <2>2. \A x : x \in Signed(q)' <=> (\E g \in facts : g.role = q /\ g.thing = x) \/ (f.role = q /\ f.thing = x)
      BY <1>2, <2>1
    <2> QED BY <1>1, <1>2, <2>2, SignedIs
  <1> QED BY <1>3

LEMMA BundleInitInv == ASSUME ProofInit PROVE BundleInv
  <1>1. facts = {} /\ said = Missing
    BY DEF ProofInit
  <1>2. \A role : Signed(role) = {}
    BY <1>1 DEF Signed
  <1> QED BY <1>1, <1>2 DEF BundleInv, BundleTellsOneStory

LEMMA BundleUnchanged == ASSUME BundleInv, UNCHANGED bundlevars PROVE BundleInv'
  <1>1. facts' = facts /\ bundle' = bundle /\ said' = said
    BY DEF bundlevars
  <1>2. Signed("object")' = Signed("object") /\ Signed("approval")' = Signed("approval") /\ Signed("receipt")' = Signed("receipt")
    BY <1>1, SignedUnchanged
  <1> QED BY <1>1, <1>2, Zenon DEF BundleInv, BundleTellsOneStory

LEMMA SignFactKeeps ==
  ASSUME BundleInv, NEW role, NEW thing, SignFact(role, thing),
         \/ role = "object" /\ thing \in Objects
         \/ role = "approval" /\ thing \in BoundApprovals
         \/ role = "receipt" /\ thing \in Receipts(BoundApprovals)
  PROVE  BundleInv'
  <1>1. facts' = facts \cup {Fact(role, Holder[role], thing)} /\ bundle' = bundle /\ said' = said /\ said = Missing
    BY DEF SignFact
  <1>2. \A q : Signed(q)' = Signed(q) \cup (IF q = role THEN {thing} ELSE {})
    BY <1>1, SignedGrows
  <1>3. BundleTellsOneStory'
    BY <1>1 DEF BundleTellsOneStory
  <1>4. /\ Signed("object")' \subseteq Objects /\ Signed("approval")' \subseteq BoundApprovals
        /\ Signed("receipt")' \subseteq Receipts(BoundApprovals)
    BY <1>2 DEF BundleInv
  <1>5. Objects' = Objects /\ BoundApprovals' = BoundApprovals /\ Receipts(BoundApprovals)' = Receipts(BoundApprovals)
    BY DEF Objects, BoundApprovals, Receipts
  <1> QED BY <1>3, <1>4, <1>5 DEF BundleInv

\* The keys an anchor of the verifier's own knows are their holders'.
LEMMA AnchorKnows ==
  ASSUME NEW roles \in SUBSET RoleNames, NEW role \in RoleNames, NEW b
  PROVE  ResolveKey(Independent(roles), b, role, Holder[role]) \in {Missing, Holder[role]}
  <1>1. PICK known : known = [n \in {<<x, Holder[x]>> : x \in roles} |-> Holder[n[1]]]
    OBVIOUS
  <1>2. Independent(roles).known = known
    BY <1>1 DEF Independent, TrustAnchor
  <1>3. PICK n : n = <<role, Holder[role]>>
    OBVIOUS
  <1>4. n[1] = role
    BY <1>3
  <1>5. n \in DOMAIN known => known[n] = Holder[role]
    BY <1>1, <1>4
  <1> QED BY <1>2, <1>3, <1>5, Zenon DEF ResolveKey

LEMMA AnchorKnowsAll ==
  ASSUME NEW role \in RoleNames, NEW b
  PROVE  ResolveKey(Independent(RoleNames), b, role, Holder[role]) = Holder[role]
  <1>1. PICK known : known = [n \in {<<x, Holder[x]>> : x \in RoleNames} |-> Holder[n[1]]]
    OBVIOUS
  <1>2. Independent(RoleNames).known = known
    BY <1>1 DEF Independent, TrustAnchor
  <1>3. PICK n : n = <<role, Holder[role]>>
    OBVIOUS
  <1>4. n[1] = role
    BY <1>3
  <1>5. n \in DOMAIN known
    BY <1>1, <1>3
  <1>6. known[n] = Holder[role]
    BY <1>1, <1>4, <1>5
  <1> QED BY <1>2, <1>3, <1>5, <1>6, Zenon DEF ResolveKey

LEMMA HoldersAre ==
  /\ RoleNames = {"object", "approval", "receipt"}
  /\ Holder["object"] = "s" /\ Holder["approval"] = "p" /\ Holder["receipt"] = "l"
  BY DEF RoleNames, Holder

LEMMA PartsAre ==
  /\ \A o \in Objects : o.signer = "s"
  /\ \A a \in BoundApprovals : a.approver = "p" /\ a.notAfter \in Int
  /\ \A r \in Receipts(BoundApprovals) : r.ledger = "l"
  <1>1. \A o \in Objects : o.signer = "s"
    BY DEF Objects, ObjectOf
  <1>2. ASSUME NEW a \in BoundApprovals PROVE a.approver = "p" /\ a.notAfter \in Int
    <2>1. PICK o \in Objects, t \in VerifyTimes : a = ApprovalOf(o, "p", t)
      BY DEF BoundApprovals
    <2>2. a.approver = "p" /\ a.notAfter = t
      BY <2>1 DEF ApprovalOf
    <2> QED BY <2>2, ProofRecordsConstants
  <1>3. \A r \in Receipts(BoundApprovals) : r.ledger = "l"
    BY DEF Receipts, ReceiptOf
  <1> QED BY <1>1, <1>2, <1>3

\* A bundle verifies only under an anchor that is not its own, with every part signed.
LEMMA VerifiedMeans ==
  ASSUME NEW b, NEW anchor, NEW time, VerifyBundle(b, anchor, time) = "ok"
  PROVE  /\ anchor # Missing /\ ~anchor.selfDerived
         /\ ResolveKey(anchor, b, "object", b.object.signer) # Missing
         /\ b.sigs["object"] = ResolveKey(anchor, b, "object", b.object.signer)
         /\ ResolveKey(anchor, b, "approval", b.approval.approver) # Missing
         /\ b.sigs["approval"] = ResolveKey(anchor, b, "approval", b.approval.approver)
         /\ ResolveKey(anchor, b, "receipt", b.receipt.ledger) # Missing
         /\ b.sigs["receipt"] = ResolveKey(anchor, b, "receipt", b.receipt.ledger)
         /\ b.approval.approves = b.object /\ b.receipt.approval = b.approval
         /\ ~(time > b.approval.notAfter)
  <1>1. /\ KeyName(b, "object") = b.object.signer /\ KeyName(b, "approval") = b.approval.approver
        /\ KeyName(b, "receipt") = b.receipt.ledger
    BY DEF KeyName
  <1>2. /\ anchor # Missing /\ ~anchor.selfDerived
        /\ ResolveKey(anchor, b, "object", KeyName(b, "object")) # Missing /\ SignatureHolds(b, anchor, "object")
        /\ ResolveKey(anchor, b, "approval", KeyName(b, "approval")) # Missing /\ SignatureHolds(b, anchor, "approval")
        /\ ResolveKey(anchor, b, "receipt", KeyName(b, "receipt")) # Missing /\ SignatureHolds(b, anchor, "receipt")
        /\ b.approval.approves = b.object /\ b.receipt.approval = b.approval /\ ~Expired(b.approval, time)
    BY DEF VerifyBundle
  <1> QED BY <1>1, <1>2, Zenon DEF SignatureHolds, Expired

LEMMA AcceptKeeps ==
  ASSUME BundleInv, NEW o \in Objects, NEW a \in BoundApprovals, NEW r \in Receipts(BoundApprovals),
         NEW x \in SignaturesFor("object", o), NEW y \in SignaturesFor("approval", a),
         NEW z \in SignaturesFor("receipt", r), NEW asserted, NEW time \in VerifyTimes, NEW b,
         b = ProofBundle(o, a, r, [object |-> x, approval |-> y, receipt |-> z], asserted),
         NEW anchor \in Anchors(b), AcceptBundle(b, anchor, time)
  PROVE  BundleInv'
  <1>1. bundle' = b /\ said' = [anchor |-> anchor, time |-> time] /\ facts' = facts /\ VerifyBundle(b, anchor, time) = "ok"
    BY DEF AcceptBundle
  <1>2. b.object = o /\ b.approval = a /\ b.receipt = r /\ b.sigs.object = x /\ b.sigs.approval = y /\ b.sigs.receipt = z
    BY DEF ProofBundle
  <1>3. o.signer = "s" /\ a.approver = "p" /\ a.notAfter \in Int /\ r.ledger = "l"
    BY PartsAre
  <1>4. anchor # Missing /\ ~anchor.selfDerived
    BY <1>1, VerifiedMeans
  <1>5. FromBundleSelfAsserted(b).selfDerived
    BY DEF FromBundleSelfAsserted
  <1>6. PICK roles \in SUBSET RoleNames : anchor = Independent(roles)
    <2>1. {"object", "approval"} \in SUBSET RoleNames /\ RoleNames \in SUBSET RoleNames
      BY HoldersAre
    <2>2. anchor = Independent(RoleNames) \/ anchor = Independent({"object", "approval"})
      BY <1>4, <1>5, Zenon DEF Anchors
    <2> QED BY <2>1, <2>2
  <1>7. "object" \in RoleNames /\ "approval" \in RoleNames /\ "receipt" \in RoleNames
    BY HoldersAre
  <1>8. /\ ResolveKey(anchor, b, "object", "s") \in {Missing, "s"}
        /\ ResolveKey(anchor, b, "approval", "p") \in {Missing, "p"}
        /\ ResolveKey(anchor, b, "receipt", "l") \in {Missing, "l"}
    <2>1. ResolveKey(Independent(roles), b, "object", Holder["object"]) \in {Missing, Holder["object"]}
      BY <1>7, AnchorKnows
    <2>2. ResolveKey(Independent(roles), b, "approval", Holder["approval"]) \in {Missing, Holder["approval"]}
      BY <1>7, AnchorKnows
    <2>3. ResolveKey(Independent(roles), b, "receipt", Holder["receipt"]) \in {Missing, Holder["receipt"]}
      BY <1>7, AnchorKnows
    <2> QED BY <1>6, <2>1, <2>2, <2>3, HoldersAre
  <1>9. x = "s" /\ y = "p" /\ z = "l"
    <2>1. /\ ResolveKey(anchor, b, "object", "s") # Missing /\ x = ResolveKey(anchor, b, "object", "s")
          /\ ResolveKey(anchor, b, "approval", "p") # Missing /\ y = ResolveKey(anchor, b, "approval", "p")
          /\ ResolveKey(anchor, b, "receipt", "l") # Missing /\ z = ResolveKey(anchor, b, "receipt", "l")
      BY <1>1, <1>2, <1>3, VerifiedMeans
    <2> QED BY <1>8, <2>1
  <1>10. o \in Signed("object") /\ a \in Signed("approval") /\ r \in Signed("receipt")
    <2>1. x # "m" /\ y # "m" /\ z # "m"
      BY <1>9
    <2>2. o \in Signed("object")
      BY <2>1, Zenon DEF SignaturesFor
    <2>3. a \in Signed("approval")
      BY <2>1, Zenon DEF SignaturesFor
    <2>4. r \in Signed("receipt")
      BY <2>1, Zenon DEF SignaturesFor
    <2> QED BY <2>2, <2>3, <2>4
  <1>11. a.approves = o /\ r.approval = a /\ time <= a.notAfter
    <2>1. a.approves = o /\ r.approval = a /\ ~(time > a.notAfter)
      BY <1>1, <1>2, VerifiedMeans
    <2> QED BY <1>3, <2>1, ProofRecordsConstants
  <1>12. Signed("object")' = Signed("object") /\ Signed("approval")' = Signed("approval") /\ Signed("receipt")' = Signed("receipt")
    BY <1>1, SignedUnchanged
  <1>13. said'.time = time
    BY <1>1
  <1>14. /\ bundle'.object = o /\ bundle'.approval = a /\ bundle'.receipt = r
    BY <1>1, <1>2
  <1>15. BundleTellsOneStory'
    BY <1>10, <1>11, <1>12, <1>13, <1>14 DEF BundleTellsOneStory
  <1> QED BY <1>12, <1>15, Zenon DEF BundleInv

AcceptStep ==
  \E o \in Objects, a \in BoundApprovals, r \in Receipts(BoundApprovals) :
  \E x \in SignaturesFor("object", o), y \in SignaturesFor("approval", a),
     z \in SignaturesFor("receipt", r), asserted \in AssertedKeys, time \in VerifyTimes : \E b :
    /\ b = ProofBundle(o, a, r, [object |-> x, approval |-> y, receipt |-> z], asserted)
    /\ \E anchor \in Anchors(b) : AcceptBundle(b, anchor, time)

LEMMA BundleSteps ==
  ASSUME BundleNext
  PROVE  \/ \E o \in Objects : SignFact("object", o)
         \/ \E a \in BoundApprovals : SignFact("approval", a)
         \/ \E r \in Receipts(Signed("approval")) : SignFact("receipt", r)
         \/ AcceptStep
  BY Zenon DEF BundleNext, AcceptStep

LEMMA BundleNextKeeps == ASSUME BundleInv, BundleNext PROVE BundleInv'
  <1>1. ASSUME NEW r \in Receipts(Signed("approval")), SignFact("receipt", r) PROVE BundleInv'
    <2>1. r \in Receipts(BoundApprovals)
      BY DEF Receipts, BundleInv
    <2> QED BY <1>1, <2>1, SignFactKeeps
  <1>2. ASSUME NEW o \in Objects, SignFact("object", o) PROVE BundleInv'
    BY <1>2, SignFactKeeps
  <1>3. ASSUME NEW a \in BoundApprovals, SignFact("approval", a) PROVE BundleInv'
    BY <1>3, SignFactKeeps
  <1>4. ASSUME AcceptStep PROVE BundleInv'
    BY <1>4, AcceptKeeps, Zenon DEF AcceptStep
  <1> QED BY <1>1, <1>2, <1>3, <1>4, BundleSteps, Zenon

LEMMA BundleInvTells == ASSUME BundleInv PROVE BuiltBundlesVerify
  <1> SUFFICES ASSUME NEW o \in Signed("object"), NEW a \in Signed("approval"), NEW r \in Signed("receipt"),
                      NEW time \in VerifyTimes, BuildBundle(o, a, r) = "ok", time <= a.notAfter
               PROVE  VerifyBundle(ProofBundle(o, a, r, Holder, << >>),
                                   Independent(RoleNames), time) = "ok"
    BY DEF BuiltBundlesVerify
  <1>1. PICK b : b = ProofBundle(o, a, r, Holder, << >>)
    OBVIOUS
  <1>2. b.object = o /\ b.approval = a /\ b.receipt = r /\ b.sigs = Holder
    BY <1>1 DEF ProofBundle
  <1>3. a.approves = o /\ r.approval = a
    BY DEF BuildBundle
  <1>4. o.signer = "s" /\ a.approver = "p" /\ a.notAfter \in Int /\ r.ledger = "l"
    BY PartsAre DEF BundleInv
  <1>5. PICK anchor : anchor = Independent(RoleNames)
    OBVIOUS
  <1>6. anchor # Missing /\ anchor.selfDerived = FALSE
    BY <1>5, ProofRecordsConstants DEF Independent, TrustAnchor
  <1>7. KeyName(b, "object") = "s" /\ KeyName(b, "approval") = "p" /\ KeyName(b, "receipt") = "l"
    BY <1>2, <1>4 DEF KeyName
  <1>8. /\ ResolveKey(anchor, b, "object", "s") = "s" /\ ResolveKey(anchor, b, "approval", "p") = "p"
        /\ ResolveKey(anchor, b, "receipt", "l") = "l"
    <2>1. "object" \in RoleNames /\ "approval" \in RoleNames /\ "receipt" \in RoleNames
      BY HoldersAre
    <2>2. ResolveKey(anchor, b, "object", Holder["object"]) = Holder["object"]
      BY <1>5, <2>1, AnchorKnowsAll
    <2>3. ResolveKey(anchor, b, "approval", Holder["approval"]) = Holder["approval"]
      BY <1>5, <2>1, AnchorKnowsAll
    <2>4. ResolveKey(anchor, b, "receipt", Holder["receipt"]) = Holder["receipt"]
      BY <1>5, <2>1, AnchorKnowsAll
    <2> QED BY <2>2, <2>3, <2>4, HoldersAre
  <1>9. SignatureHolds(b, anchor, "object") /\ SignatureHolds(b, anchor, "approval") /\ SignatureHolds(b, anchor, "receipt")
    BY <1>2, <1>7, <1>8, HoldersAre DEF SignatureHolds
  <1>10. Missing \notin {"s", "p", "l"}
    BY ProofRecordsConstants
  <1>11. ~Expired(b.approval, time)
    BY <1>2, <1>4, ProofRecordsConstants DEF Expired
  <1>12. /\ ResolveKey(anchor, b, "object", KeyName(b, "object")) # Missing
         /\ ResolveKey(anchor, b, "approval", KeyName(b, "approval")) # Missing
         /\ ResolveKey(anchor, b, "receipt", KeyName(b, "receipt")) # Missing
    BY <1>7, <1>8, <1>10
  <1>13. ~anchor.selfDerived /\ b.approval.approves = b.object /\ b.receipt.approval = b.approval
    BY <1>2, <1>3, <1>6
  <1>14. VerifyBundle(b, anchor, time) = "ok"
    BY <1>6, <1>9, <1>11, <1>12, <1>13 DEF VerifyBundle
  <1> QED BY <1>1, <1>5, <1>14

\* What storage and carriers cannot undo.
THEOREM ProofInvariant == ProofSpec => [](LogInv /\ BundleInv)
  <1>1. ProofInit => LogInv /\ BundleInv
    BY LogInitInv, BundleInitInv
  <1>2. ASSUME LogInv, BundleInv, [ProofNext]_proofvars PROVE LogInv' /\ BundleInv'
    <2>1. CASE LogNext
      <3>1. UNCHANGED bundlevars
        BY <2>1 DEF LogNext, EmitRecord, SwapStored, DropStored, RepeatStored, AlterStored, ForgeStored, CutStored, Tamper
      <3> QED BY <1>2, <2>1, <3>1, LogNextKeeps, BundleUnchanged
    <2>2. CASE BundleNext
      <3>1. UNCHANGED logvars
        <4>1. \A role, thing : SignFact(role, thing) => UNCHANGED logvars
          BY DEF SignFact
        <4>2. \A b, anchor, time : AcceptBundle(b, anchor, time) => UNCHANGED logvars
          BY DEF AcceptBundle
        <4> QED BY <2>2, <4>1, <4>2, BundleSteps, Zenon DEF AcceptStep
      <3> QED BY <1>2, <2>2, <3>1, BundleNextKeeps, LogUnchanged
    <2>3. CASE UNCHANGED proofvars
      <3>1. UNCHANGED logvars /\ UNCHANGED bundlevars
        BY <2>3 DEF proofvars
      <3> QED BY <1>2, <3>1, LogUnchanged, BundleUnchanged
    <2> QED BY <1>2, <2>1, <2>2, <2>3 DEF ProofNext
  <1> QED BY <1>1, <1>2, PTL DEF ProofSpec

(* A log or a bundle is accepted exactly when it is a true account           *)
(* (governance_verify.verify_chain, naalp_bundle.verify_bundle,              *)
(* build_bundle), for any number of records, any tampering in storage and    *)
(* any signatures and clocks.                                                *)
THEOREM ProofsAreTrue == ProofSpec => []ProofsTellOneStory
  <1>1. LogInv /\ BundleInv => ProofsTellOneStory
    BY LogInvTells, BundleInvTells DEF ProofsTellOneStory, BundleInv
  <1> QED BY <1>1, ProofInvariant, PTL

(***************************************************************************)
(* Replay                                                                  *)
(***************************************************************************)
\* What verify_chain establishes of a log it accepts.
WellLinked(links) ==
  /\ links \in Seq(AnyRecord)
  /\ \A i, j \in 1..Len(links) : links[i].id = links[j].id => i = j
  /\ \A i \in 1..Len(links) : \A k \in DOMAIN links[i].causes : CauseInPlace(links, i, links[i].causes[k])

LEMMA LinkedBy ==
  ASSUME NEW log \in Seq(AnyRecord), NEW resolver, BadLinks(log, resolver) = {}, StrayCauses(log) = {}
  PROVE  WellLinked(log)
  <1>1. PICK n \in Nat : n = Len(log)
    OBVIOUS
  <1>2. DOMAIN log = 1..n /\ \A i \in 1..n : log[i] \in AnyRecord
    BY <1>1
  <1>3. \A i \in 1..n : \A j \in 1..(i - 1) : log[j].id # log[i].id
    BY <1>2, Zenon DEF BadLinks
  <1>4. ASSUME NEW i \in 1..n, NEW j \in 1..n, log[i].id = log[j].id PROVE i = j
    <2>1. i = j \/ j \in 1..(i - 1) \/ i \in 1..(j - 1)
      OBVIOUS
    <2> QED BY <1>3, <1>4, <2>1
  <1>5. ASSUME NEW i \in 1..n, NEW k \in DOMAIN log[i].causes PROVE CauseInPlace(log, i, log[i].causes[k])
    <2>1. log[i].causes \in CauseLists
      BY <1>2 DEF AnyRecord
    <2>2. PICK m \in 0..2 : log[i].causes \in [1..m -> Nat]
      BY <2>1 DEF CauseLists
    <2>3. k \in 1..m
      BY <2>2
    <2>4. PICK p : p = <<i, k>>
      OBVIOUS
    <2>5. p \in (DOMAIN log) \X (1..2) /\ p[1] = i /\ p[2] = k
      BY <1>2, <2>3, <2>4
    <2> QED BY <2>5, Zenon DEF StrayCauses
  <1> QED BY <1>1, <1>4, <1>5, Zenon DEF WellLinked

LEMMA ChainOk ==
  ASSUME NEW links, NEW resolver, BadLinks(links, resolver) = {}, StrayCauses(links) = {},
         Len(TopologicalOrder(links)) = Len(links)
  PROVE  VerifyRecordChain(links, resolver) = LogOk(links, TopologicalOrder(links))
  BY Zenon DEF VerifyRecordChain, BadLinks, StrayCauses

LEMMA AcceptedIsLinked ==
  ASSUME NEW log \in Seq(AnyRecord), NEW cut \in BOOLEAN, NEW resolver, NEW chain,
         chain = VerifyAndReplay(log, cut, resolver), chain.err = ""
  PROVE  WellLinked(log) /\ chain = LogOk(log, TopologicalOrder(log))
  <1>1. PICK verdict : verdict = VerifyRecordChain(log, resolver)
    OBVIOUS
  <1>2. chain = verdict
    BY <1>1 DEF VerifyAndReplay, ReadLog, LogRefused
  <1>3. VerifyRecordChain(log, resolver).err = ""
    BY <1>1, <1>2
  <1>4. BadLinks(log, resolver) = {} /\ StrayCauses(log) = {} /\ Len(TopologicalOrder(log)) = Len(log)
    BY <1>3, ChainErr
  <1>5. chain = LogOk(log, TopologicalOrder(log))
    BY <1>1, <1>2, <1>4, ChainOk
  <1>6. WellLinked(log)
    BY <1>4, LinkedBy
  <1> QED BY <1>5, <1>6

\* Of the records that are ready there is one that goes first.
LEMMA FirstExists ==
  ASSUME NEW links \in Seq(AnyRecord), \A i, j \in 1..Len(links) : links[i].id = links[j].id => i = j,
         NEW R \in SUBSET (1..Len(links)), R # {}
  PROVE  \E i \in R : \A j \in R \ {i} : Before(links, i, j)
  <1>1. PICK n \in Nat : n = Len(links)
    OBVIOUS
  <1>2. \A i \in R : i \in 1..n /\ links[i] \in AnyRecord
    BY <1>1
  <1>3. \A i \in R : links[i].created \in Nat /\ links[i].id \in Nat
    BY <1>2 DEF AnyRecord
  <1> DEFINE C == {links[i].created : i \in R}
  <1>4. C \in SUBSET Nat /\ C # {}
    <2>1. \A i \in R : links[i].created \in Nat
      BY <1>3
    <2>2. C \subseteq Nat
      BY <2>1, Zenon
    <2>3. PICK i : i \in R
      OBVIOUS
    <2>4. links[i].created \in C
      BY <2>3, Zenon
    <2> QED BY <2>2, <2>4, Zenon
  <1>5. PICK c \in C : \A y \in C : c <= y
    BY <1>4, LeastOf
  <1> DEFINE D == {links[i].id : i \in {j \in R : links[j].created = c}}
  <1>6. D \in SUBSET Nat /\ D # {}
    <2>1. D \in SUBSET Nat
      BY <1>3
    <2>2. PICK i \in R : c = links[i].created
      BY <1>5
    <2>3. links[i].id \in D
      BY <2>2
    <2> QED BY <2>1, <2>3
  <1>7. PICK d \in D : \A y \in D : d <= y
    BY <1>6, LeastOf
  <1>8. PICK i \in R : links[i].created = c /\ links[i].id = d
    BY <1>7
  <1>9. \A j \in R : c <= links[j].created /\ (links[j].created = c => d <= links[j].id)
    BY <1>5, <1>7
  <1> HIDE DEF C, D
  <1>10. ASSUME NEW j \in R \ {i} PROVE Before(links, i, j)
    <2>1. links[j].id # links[i].id
      BY <1>1, <1>2
    <2>2. links[j].created \in Nat /\ links[j].id \in Nat /\ c \in Nat /\ d \in Nat
      BY <1>3, <1>8
    <2> QED BY <1>8, <1>9, <2>1, <2>2 DEF Before
  <1> QED BY <1>10

Picked(links, done, i) ==
  /\ i \in RunReady(links, done)
  /\ \A j \in RunReady(links, done) \ {i} : Before(links, i, j)

UpTo(s, n) == {s[k] : k \in 1..n}

LEMMA UpToSame ==
  ASSUME NEW s, NEW t, NEW n \in Nat, \A k \in 1..n : s[k] = t[k]
  PROVE  UpTo(s, n) = UpTo(t, n)
  BY DEF UpTo

\* The order picks, one after the other, the first of the records that are ready.
LEMMA OrderPicks ==
  ASSUME NEW links, WellLinked(links), NEW N \in Nat, N = Len(links), NEW o, o = TopologicalOrder(links)
  PROVE  /\ o \in Seq(1..N) /\ Len(o) = N
         /\ \A n \in 1..N : Picked(links, UpTo(o, n - 1), o[n])
  <1>1. PICK f : f = RunFn(links)
    OBVIOUS
  <1>2. \A n \in 0..N : f[n] = RunBody(links, f, n)
    BY <1>1, RunFnIs
  <1>3. /\ links \in Seq(AnyRecord) /\ \A i, j \in 1..N : links[i].id = links[j].id => i = j
        /\ \A i \in 1..N : \A k \in DOMAIN links[i].causes : CauseInPlace(links, i, links[i].causes[k])
    BY DEF WellLinked
  <1> DEFINE Good(s, n) == s \in Seq(1..N) /\ Len(s) = n /\ \A m \in 1..n : Picked(links, UpTo(s, m - 1), s[m])
             G == {n \in 0..N : Good(f[n], n)}
  <1>4. 0 \in G
    <2>1. f[0] = << >>
      BY <1>2 DEF RunBody
    <2>2. << >> \in Seq(1..N) /\ Len(<< >>) = 0 /\ \A m \in 1..0 : FALSE
      OBVIOUS
    <2>3. Good(f[0], 0)
      BY <2>1, <2>2, Zenon
    <2> QED BY <2>3
  <1>5. ASSUME NEW n \in 0..N, n < N, n \in G PROVE n + 1 \in G
    <2>1. PICK s : s = f[n]
      OBVIOUS
    <2>2. s \in Seq(1..N) /\ Len(s) = n /\ \A m \in 1..n : Picked(links, UpTo(s, m - 1), s[m])
      BY <1>5, <2>1
    <2>3. PICK R : R = RunReady(links, ToSet(s))
      OBVIOUS
    <2>4. R # {}
      BY <1>3, <1>5, <2>2, <2>3, SomeoneIsReady
    <2>5. R \in SUBSET (1..N)
      BY <1>3, <2>3 DEF RunReady
    <2>6. PICK e : e = CHOOSE i \in R : \A j \in R \ {i} : Before(links, i, j)
      OBVIOUS
    <2>7. e \in R /\ \A j \in R \ {e} : Before(links, e, j)
      <3>1. \E i \in R : \A j \in R \ {i} : Before(links, i, j)
        BY <1>3, <2>4, <2>5, FirstExists
      <3> QED BY <2>6, <3>1, Zenon
    <2>8. n + 1 \in 0..N /\ n + 1 # 0 /\ (n + 1) - 1 = n
      BY <1>5
    <2>9. f[n + 1] = RunNext(links, s)
      BY <1>2, <2>1, <2>8 DEF RunBody
    <2>10. RunNext(links, s) = Append(s, e)
      BY <2>3, <2>4, <2>6, Zenon DEF RunNext
    <2>11. PICK t : t = Append(s, e)
      OBVIOUS
    <2>12. t \in Seq(1..N) /\ Len(t) = n + 1 /\ t[n + 1] = e /\ \A k \in 1..n : t[k] = s[k]
      BY <2>2, <2>5, <2>7, <2>11
    <2>13. ASSUME NEW m \in 1..(n + 1) PROVE Picked(links, UpTo(t, m - 1), t[m])
      <3>1. m - 1 \in Nat /\ \A k \in 1..(m - 1) : k \in 1..n /\ t[k] = s[k]
        BY <2>12
      <3>2. UpTo(t, m - 1) = UpTo(s, m - 1)
        BY <3>1, UpToSame
      <3>3. CASE m = n + 1
        <4>1. UpTo(s, m - 1) = ToSet(s)
          <5>1. DOMAIN s = 1..n /\ m - 1 = n
            BY <2>2, <3>3
          <5> QED BY <5>1 DEF UpTo, ToSet
        <4>2. Picked(links, ToSet(s), e)
          BY <2>3, <2>7, Zenon DEF Picked
        <4> QED BY <2>12, <3>2, <3>3, <4>1, <4>2
      <3>4. CASE m # n + 1
        <4>1. m \in 1..n
          BY <3>4
        <4> QED BY <2>2, <2>12, <3>2, <4>1
      <3> QED BY <3>3, <3>4
    <2>14. Good(t, n + 1)
      BY <2>12, <2>13
    <2> HIDE DEF Good
    <2>15. Good(f[n + 1], n + 1)
      BY <2>9, <2>10, <2>11, <2>14
    <2> QED BY <2>8, <2>15
  <1>6. N \in G
    <2> HIDE DEF G
    <2>1. \A n \in 0..N : n \in G
      BY <1>4, <1>5, AllUpTo
    <2> QED BY <2>1
  <1> HIDE DEF Good
  <1>7. o = f[N]
    BY <1>1, RunIs
  <1>8. Good(o, N)
    BY <1>6, <1>7
  <1> QED BY <1>8 DEF Good

\* The same, said of the records and not of their places in the log.
RecordsReady(S, D) == {r \in S \ D : \A c \in ToSet(r.causes) : \E d \in D : d.id = c}
GoesBefore(r, q) == r.created < q.created \/ (r.created = q.created /\ r.id < q.id)
FirstOf(S, D, r) == r \in RecordsReady(S, D) /\ \A q \in RecordsReady(S, D) \ {r} : GoesBefore(r, q)

LEMMA CausesDone ==
  ASSUME NEW links, WellLinked(links), NEW done \in SUBSET (1..Len(links)), NEW i \in 1..Len(links)
  PROVE  Indegree(links, done, i) = 0 <=> \A c \in ToSet(links[i].causes) : \E x \in done : links[x].id = c
  <1>1. /\ links \in Seq(AnyRecord) /\ \A x, y \in 1..Len(links) : links[x].id = links[y].id => x = y
        /\ \A k \in DOMAIN links[i].causes : CauseInPlace(links, i, links[i].causes[k])
    BY DEF WellLinked
  <1>2. PICK N \in Nat : N = Len(links)
    BY <1>1
  <1>3. DOMAIN links = 1..N /\ links[i] \in AnyRecord
    BY <1>1, <1>2
  <1>4. PICK cs : cs = links[i].causes
    OBVIOUS
  <1>5. PICK m \in 0..2 : cs \in [1..m -> Nat]
    BY <1>3, <1>4 DEF AnyRecord, CauseLists
  <1>6. DOMAIN cs = 1..m
    BY <1>5
  <1> DEFINE K == {k \in DOMAIN cs : At(links, cs[k]) \notin done}
  <1>7. IsFiniteSet(K)
    <2>1. IsFiniteSet(1..m) /\ K \in SUBSET (1..m)
      BY <1>6, IntervalSize
    <2> QED BY <2>1, FS_Subset
  <1>8. Indegree(links, done, i) = 0 <=> K = {}
    <2>1. Indegree(links, done, i) = Cardinality(K)
      BY <1>4, Zenon DEF Indegree
    <2> HIDE DEF K
    <2> QED BY <1>7, <2>1, FS_EmptySet, Zenon
  <1>9. ASSUME NEW k \in DOMAIN cs
        PROVE  At(links, cs[k]) \in done <=> \E x \in done : links[x].id = cs[k]
    <2>1. \E j \in DOMAIN links : links[j].id = cs[k]
      BY <1>1, <1>4 DEF CauseInPlace
    <2>2. At(links, cs[k]) \in 1..N /\ links[At(links, cs[k])].id = cs[k]
      BY <1>3, <2>1, Zenon DEF At
    <2>3. \A x \in done : x \in 1..N /\ (links[x].id = cs[k] => x = At(links, cs[k]))
      BY <1>1, <1>2, <2>2
    <2> QED BY <2>2, <2>3
  <1>10. K = {} <=> \A k \in DOMAIN cs : \E x \in done : links[x].id = cs[k]
    BY <1>9
  <1>11. (\A k \in DOMAIN cs : \E x \in done : links[x].id = cs[k]) <=>
           \A c \in ToSet(cs) : \E x \in done : links[x].id = c
    BY DEF ToSet
  <1> QED BY <1>4, <1>8, <1>10, <1>11

LEMMA PickedIsFirst ==
  ASSUME NEW links, WellLinked(links), NEW done \in SUBSET (1..Len(links)), NEW i, Picked(links, done, i),
         NEW D, D = {links[x] : x \in done}
  PROVE  FirstOf(ToSet(links), D, links[i])
  <1>1. links \in Seq(AnyRecord) /\ \A x, y \in 1..Len(links) : links[x].id = links[y].id => x = y
    BY DEF WellLinked
  <1>2. PICK N \in Nat : N = Len(links)
    BY <1>1
  <1>3. DOMAIN links = 1..N
    BY <1>1, <1>2
  <1>4. ASSUME NEW j \in 1..N PROVE j \in RunReady(links, done) <=> links[j] \in RecordsReady(ToSet(links), D)
    <2>1. links[j] \in ToSet(links)
      BY <1>3 DEF ToSet
    <2>2. links[j] \in D <=> j \in done
      <3>1. ASSUME NEW x \in done, links[x] = links[j] PROVE x = j
        BY <1>1, <1>2, <3>1
      <3> QED BY <3>1
    <2>3. Indegree(links, done, j) = 0 <=> \A c \in ToSet(links[j].causes) : \E x \in done : links[x].id = c
      BY <1>2, CausesDone
    <2>4. \A c : (\E x \in done : links[x].id = c) <=> \E d \in D : d.id = c
      OBVIOUS
    <2>5. j \in RunReady(links, done) <=> j \notin done /\ Indegree(links, done, j) = 0
      BY <1>3 DEF RunReady
    <2>6. links[j] \in RecordsReady(ToSet(links), D) <=>
            links[j] \notin D /\ \A c \in ToSet(links[j].causes) : \E d \in D : d.id = c
      BY <2>1 DEF RecordsReady
    <2> QED BY <2>2, <2>3, <2>4, <2>5, <2>6
  <1>5. i \in RunReady(links, done) /\ i \in 1..N
    BY <1>3 DEF Picked, RunReady
  <1>6. links[i] \in RecordsReady(ToSet(links), D)
    BY <1>4, <1>5
  <1>7. ASSUME NEW q \in RecordsReady(ToSet(links), D), q # links[i] PROVE GoesBefore(links[i], q)
    <2>1. PICK j \in 1..N : q = links[j]
      BY <1>3 DEF RecordsReady, ToSet
    <2>2. j \in RunReady(links, done) /\ j # i
      BY <1>4, <1>7, <2>1
    <2>3. Before(links, i, j)
      BY <2>2 DEF Picked
    <2> QED BY <2>1, <2>3, Zenon DEF Before, GoesBefore
  <1> QED BY <1>6, <1>7 DEF FirstOf

LEMMA OneFirst ==
  ASSUME NEW S \in SUBSET AnyRecord, NEW D, NEW r, NEW q, FirstOf(S, D, r), FirstOf(S, D, q)
  PROVE  r = q
  <1>1. r \in AnyRecord /\ q \in AnyRecord
    BY DEF FirstOf, RecordsReady
  <1>2. r.created \in Nat /\ r.id \in Nat /\ q.created \in Nat /\ q.id \in Nat
    BY <1>1 DEF AnyRecord
  <1>3. ASSUME r # q PROVE GoesBefore(r, q) /\ GoesBefore(q, r)
    BY <1>3 DEF FirstOf
  <1> QED BY <1>2, <1>3 DEF GoesBefore

\* What is replayed in the n-th place.
Nth(links, n) == links[TopologicalOrder(links)[n]]

LEMMA NthIsFirst ==
  ASSUME NEW links, WellLinked(links), NEW n \in 1..Len(links)
  PROVE  FirstOf(ToSet(links), {Nth(links, k) : k \in 1..(n - 1)}, Nth(links, n))
  <1>1. links \in Seq(AnyRecord)
    BY DEF WellLinked
  <1>2. PICK N \in Nat : N = Len(links)
    BY <1>1
  <1>3. PICK o : o = TopologicalOrder(links)
    OBVIOUS
  <1>4. o \in Seq(1..N) /\ Len(o) = N /\ Picked(links, UpTo(o, n - 1), o[n])
    BY <1>2, <1>3, OrderPicks
  <1>5. UpTo(o, n - 1) \in SUBSET (1..N)
    <2>1. \A k \in 1..(n - 1) : k \in 1..N
      BY <1>2
    <2>2. \A k \in 1..N : o[k] \in 1..N
      BY <1>4
    <2> QED BY <2>1, <2>2 DEF UpTo
  <1>6. {links[x] : x \in UpTo(o, n - 1)} = {Nth(links, k) : k \in 1..(n - 1)}
    BY <1>3 DEF UpTo, Nth
  <1>7. FirstOf(ToSet(links), {links[x] : x \in UpTo(o, n - 1)}, links[o[n]])
    BY <1>2, <1>4, <1>5, PickedIsFirst
  <1> QED BY <1>3, <1>6, <1>7 DEF Nth

\* Two logs of the same records have the same length ...
LEMMA SameLength ==
  ASSUME NEW links, WellLinked(links)
  PROVE  IsFiniteSet(ToSet(links)) /\ Cardinality(ToSet(links)) = Len(links)
  <1>1. links \in Seq(AnyRecord) /\ \A x, y \in 1..Len(links) : links[x].id = links[y].id => x = y
    BY DEF WellLinked
  <1>2. PICK N \in Nat : N = Len(links)
    BY <1>1
  <1>3. links \in [1..N -> ToSet(links)] /\ DOMAIN links = 1..N
    BY <1>1, <1>2 DEF ToSet
  <1>4. \A y \in ToSet(links) : \E x \in 1..N : links[x] = y
    BY <1>3 DEF ToSet
  <1>5. links \in Surjection(1..N, ToSet(links))
    BY <1>3, <1>4 DEF Surjection
  <1>6. links \in Injection(1..N, ToSet(links))
    BY <1>1, <1>2, <1>3 DEF Injection, IsInjective
  <1>7. IsFiniteSet(1..N) /\ Cardinality(1..N) = N
    BY IntervalSize
  <1> QED BY <1>2, <1>5, <1>6, <1>7, FS_Surjection

\* ... and are replayed alike.
LEMMA SameReplay ==
  ASSUME NEW L, NEW M, WellLinked(L), WellLinked(M), ToSet(L) = ToSet(M)
  PROVE  Len(L) = Len(M) /\ \A n \in 1..Len(L) : Nth(L, n) = Nth(M, n)
  <1>1. L \in Seq(AnyRecord) /\ M \in Seq(AnyRecord)
    BY DEF WellLinked
  <1>2. PICK N \in Nat : N = Len(L)
    BY <1>1
  <1>3. Len(M) = N
    BY <1>2, SameLength
  <1>4. ToSet(L) \in SUBSET AnyRecord
    BY <1>1 DEF ToSet
  <1> DEFINE G == {n \in 0..N : \A k \in 1..n : Nth(L, k) = Nth(M, k)}
  <1>5. 0 \in G
    OBVIOUS
  <1>6. ASSUME NEW n \in 0..N, n < N, n \in G PROVE n + 1 \in G
    <2>1. n + 1 \in 1..N /\ (n + 1) - 1 = n
      BY <1>6
    <2>2. {Nth(L, k) : k \in 1..n} = {Nth(M, k) : k \in 1..n}
      BY <1>6
    <2>3. FirstOf(ToSet(L), {Nth(L, k) : k \in 1..n}, Nth(L, n + 1))
      <3>1. FirstOf(ToSet(L), {Nth(L, k) : k \in 1..((n + 1) - 1)}, Nth(L, n + 1))
        BY <1>2, <2>1, NthIsFirst
      <3> QED BY <2>1, <3>1
    <2>4. FirstOf(ToSet(M), {Nth(M, k) : k \in 1..n}, Nth(M, n + 1))
      <3>1. FirstOf(ToSet(M), {Nth(M, k) : k \in 1..((n + 1) - 1)}, Nth(M, n + 1))
        BY <1>3, <2>1, NthIsFirst
      <3> QED BY <2>1, <3>1
    <2>5. Nth(L, n + 1) = Nth(M, n + 1)
      BY <1>4, <2>2, <2>3, <2>4, OneFirst
    <2>6. \A k \in 1..(n + 1) : k \in 1..n \/ k = n + 1
      OBVIOUS
    <2>7. n + 1 \in 0..N
      BY <2>1
    <2> QED BY <1>6, <2>5, <2>6, <2>7
  <1>7. N \in G
    <2> HIDE DEF G
    <2>1. \A n \in 0..N : n \in G
      BY <1>5, <1>6, AllUpTo
    <2> QED BY <2>1
  <1> QED BY <1>2, <1>3, <1>7

LEMMA ReplayIs ==
  ASSUME NEW log, WellLinked(log), NEW chain, chain = LogOk(log, TopologicalOrder(log))
  PROVE  /\ DOMAIN Replay(chain) = 1..Len(log) /\ DOMAIN chain.order = 1..Len(log) /\ chain.links = log
         /\ \A n \in 1..Len(log) : Replay(chain)[n] = Nth(log, n)
  <1>1. PICK o : o = TopologicalOrder(log)
    OBVIOUS
  <1>2. chain.links = log /\ chain.order = o
    BY <1>1 DEF LogOk
  <1>3. PICK N \in Nat : N = Len(log)
    BY DEF WellLinked
  <1>4. o \in Seq(1..N) /\ Len(o) = N
    BY <1>1, <1>3, OrderPicks
  <1>5. DOMAIN o = 1..N
    BY <1>4
  <1>6. Replay(chain) = [n \in DOMAIN o |-> log[o[n]]]
    BY <1>2, Zenon DEF Replay
  <1>7. \A n \in 1..N : log[o[n]] = Nth(log, n)
    BY <1>1 DEF Nth
  <1> QED BY <1>2, <1>3, <1>5, <1>6, <1>7

LEMMA ReceiptIs ==
  ASSUME NEW log, WellLinked(log), NEW chain, chain = LogOk(log, TopologicalOrder(log)),
         NEW ids, ids = [n \in 1..Len(log) |-> Nth(log, n).id]
  PROVE  VerificationReceipt(chain) =
           [count |-> Len(log), digest |-> ids, ends |-> IF ids = << >> THEN {} ELSE {ids[1], Last(ids)}]
  <1>1. PICK D : D = 1..Len(log)
    OBVIOUS
  <1>2. DOMAIN chain.order = D /\ chain.links = log /\ \A n \in D : Replay(chain)[n] = Nth(log, n)
    BY <1>1, ReplayIs
  <1>3. [n \in DOMAIN chain.order |-> Replay(chain)[n].id] = ids
    BY <1>1, <1>2
  <1> QED BY <1>2, <1>3, Zenon DEF VerificationReceipt

LEMMA SameReceipt ==
  ASSUME NEW L, NEW M, WellLinked(L), WellLinked(M), ToSet(L) = ToSet(M)
  PROVE  VerificationReceipt(LogOk(L, TopologicalOrder(L))) = VerificationReceipt(LogOk(M, TopologicalOrder(M)))
  <1>1. Len(L) = Len(M) /\ \A n \in 1..Len(L) : Nth(L, n) = Nth(M, n)
    BY SameReplay
  <1>2. PICK ids : ids = [n \in 1..Len(L) |-> Nth(L, n).id]
    OBVIOUS
  <1>3. ids = [n \in 1..Len(M) |-> Nth(M, n).id]
    BY <1>1, <1>2
  <1>4. VerificationReceipt(LogOk(L, TopologicalOrder(L))) =
          [count |-> Len(L), digest |-> ids, ends |-> IF ids = << >> THEN {} ELSE {ids[1], Last(ids)}]
    BY <1>2, ReceiptIs
  <1>5. VerificationReceipt(LogOk(M, TopologicalOrder(M))) =
          [count |-> Len(M), digest |-> ids, ends |-> IF ids = << >> THEN {} ELSE {ids[1], Last(ids)}]
    BY <1>3, ReceiptIs
  <1> QED BY <1>1, <1>4, <1>5

\* No record is replayed before its causes.
LEMMA CausesFirst ==
  ASSUME NEW log, WellLinked(log), NEW chain, chain = LogOk(log, TopologicalOrder(log)), NEW replayed, replayed = Replay(chain),
         NEW n \in DOMAIN replayed, NEW c \in ToSet(replayed[n].causes)
  PROVE  \E k \in 1..(n - 1) : replayed[k].id = c
  <1>1. n \in 1..Len(log) /\ \A k \in 1..Len(log) : replayed[k] = Nth(log, k)
    BY ReplayIs
  <1>2. FirstOf(ToSet(log), {Nth(log, k) : k \in 1..(n - 1)}, Nth(log, n))
    BY <1>1, NthIsFirst
  <1>3. Nth(log, n) = replayed[n]
    BY <1>1
  <1>4. \E d \in {Nth(log, k) : k \in 1..(n - 1)} : d.id = c
    BY <1>2, <1>3 DEF FirstOf, RecordsReady
  <1>5. PICK k \in 1..(n - 1) : Nth(log, k).id = c
    BY <1>4
  <1>6. Len(log) \in Nat
    BY DEF WellLinked
  <1>7. k \in 1..Len(log)
    BY <1>1, <1>6
  <1> QED BY <1>1, <1>5, <1>7

LEMMA AllCausesFirst ==
  ASSUME NEW log, WellLinked(log)
  PROVE  \A replayed \in {Replay(LogOk(log, TopologicalOrder(log)))} :
           \A n \in DOMAIN replayed : \A c \in ToSet(replayed[n].causes) :
             \E k \in 1..(n - 1) : replayed[k].id = c
  BY CausesFirst

(* The replay of an accepted log is a function of its records and not of     *)
(* their order in storage, and puts causes before effects                    *)
(* (governance_verify._topological_order, replay,                            *)
(* sign_verification_receipt): an action property, over every step of        *)
(* storage and of the agents.                                                *)
THEOREM ReplayStaysCanonical == ProofSpec => ReplayIsCanonical
  <1>1. ASSUME LogInv, LogInv'
        PROVE  [\A log \in {stored'}, cut \in {torn'} :
                \A before \in {VerifyAndReplay(stored, torn, [a |-> "a", b |-> "b"])},
                   after \in {VerifyAndReplay(log, cut, [a |-> "a", b |-> "b"])} :
                  after.err = "" =>
                    /\ before.err = "" /\ ToSet(stored) = ToSet(log) => VerificationReceipt(before) = VerificationReceipt(after)
                    /\ \A replayed \in {Replay(after)} :
                         \A n \in DOMAIN replayed : \A c \in ToSet(replayed[n].causes) :
                           \E k \in 1..(n - 1) : replayed[k].id = c]_proofvars
    <2> DEFINE Honest == [a |-> "a", b |-> "b"]
    <2> SUFFICES ASSUME NEW log \in {stored'}, NEW cut \in {torn'},
                        NEW before \in {VerifyAndReplay(stored, torn, Honest)},
                        NEW after \in {VerifyAndReplay(log, cut, Honest)}, after.err = ""
                 PROVE  /\ before.err = "" /\ ToSet(stored) = ToSet(log) => VerificationReceipt(before) = VerificationReceipt(after)
                        /\ \A replayed \in {Replay(after)} :
                             \A n \in DOMAIN replayed : \A c \in ToSet(replayed[n].causes) :
                               \E k \in 1..(n - 1) : replayed[k].id = c
      BY Zenon
    <2> HIDE DEF Honest
    <2>1. log = stored' /\ cut = torn' /\ before = VerifyAndReplay(stored, torn, Honest) /\ after = VerifyAndReplay(log, cut, Honest)
      OBVIOUS
    <2>2. stored \in Seq(AnyRecord) /\ log \in Seq(AnyRecord)
      BY <1>1, <2>1 DEF LogInv
    <2>3. torn \in BOOLEAN /\ cut \in BOOLEAN
      BY <1>1, <2>1 DEF LogInv
    <2>4. WellLinked(log) /\ after = LogOk(log, TopologicalOrder(log))
      BY <2>1, <2>2, <2>3, AcceptedIsLinked
    <2>5. ASSUME before.err = "", ToSet(stored) = ToSet(log) PROVE VerificationReceipt(before) = VerificationReceipt(after)
      <3>1. WellLinked(stored) /\ before = LogOk(stored, TopologicalOrder(stored))
        BY <2>1, <2>2, <2>3, <2>5, AcceptedIsLinked
      <3> QED BY <2>4, <2>5, <3>1, SameReceipt
    <2>6. \A replayed \in {Replay(after)} :
            \A n \in DOMAIN replayed : \A c \in ToSet(replayed[n].causes) :
              \E k \in 1..(n - 1) : replayed[k].id = c
      BY <2>4, AllCausesFirst, Zenon
    <2> QED BY <2>5, <2>6, Zenon
  <1> QED BY <1>1, ProofInvariant, PTL DEF ReplayIsCanonical

(***************************************************************************)
(* Chains of signed records                                                *)
(***************************************************************************)
LEMMA AppendFn ==
  ASSUME NEW n \in Nat, NEW g, g = [j \in 1..n |-> g[j]], NEW e
  PROVE  Len(g) = n /\ Append(g, e) = [j \in 1..(n + 1) |-> IF j = n + 1 THEN e ELSE g[j]]
  <1>1. PICK S : S = {g[j] : j \in 1..n} \cup {e}
    OBVIOUS
  <1>2. \A j \in 1..n : g[j] \in S
    BY <1>1
  <1>3. g \in Seq(S) /\ Len(g) = n
    BY <1>2, IsASeq
  <1>4. e \in S
    BY <1>1
  <1>5. PICK h : h = Append(g, e)
    OBVIOUS
  <1>6. h \in Seq(S) /\ Len(h) = n + 1 /\ h[n + 1] = e /\ \A j \in 1..n : h[j] = g[j]
    BY <1>3, <1>4, <1>5, AppendProperties
  <1>7. h = [j \in 1..(n + 1) |-> h[j]]
    BY <1>6, LenProperties
  <1>8. \A j \in 1..(n + 1) : h[j] = IF j = n + 1 THEN e ELSE g[j]
    BY <1>6
  <1> QED BY <1>3, <1>5, <1>7, <1>8

\* What has been hashed when the first n records of a chain are in place.
HeadUpTo(l, n) == [j \in 1..n |-> [what |-> l[j].what, seq |-> j - 1]]
ChainEntry(l, i, x, y) ==
  [what |-> l[i].what, seq |-> i - 1, extra |-> x, bad |-> y, prev |-> HeadUpTo(l, i - 1)]
IsChain(l) == Len(l) \in Nat /\ l = [i \in 1..Len(l) |-> ChainEntry(l, i, FALSE, FALSE)]

LEMMA ChainAt ==
  ASSUME NEW l, IsChain(l), NEW i \in 1..Len(l)
  PROVE  l[i] = ChainEntry(l, i, FALSE, FALSE) /\ l[i].seq = i - 1 /\ l[i].prev = HeadUpTo(l, i - 1)
  <1>1. l[i] = ChainEntry(l, i, FALSE, FALSE)
    BY DEF IsChain
  <1>2. PICK b : b = l[i] /\ b = ChainEntry(l, i, FALSE, FALSE)
    BY <1>1
  <1>3. b.seq = i - 1 /\ b.prev = HeadUpTo(l, i - 1)
    BY <1>2 DEF ChainEntry
  <1> QED BY <1>2, <1>3

LEMMA NextHead ==
  ASSUME NEW l, NEW n \in Nat
  PROVE  Append(HeadUpTo(l, n), [what |-> l[n + 1].what, seq |-> n]) = HeadUpTo(l, n + 1)
  <1>1. PICK g, e : g = HeadUpTo(l, n) /\ e = [what |-> l[n + 1].what, seq |-> n]
    OBVIOUS
  <1>2. g = [j \in 1..n |-> g[j]] /\ \A j \in 1..n : g[j] = [what |-> l[j].what, seq |-> j - 1]
    BY <1>1 DEF HeadUpTo
  <1>3. PICK h : h = Append(g, e)
    OBVIOUS
  <1>4. h = [j \in 1..(n + 1) |-> IF j = n + 1 THEN e ELSE g[j]]
    BY <1>2, <1>3, AppendFn
  <1>5. (n + 1) - 1 = n
    OBVIOUS
  <1>6. \A j \in 1..(n + 1) : j # n + 1 => j \in 1..n
    OBVIOUS
  <1>7. \A j \in 1..(n + 1) : h[j] = [what |-> l[j].what, seq |-> j - 1]
    BY <1>1, <1>2, <1>4, <1>5, <1>6
  <1>8. DOMAIN h = 1..(n + 1)
    BY <1>4
  <1>9. h = HeadUpTo(l, n + 1)
    BY <1>4, <1>7, <1>8 DEF HeadUpTo
  <1> QED BY <1>1, <1>3, <1>9

LEMMA HeadAfterEntry ==
  ASSUME NEW l, IsChain(l), NEW i \in 1..Len(l)
  PROVE  HeadAfter(l[i]) = HeadUpTo(l, i)
  <1>0. Len(l) \in Nat
    BY DEF IsChain
  <1>1. PICK n \in Nat : n = i - 1 /\ n + 1 = i
    BY <1>0
  <1>2. HeadAfter(l[i]) = Append(HeadUpTo(l, n), [what |-> l[i].what, seq |-> n])
    BY <1>1, ChainAt DEF HeadAfter
  <1> QED BY <1>1, <1>2, NextHead

LEMMA SameHead ==
  ASSUME NEW l, NEW m, NEW n \in Nat, HeadUpTo(l, n) = HeadUpTo(m, n)
  PROVE  \A j \in 1..n : l[j].what = m[j].what
  <1> SUFFICES ASSUME NEW j \in 1..n PROVE l[j].what = m[j].what
    OBVIOUS
  <1>1. PICK g, h : g = HeadUpTo(l, n) /\ h = HeadUpTo(m, n) /\ g = h
    OBVIOUS
  <1>2. g[j] = [what |-> l[j].what, seq |-> j - 1] /\ h[j] = [what |-> m[j].what, seq |-> j - 1]
    BY <1>1 DEF HeadUpTo
  <1>3. g[j].what = l[j].what /\ h[j].what = m[j].what
    BY <1>2
  <1> QED BY <1>1, <1>3

\* Two chains that say the same up to n are the same up to n.
LEMMA SameEntries ==
  ASSUME NEW l, NEW m, IsChain(l), IsChain(m), NEW n \in Nat, n <= Len(l), n <= Len(m),
         \A j \in 1..n : l[j].what = m[j].what
  PROVE  \A j \in 1..n : l[j] = m[j]
  <1> SUFFICES ASSUME NEW j \in 1..n PROVE l[j] = m[j]
    OBVIOUS
  <1>1. Len(l) \in Nat /\ Len(m) \in Nat
    BY DEF IsChain
  <1>2. j \in 1..Len(l) /\ j \in 1..Len(m)
    BY <1>1
  <1>3. \A i \in 1..(j - 1) : i \in 1..n
    OBVIOUS
  <1>4. HeadUpTo(l, j - 1) = HeadUpTo(m, j - 1)
    BY <1>3 DEF HeadUpTo
  <1>5. l[j] = ChainEntry(l, j, FALSE, FALSE) /\ m[j] = ChainEntry(m, j, FALSE, FALSE)
    BY <1>2, ChainAt
  <1> QED BY <1>4, <1>5 DEF ChainEntry

\* Records of chains, each linked to the one before, are the start of one of the chains.
StartOf(bs, n, l) == n <= Len(l) /\ \A j \in 1..n : bs[j] = l[j]

LEMMA LinkedIsStart ==
  ASSUME NEW bs, NEW Ls, \A l \in Ls : IsChain(l), NEW n \in Nat, n > 0,
         \A i \in 1..n : \E l \in Ls : \E k \in 1..Len(l) : bs[i] = l[k],
         \A i \in 1..n : Linked(bs, i)
  PROVE  \E l \in Ls : StartOf(bs, n, l)
  <1> DEFINE G == {m \in 0..n : m = 0 \/ \E l \in Ls : StartOf(bs, m, l)}
  <1>1. 0 \in G
    OBVIOUS
  <1>2. ASSUME NEW m \in 0..n, m < n, m \in G PROVE m + 1 \in G
    <2>1. m + 1 \in 1..n /\ m \in Nat
      BY <1>2
    <2>2. PICK l \in Ls : \E k \in 1..Len(l) : bs[m + 1] = l[k]
      BY <2>1
    <2>3. PICK k \in 1..Len(l) : bs[m + 1] = l[k]
      BY <2>2
    <2>4. IsChain(l) /\ Len(l) \in Nat
      BY DEF IsChain
    <2>5. PICK b : b = l[k] /\ b = bs[m + 1]
      BY <2>3
    <2>6. b.seq = k - 1 /\ b.prev = HeadUpTo(l, k - 1)
      BY <2>4, <2>5, ChainAt
    <2>7. b.seq = (m + 1) - 1
      BY <2>1, <2>5 DEF Linked
    <2>8. k = m + 1
      BY <2>1, <2>6, <2>7
    <2>9. CASE m = 0
      <3>1. StartOf(bs, 1, l)
        BY <2>3, <2>4, <2>8, <2>9 DEF StartOf
      <3> QED BY <2>1, <2>9, <3>1
    <2>10. CASE m # 0
      <3>1. PICK p \in Ls : StartOf(bs, m, p)
        BY <1>2, <2>10
      <3>a. IsChain(p) /\ Len(p) \in Nat /\ m <= Len(p)
        BY <3>1 DEF IsChain, StartOf
      <3>b. PICK q \in Nat : q = Len(p)
        BY <3>a
      <3>c. m \in 1..m /\ m \in 1..q /\ m + 1 # 1 /\ (m + 1) - 1 = m
        BY <2>1, <2>10, <3>a, <3>b
      <3>2. IsChain(p) /\ Len(p) \in Nat /\ m <= Len(p) /\ m \in 1..m /\ m \in 1..Len(p)
        BY <3>a, <3>b, <3>c
      <3>3. PICK c : c = bs[m] /\ c = p[m]
        BY <3>1, <3>2 DEF StartOf
      <3>4. HeadAfter(c) = HeadUpTo(p, m)
        BY <3>2, <3>3, HeadAfterEntry
      <3>5. b.prev = HeadAfter(c)
        <4>1. Linked(bs, m + 1) /\ m + 1 # 1 /\ (m + 1) - 1 = m
          BY <2>1, <3>c
        <4> QED BY <2>5, <3>3, <4>1 DEF Linked
      <3>6. HeadUpTo(l, m) = HeadUpTo(p, m)
        <4>1. k - 1 = m
          BY <2>1, <2>8
        <4> QED BY <2>6, <3>4, <3>5, <4>1
      <3>7. \A j \in 1..m : l[j].what = p[j].what
        BY <2>1, <3>6, SameHead
      <3>8. m <= Len(l)
        BY <2>1, <2>4, <2>8
      <3>9. \A j \in 1..m : l[j] = p[j]
        BY <2>1, <2>4, <3>2, <3>7, <3>8, SameEntries
      <3>10. \A j \in 1..(m + 1) : bs[j] = l[j]
        <4>1. \A j \in 1..(m + 1) : j \in 1..m \/ j = m + 1
          BY <2>1
        <4> QED BY <2>3, <2>8, <3>1, <3>9, <4>1 DEF StartOf
      <3>11. StartOf(bs, m + 1, l)
        BY <2>4, <2>8, <3>10 DEF StartOf
      <3> QED BY <2>1, <3>11
    <2> QED BY <2>9, <2>10
  <1>3. n \in G
    <2> HIDE DEF G
    <2>1. \A m \in 0..n : m \in G
      BY <1>1, <1>2, AllUpTo
    <2> QED BY <2>1
  <1> QED BY <1>3

LEMMA StartIsLinked ==
  ASSUME NEW bs, NEW l, IsChain(l), NEW n \in Nat, StartOf(bs, n, l), NEW i \in 1..n
  PROVE  Linked(bs, i)
  <1>1. Len(l) \in Nat /\ n <= Len(l)
    BY DEF IsChain, StartOf
  <1>2. i \in 1..Len(l) /\ i - 1 \in Nat
    BY <1>1
  <1>3. PICK b : b = bs[i] /\ b = l[i]
    BY DEF StartOf
  <1>4. b.seq = i - 1 /\ b.prev = HeadUpTo(l, i - 1)
    BY <1>2, <1>3, ChainAt
  <1>5. CASE i = 1
    <2>1. HeadUpTo(l, i - 1) = << >>
      BY <1>5 DEF HeadUpTo
    <2> QED BY <1>3, <1>4, <1>5, <2>1 DEF Linked
  <1>6. CASE i # 1
    <2>1. PICK k \in Nat : k = i - 1 /\ k > 0 /\ k \in 1..n /\ k \in 1..Len(l)
      BY <1>1, <1>2, <1>6
    <2>2. PICK c : c = bs[k] /\ c = l[k]
      BY <2>1 DEF StartOf
    <2>3. HeadAfter(c) = HeadUpTo(l, k)
      BY <2>1, <2>2, HeadAfterEntry
    <2> QED BY <1>3, <1>4, <1>6, <2>1, <2>2, <2>3 DEF Linked
  <1> QED BY <1>5, <1>6


Grown(l, m, b, what) ==
  /\ IsChain(m) /\ Len(m) = Len(l) + 1 /\ m[Len(l) + 1] = b /\ b.what = what
  /\ \A i \in 1..Len(l) : m[i] = l[i]
  /\ \A i \in 1..Len(l) : HeadUpTo(m, i - 1) = HeadUpTo(l, i - 1)

LEMMA GrowChain ==
  ASSUME NEW l, IsChain(l), NEW what, NEW b, b = Body(what, l), NEW m, m = Append(l, b)
  PROVE  Grown(l, m, b, what)
  <1>1. PICK n \in Nat : n = Len(l) /\ l = [i \in 1..n |-> l[i]]
    <2>1. Len(l) \in Nat /\ l = [i \in 1..Len(l) |-> ChainEntry(l, i, FALSE, FALSE)]
      BY DEF IsChain
    <2>2. DOMAIN l = 1..Len(l)
      BY <2>1
    <2> QED BY <2>1, <2>2
  <1>2. b = Body(what, l)
    OBVIOUS
  <1>3. m = [j \in 1..(n + 1) |-> IF j = n + 1 THEN b ELSE l[j]]
    BY <1>1, AppendFn
  <1>4. m[n + 1] = b /\ \A i \in 1..n : m[i] = l[i]
    BY <1>3
  <1>5. Len(m) = n + 1 /\ DOMAIN m = 1..(n + 1)
    <2>1. m = [j \in 1..(n + 1) |-> m[j]]
      BY <1>3
    <2> QED BY <2>1, AppendFn
  <1>6. b.what = what
    BY <1>2 DEF Body
  <1>7. ASSUME NEW i \in 1..(n + 1) PROVE HeadUpTo(m, i - 1) = HeadUpTo(l, i - 1)
    <2>1. \A j \in 1..(i - 1) : j \in 1..n
      OBVIOUS
    <2>2. \A j \in 1..(i - 1) : m[j] = l[j]
      BY <1>4, <2>1
    <2> QED BY <2>2 DEF HeadUpTo
  <1>8. b = [what |-> what, seq |-> n, extra |-> FALSE, bad |-> FALSE, prev |-> HeadUpTo(l, n)]
    <2>1. CASE n = 0
      <3>1. l = << >> /\ HeadUpTo(l, n) = << >>
        BY <1>1, <2>1 DEF HeadUpTo
      <3> QED BY <1>1, <1>2, <3>1 DEF Body
    <2>2. CASE n # 0
      <3>1. l # << >>
        <4>1. Len(<< >>) = 0
          OBVIOUS
        <4> QED BY <1>1, <2>2, <4>1
      <3>2. n \in 1..Len(l) /\ Last(l) = l[n]
        BY <1>1, <2>2 DEF Last
      <3>3. HeadAfter(Last(l)) = HeadUpTo(l, n)
        BY <3>2, HeadAfterEntry
      <3> QED BY <1>1, <1>2, <3>1, <3>3 DEF Body
    <2> QED BY <2>1, <2>2
  <1>9. ASSUME NEW i \in 1..(n + 1) PROVE m[i] = ChainEntry(m, i, FALSE, FALSE)
    <2>1. CASE i = n + 1
      <3>1. i - 1 = n
        BY <2>1
      <3> QED BY <1>4, <1>6, <1>7, <1>8, <2>1, <3>1 DEF ChainEntry
    <2>2. CASE i # n + 1
      <3>1. i \in 1..n
        BY <2>2
      <3>2. l[i] = ChainEntry(l, i, FALSE, FALSE)
        BY <1>1, <3>1, ChainAt
      <3> QED BY <1>4, <1>7, <3>1, <3>2 DEF ChainEntry
    <2> QED BY <2>1, <2>2
  <1>10. m = [i \in 1..(n + 1) |-> ChainEntry(m, i, FALSE, FALSE)]
    <2>1. m = [i \in 1..(n + 1) |-> m[i]]
      BY <1>3
    <2> QED BY <1>9, <2>1
  <1>11. IsChain(m)
    <2>1. n + 1 \in Nat
      OBVIOUS
    <2> QED BY <1>5, <1>10, <2>1 DEF IsChain
  <1>12. \A i \in 1..n : HeadUpTo(m, i - 1) = HeadUpTo(l, i - 1)
    BY <1>7
  <1> QED BY <1>1, <1>4, <1>5, <1>6, <1>11, <1>12 DEF Grown

LEMMA ActivityIsChain ==
  ASSUME NEW S, NEW events \in Seq(S), NEW card
  PROVE  IsChain(Activity(events, card)) /\ Len(Activity(events, card)) = Len(events)
  <1> DEFINE what(i) == [of |-> events[1].task, card |-> card, frm |-> Froms(events)[i],
                         to |-> STATE_BY_NAME[events[i].state]]
  <1>1. PICK n \in Nat : n = Len(events) /\ DOMAIN events = 1..n
    BY LenProperties
  <1>2. PICK a : a = Activity(events, card)
    OBVIOUS
  <1>3. a = [i \in 1..n |->
               [what |-> what(i), seq |-> i - 1, extra |-> FALSE, bad |-> FALSE,
                prev |-> [j \in 1..(i - 1) |-> [what |-> what(j), seq |-> j - 1]]]]
    BY <1>1, <1>2 DEF Activity
  <1> HIDE DEF what
  <1>4. \A i \in 1..n : a[i].what = what(i)
    BY <1>3
  <1>5. ASSUME NEW i \in 1..n PROVE a[i] = ChainEntry(a, i, FALSE, FALSE)
    <2>1. \A j \in 1..(i - 1) : a[j].what = what(j)
      BY <1>4
    <2>2. HeadUpTo(a, i - 1) = [j \in 1..(i - 1) |-> [what |-> what(j), seq |-> j - 1]]
      BY <2>1 DEF HeadUpTo
    <2>3. a[i] = [what |-> what(i), seq |-> i - 1, extra |-> FALSE, bad |-> FALSE, prev |-> HeadUpTo(a, i - 1)]
      BY <1>3, <2>2
    <2> QED BY <1>4, <2>3 DEF ChainEntry
  <1>6. a = [i \in 1..n |-> a[i]]
    BY <1>3
  <1>7. Len(a) = n
    BY <1>6, AppendFn
  <1>8. a = [i \in 1..n |-> ChainEntry(a, i, FALSE, FALSE)]
    BY <1>5, <1>6
  <1> QED BY <1>1, <1>2, <1>7, <1>8 DEF IsChain

AllLogs == {namelog[r] : r \in Runs} \cup {Activity(b.events, b.card) : b \in bridged}
SignerKeys == {Authority, Mallory, Classical}
FromEntry(o, l) ==
  \E k \in SignerKeys : \E i \in 1..Len(l) : \E x, y \in BOOLEAN : o = SignedBy(k, ChainEntry(l, i, x, y))
RunLogOk(r, l, objs) ==
  IsChain(l) /\ \A i \in 1..Len(l) : l[i].what.of = stream[r] /\ SignedBy(Authority, l[i]) \in objs

ChainsInv ==
  /\ surface \in Surfaces /\ DOMAIN namelog = Runs
  /\ \A r \in Runs : RunLogOk(r, namelog[r], objects)
  /\ \A o \in objects : \E l \in AllLogs : FromEntry(o, l)
  /\ bridged # {} => surface = "card"
  /\ surface = "card" => \A r \in Runs : namelog[r] = << >>
  /\ \A b \in bridged : b.events \in Seq(Events) /\ Bridgeable(b.events)

LEMMA ChainsInvInit == DescInit => ChainsInv
  <1> SUFFICES ASSUME DescInit PROVE ChainsInv
    OBVIOUS
  <1>1. surface \in Surfaces /\ namelog = [r \in Runs |-> << >>] /\ objects = {} /\ bridged = {}
    BY DEF DescInit, ChainsInit
  <1>2. Len(<< >>) = 0 /\ << >> = [i \in 1..0 |-> ChainEntry(<< >>, i, FALSE, FALSE)]
    OBVIOUS
  <1>3. IsChain(<< >>)
    BY <1>2 DEF IsChain
  <1>4. \A r \in Runs : RunLogOk(r, << >>, objects)
    BY <1>2, <1>3 DEF RunLogOk
  <1> QED BY <1>1, <1>4 DEF ChainsInv

LEMMA EntryKept ==
  ASSUME NEW o, NEW l, NEW m, FromEntry(o, l), Len(l) \in Nat, Len(m) \in Nat, Len(l) <= Len(m),
         \A i \in 1..Len(l) : m[i] = l[i], \A i \in 1..Len(l) : HeadUpTo(m, i - 1) = HeadUpTo(l, i - 1)
  PROVE  FromEntry(o, m)
  <1>1. PICK k \in SignerKeys, i \in 1..Len(l), x \in BOOLEAN, y \in BOOLEAN : o = SignedBy(k, ChainEntry(l, i, x, y))
    BY DEF FromEntry
  <1>2. ChainEntry(m, i, x, y) = ChainEntry(l, i, x, y)
    BY DEF ChainEntry
  <1>3. i \in 1..Len(m)
    OBVIOUS
  <1> QED BY <1>1, <1>2, <1>3 DEF FromEntry

LEMMA AppendRecordKeeps ==
  ASSUME ChainsInv, surface \notin {"card", "dir"}, NEW r \in Runs, NEW what \in Says(r), AppendRecord(r, what),
         bridged' = bridged
  PROVE  ChainsInv'
  <1>1. PICK l, m, b : l = namelog[r] /\ b = Body(what, l) /\ m = Append(l, b)
    OBVIOUS
  <1>2. /\ namelog' = [namelog EXCEPT ![r] = m] /\ objects' = objects \cup {SignedBy(Authority, b)}
        /\ surface' = surface /\ stream' = stream
    BY <1>1 DEF AppendRecord
  <1>3. bridged = {} /\ RunLogOk(r, l, objects) /\ IsChain(l)
    BY <1>1 DEF ChainsInv, RunLogOk
  <1>4. what.of = stream[r]
    BY DEF Says
  <1>5. /\ IsChain(m) /\ Len(m) = Len(l) + 1 /\ m[Len(l) + 1] = b /\ b.what = what
        /\ \A i \in 1..Len(l) : m[i] = l[i]
        /\ \A i \in 1..Len(l) : HeadUpTo(m, i - 1) = HeadUpTo(l, i - 1)
    <2>1. Grown(l, m, b, what)
      BY <1>1, <1>3, GrowChain, Zenon
    <2> QED BY <2>1, Zenon DEF Grown
  <1>6. Len(l) \in Nat /\ Len(m) \in Nat
    BY <1>3, <1>5 DEF IsChain
  <1>7. DOMAIN namelog' = Runs /\ namelog'[r] = m /\ \A q \in Runs : q # r => namelog'[q] = namelog[q]
    BY <1>2 DEF ChainsInv
  <1>8. \A i \in 1..Len(m) : i \in 1..Len(l) \/ i = Len(l) + 1
    BY <1>5, <1>6
  <1>9. RunLogOk(r, m, objects')
    BY <1>2, <1>3, <1>4, <1>5, <1>8 DEF RunLogOk
  <1>10. \A q \in Runs : RunLogOk(q, namelog[q], objects)'
    BY <1>2, <1>7, <1>9 DEF ChainsInv, RunLogOk
  <1>11. m \in AllLogs'
    BY <1>7 DEF AllLogs
  <1>12. ASSUME NEW o \in objects PROVE \E p \in AllLogs' : FromEntry(o, p)
    <2>1. PICK p \in AllLogs : FromEntry(o, p)
      BY DEF ChainsInv
    <2>2. PICK q \in Runs : p = namelog[q]
      BY <1>3, <2>1 DEF AllLogs
    <2>3. CASE q = r
      <3>1. FromEntry(o, m)
        <4>1. Len(l) <= Len(m) /\ FromEntry(o, l)
          BY <1>1, <1>5, <1>6, <2>1, <2>2, <2>3
        <4> QED BY <1>5, <1>6, <4>1, EntryKept
      <3> QED BY <1>11, <3>1
    <2>4. CASE q # r
      <3>1. p \in AllLogs'
        BY <1>7, <2>2, <2>4 DEF AllLogs
      <3> QED BY <2>1, <3>1
    <2> QED BY <2>3, <2>4
  <1>13. FromEntry(SignedBy(Authority, b), m)
    <2>1. PICK i : i = Len(l) + 1
      OBVIOUS
    <2>2. i \in 1..Len(m) /\ b = m[i]
      BY <1>5, <1>6, <2>1
    <2>3. b = ChainEntry(m, i, FALSE, FALSE)
      BY <1>5, <2>2, ChainAt
    <2>4. Authority \in SignerKeys
      BY DEF SignerKeys
    <2> QED BY <2>2, <2>3, <2>4 DEF FromEntry
  <1>14. \A o \in objects' : \E p \in AllLogs' : FromEntry(o, p)
    BY <1>2, <1>11, <1>12, <1>13
  <1> QED BY <1>2, <1>3, <1>7, <1>10, <1>14 DEF ChainsInv

LEMMA EntryExcept ==
  ASSUME NEW l, NEW i, NEW x, NEW y, NEW e, e = ChainEntry(l, i, x, y)
  PROVE  \A v : [e EXCEPT !.extra = v] = ChainEntry(l, i, v, y) /\ [e EXCEPT !.bad = v] = ChainEntry(l, i, x, v)
  BY DEF ChainEntry

LEMMA SignAgainKeeps ==
  ASSUME ChainsInv, surface \notin {"card", "dir"}, NEW o \in objects, NEW as, SignAgain(o, as), bridged' = bridged,
         \/ \E k \in {Mallory, Classical} : as = SignedBy(k, o.body)
         \/ as = [o EXCEPT !.body.extra = TRUE]
         \/ as = [o EXCEPT !.body.bad = TRUE]
  PROVE  ChainsInv'
  <1>1. objects' = objects \cup {as} /\ surface' = surface /\ stream' = stream /\ namelog' = namelog
    BY DEF SignAgain
  <1>2. PICK l \in AllLogs : FromEntry(o, l)
    BY DEF ChainsInv
  <1>3. PICK k \in SignerKeys, i \in 1..Len(l), x \in BOOLEAN, y \in BOOLEAN : o = SignedBy(k, ChainEntry(l, i, x, y))
    BY <1>2 DEF FromEntry
  <1>4. PICK e : e = ChainEntry(l, i, x, y) /\ o.body = e /\ o = [alg |-> k.alg, key |-> k, body |-> e]
    BY <1>3 DEF SignedBy
  <1>5. [e EXCEPT !.extra = TRUE] = ChainEntry(l, i, TRUE, y) /\ [e EXCEPT !.bad = TRUE] = ChainEntry(l, i, x, TRUE)
    <2>1. \A v : [e EXCEPT !.extra = v] = ChainEntry(l, i, v, y) /\ [e EXCEPT !.bad = v] = ChainEntry(l, i, x, v)
      <3>1. PICK x1, y1 : x1 = x /\ y1 = y
        OBVIOUS
      <3>2. e = ChainEntry(l, i, x1, y1)
        BY <1>4, <3>1, Zenon
      <3>3. \A v : [e EXCEPT !.extra = v] = ChainEntry(l, i, v, y1) /\ [e EXCEPT !.bad = v] = ChainEntry(l, i, x1, v)
        BY <3>2, EntryExcept
      <3> QED BY <3>1, <3>3, Zenon
    <2> QED BY <2>1, Zenon
  <1>6. FromEntry(as, l)
    <2>1. CASE \E j \in {Mallory, Classical} : as = SignedBy(j, o.body)
      <3>1. PICK j \in SignerKeys : as = SignedBy(j, e)
        BY <1>4, <2>1 DEF SignerKeys
      <3> QED BY <1>4, <3>1 DEF FromEntry
    <2>2. CASE as = [o EXCEPT !.body.extra = TRUE]
      <3>1. as = [alg |-> k.alg, key |-> k, body |-> [e EXCEPT !.extra = TRUE]]
        BY <1>4, <2>2
      <3>2. as = SignedBy(k, ChainEntry(l, i, TRUE, y))
        BY <1>5, <3>1 DEF SignedBy
      <3> QED BY <3>2 DEF FromEntry
    <2>3. CASE as = [o EXCEPT !.body.bad = TRUE]
      <3>1. as = [alg |-> k.alg, key |-> k, body |-> [e EXCEPT !.bad = TRUE]]
        BY <1>4, <2>3
      <3>2. as = SignedBy(k, ChainEntry(l, i, x, TRUE))
        BY <1>5, <3>1 DEF SignedBy
      <3> QED BY <3>2 DEF FromEntry
    <2> QED BY <2>1, <2>2, <2>3
  <1>7. AllLogs' = AllLogs
    BY <1>1 DEF AllLogs
  <1>8. \A p \in objects' : \E m \in AllLogs' : FromEntry(p, m)
    BY <1>1, <1>6, <1>7 DEF ChainsInv
  <1>9. \A r \in Runs : RunLogOk(r, namelog[r], objects)'
    BY <1>1 DEF ChainsInv, RunLogOk
  <1> QED BY <1>1, <1>8, <1>9 DEF ChainsInv

LEMMA BridgeKeeps ==
  ASSUME ChainsInv, NEW events \in Seq(Events), NEW card, BridgeActivity(events, card)
  PROVE  ChainsInv'
  <1>1. PICK a, e : a = Activity(events, card) /\ e = [events |-> events, card |-> card]
    OBVIOUS
  <1>2. /\ objects' = objects \cup {SignedBy(Authority, b) : b \in ToSet(a)} /\ bridged' = bridged \cup {e}
        /\ surface' = surface /\ stream' = stream /\ namelog' = namelog /\ surface = "card" /\ Bridgeable(events)
    BY <1>1 DEF BridgeActivity
  <1>3. IsChain(a) /\ e.events = events /\ e.card = card
    BY <1>1, ActivityIsChain
  <1>4. AllLogs \subseteq AllLogs' /\ a \in AllLogs'
    BY <1>1, <1>2, <1>3 DEF AllLogs
  <1>5. ASSUME NEW o \in objects' PROVE \E l \in AllLogs' : FromEntry(o, l)
    <2>1. CASE o \in objects
      BY <1>4, <2>1 DEF ChainsInv
    <2>2. CASE o \notin objects
      <3>1. PICK b \in ToSet(a) : o = SignedBy(Authority, b)
        BY <1>2, <2>2
      <3>2. PICK i \in DOMAIN a : b = a[i]
        BY DEF ToSet
      <3>3. i \in 1..Len(a)
        BY <1>3 DEF IsChain
      <3>4. o = SignedBy(Authority, ChainEntry(a, i, FALSE, FALSE))
        BY <1>3, <3>1, <3>2, <3>3, ChainAt
      <3>5. Authority \in SignerKeys
        BY DEF SignerKeys
      <3>6. FromEntry(o, a)
        BY <3>3, <3>4, <3>5 DEF FromEntry
      <3> QED BY <1>4, <3>6
    <2> QED BY <2>1, <2>2
  <1>6. \A r \in Runs : RunLogOk(r, namelog[r], objects)'
    BY <1>2 DEF ChainsInv, RunLogOk
  <1>7. \A b \in bridged' : b.events \in Seq(Events) /\ Bridgeable(b.events)
    BY <1>2, <1>3 DEF ChainsInv
  <1>8. surface' \in Surfaces /\ DOMAIN namelog' = Runs /\ surface' = "card" /\ \A r \in Runs : namelog'[r] = << >>
    BY <1>2 DEF ChainsInv
  <1> QED BY <1>5, <1>6, <1>7, <1>8, Zenon DEF ChainsInv

LEMMA ChainsUnchanged == ASSUME ChainsInv, UNCHANGED chainvars, UNCHANGED bridged PROVE ChainsInv'
  <1>1. UNCHANGED <<surface, stream, namelog, objects, bridged>>
    BY DEF chainvars
  <1>2. AllLogs' = AllLogs
    BY <1>1 DEF AllLogs
  <1>3. \A r \in Runs : RunLogOk(r, namelog[r], objects)'
    BY <1>1 DEF ChainsInv, RunLogOk
  <1>4. \A o \in objects' : \E l \in AllLogs' : FromEntry(o, l)
    BY <1>1, <1>2 DEF ChainsInv
  <1> QED BY <1>1, <1>3, <1>4 DEF ChainsInv

LEMMA SeqOfIs ==
  ASSUME NEW S, NEW m \in Nat, NEW s \in SeqOf(S, m)
  PROVE  s \in Seq(S) /\ Len(s) \in Nat /\ DOMAIN s = 1..Len(s) /\ s = [i \in 1..Len(s) |-> s[i]] /\ \A i \in 1..Len(s) : s[i] \in S
  <1>1. PICK n \in 0..m : s \in [1..n -> S]
    BY DEF SeqOf
  <1>2. n \in Nat
    OBVIOUS
  <1>3. s = [i \in 1..n |-> s[i]] /\ \A i \in 1..n : s[i] \in S
    BY <1>1
  <1>4. s \in Seq(S) /\ Len(s) = n
    BY <1>2, <1>3, IsASeq
  <1> QED BY <1>2, <1>3, <1>4

LEMMA ChainsNextKeeps == ASSUME ChainsInv, surface \notin {"card", "dir"}, ChainsNext, bridged' = bridged PROVE ChainsInv'
  <1>1. CASE \E r \in Runs : \E what \in Says(r) : AppendRecord(r, what)
    BY <1>1, AppendRecordKeeps, Zenon
  <1>2. CASE \E o \in objects, k \in {Mallory, Classical} : SignAgain(o, SignedBy(k, o.body))
    <2>1. PICK o \in objects, k \in {Mallory, Classical} : SignAgain(o, SignedBy(k, o.body))
      BY <1>2
    <2>2. PICK as : as = SignedBy(k, o.body)
      OBVIOUS
    <2>3. SignAgain(o, as) /\ \E j \in {Mallory, Classical} : as = SignedBy(j, o.body)
      BY <2>1, <2>2, Zenon
    <2> QED BY <2>3, SignAgainKeeps, Zenon
  <1>3. CASE \E o \in objects : \/ SignAgain(o, [o EXCEPT !.body.extra = TRUE])
                                \/ SignAgain(o, [o EXCEPT !.body.bad = TRUE])
    <2>1. PICK o \in objects : \/ SignAgain(o, [o EXCEPT !.body.extra = TRUE])
                               \/ SignAgain(o, [o EXCEPT !.body.bad = TRUE])
      BY <1>3
    <2>2. \E as : SignAgain(o, as) /\ (as = [o EXCEPT !.body.extra = TRUE] \/ as = [o EXCEPT !.body.bad = TRUE])
      BY <2>1, Zenon
    <2> QED BY <2>2, SignAgainKeeps, Zenon
  <1> QED BY <1>1, <1>2, <1>3, Zenon DEF ChainsNext

LEMMA MinIn ==
  ASSUME NEW B, NEW n, B \subseteq 1..n, B # {}
  PROVE  Min(B) \in B /\ \A y \in B : Min(B) <= y
  <1>1. B \in SUBSET Nat
    OBVIOUS
  <1>2. \E m \in B : \A y \in B : m <= y
    BY <1>1, LeastOf
  <1> QED BY <1>2 DEF Min

LEMMA SignedIsOk ==
  ASSUME NEW o, o.alg = o.key.alg
  PROVE  VerifySign1(o, Profile, Authority) = "ok" <=> o.key = Authority
  <1>1. Authority.alg = -49 /\ ALG.mldsa65 = -49 /\ ALG.mldsa87 = -50 /\ -49 \in Registered
    BY DEF Authority, ALG, Registered
  <1>2. AlgLevel(-49) = 3 /\ ProfileMinLevel(Profile) = 3
    BY <1>1 DEF AlgLevel, ProfileMinLevel, Profile, PROFILE
  <1>3. ASSUME o.key = Authority PROVE VerifySign1(o, Profile, Authority) = "ok"
    <2>1. o.alg = -49
      BY <1>1, <1>3
    <2> QED BY <1>1, <1>2, <1>3, <2>1 DEF VerifySign1
  <1>4. ASSUME o.key # Authority PROVE VerifySign1(o, Profile, Authority) # "ok"
    BY <1>4 DEF VerifySign1
  <1> QED BY <1>3, <1>4

LEMMA LogsAreChains == ASSUME ChainsInv PROVE \A l \in AllLogs : IsChain(l)
  <1>1. \A r \in Runs : IsChain(namelog[r])
    BY DEF ChainsInv, RunLogOk
  <1>2. ASSUME NEW b \in bridged PROVE IsChain(Activity(b.events, b.card))
    <2>1. PICK ev, c : ev = b.events /\ c = b.card /\ ev \in Seq(Events)
      BY DEF ChainsInv
    <2>2. IsChain(Activity(ev, c))
      BY <2>1, ActivityIsChain
    <2> QED BY <2>1, <2>2
  <1> QED BY <1>1, <1>2 DEF AllLogs

\* What an object is: something a chain says, signed, perhaps with a field too many or too few.
EntryOf(o, l, i) ==
  /\ o.body.what = l[i].what /\ o.body.seq = i - 1 /\ o.body.prev = HeadUpTo(l, i - 1)
  /\ Parsed(o.body) = ChainEntry(l, i, FALSE, o.body.bad)

LEMMA ObjectIs ==
  ASSUME ChainsInv, NEW o \in objects
  PROVE  /\ o.alg = o.key.alg /\ o.body.bad \in BOOLEAN
         /\ \E l \in AllLogs : \E i \in 1..Len(l) : EntryOf(o, l, i)
  <1>1. PICK l \in AllLogs : FromEntry(o, l)
    BY DEF ChainsInv
  <1>2. PICK k \in SignerKeys, i \in 1..Len(l), x \in BOOLEAN, y \in BOOLEAN : o = SignedBy(k, ChainEntry(l, i, x, y))
    BY <1>1 DEF FromEntry
  <1>3. PICK x1, y1 : x1 = x /\ y1 = y
    OBVIOUS
  <1>4. PICK e : e = ChainEntry(l, i, x1, y1)
    OBVIOUS
  <1>5. o = SignedBy(k, e)
    BY <1>2, <1>3, <1>4, Zenon
  <1>6. o.alg = k.alg /\ o.key = k /\ o.body = e
    BY <1>5 DEF SignedBy
  <1>7. e.what = l[i].what /\ e.seq = i - 1 /\ e.prev = HeadUpTo(l, i - 1) /\ e.bad = y1
    BY <1>4 DEF ChainEntry
  <1>8. \A v : [e EXCEPT !.extra = v] = ChainEntry(l, i, v, y1)
    BY <1>4, EntryExcept
  <1>9. Parsed(e) = ChainEntry(l, i, FALSE, y1)
    BY <1>8, Zenon DEF Parsed
  <1>10. EntryOf(o, l, i)
    BY <1>6, <1>7, <1>9, Zenon DEF EntryOf
  <1>11. o.body.bad \in BOOLEAN
    BY <1>3, <1>6, <1>7, Zenon
  <1> QED BY <1>6, <1>10, <1>11

LEMMA ReadableIs ==
  ASSUME ChainsInv, NEW o \in objects, ~o.body.bad
  PROVE  \E l \in AllLogs : \E i \in 1..Len(l) : Parsed(o.body) = l[i]
  <1>1. PICK l \in AllLogs : \E i \in 1..Len(l) : EntryOf(o, l, i)
    BY ObjectIs
  <1>2. PICK i \in 1..Len(l) : EntryOf(o, l, i)
    BY <1>1
  <1>3. o.body.bad = FALSE
    BY ObjectIs
  <1>4. Parsed(o.body) = ChainEntry(l, i, FALSE, FALSE)
    BY <1>2, <1>3, Zenon DEF EntryOf
  <1> QED BY <1>4, LogsAreChains, ChainAt

LEMMA ParsedSays ==
  ASSUME ChainsInv, NEW o \in objects
  PROVE  Parsed(o.body).what = o.body.what
  <1>1. PICK l, i : EntryOf(o, l, i)
    BY ObjectIs
  <1>2. PICK y1 : y1 = o.body.bad
    OBVIOUS
  <1>3. Parsed(o.body) = ChainEntry(l, i, FALSE, y1)
    BY <1>1, <1>2, Zenon DEF EntryOf
  <1>4. ChainEntry(l, i, FALSE, y1).what = l[i].what
    BY DEF ChainEntry
  <1> QED BY <1>1, <1>3, <1>4 DEF EntryOf

LEMMA StartIs ==
  ASSUME NEW S, NEW m \in Nat, NEW s, \A i \in 1..m : s[i] \in S, NEW u, u = SubSeq(s, 1, m)
  PROVE  u \in Seq(S) /\ Len(u) = m /\ \A i \in 1..m : u[i] = s[i]
  <1>1. /\ u \in Seq(S)
        /\ Len(u) = IF 1 <= m THEN m - 1 + 1 ELSE 0
        /\ \A i \in 1..(m - 1 + 1) : u[i] = s[1 + i - 1]
    BY SubSeqProperties
  <1>2. m - 1 + 1 = m /\ \A i \in 1..m : 1 + i - 1 = i
    OBVIOUS
  <1> QED BY <1>1, <1>2

LEMMA FnIsSeq ==
  ASSUME NEW S, NEW m \in Nat, NEW s, s = [i \in 1..m |-> s[i]], \A i \in 1..m : s[i] \in S
  PROVE  s \in Seq(S) /\ Len(s) = m
  <1>1. s \in [1..m -> S]
    OBVIOUS
  <1> QED BY <1>1

LEMMA SameStart ==
  ASSUME NEW S, NEW m \in Nat, NEW s, NEW t, \A i \in 1..m : s[i] \in S, \A i \in 1..m : t[i] \in S
  PROVE  SubSeq(s, 1, m) = SubSeq(t, 1, m) <=> \A i \in 1..m : s[i] = t[i]
  <1>1. PICK u : u = SubSeq(s, 1, m)
    OBVIOUS
  <1>2. PICK v : v = SubSeq(t, 1, m)
    OBVIOUS
  <1>3. u \in Seq(S) /\ Len(u) = m /\ \A i \in 1..m : u[i] = s[i]
    BY <1>1, StartIs
  <1>4. v \in Seq(S) /\ Len(v) = m /\ \A i \in 1..m : v[i] = t[i]
    BY <1>2, StartIs
  <1>5. u = v <=> \A i \in 1..m : u[i] = v[i]
    BY <1>3, <1>4
  <1> QED BY <1>1, <1>2, <1>3, <1>4, <1>5

\* Prefixes, entry by entry.
LEMMA PrefixIn ==
  ASSUME NEW S, NEW s \in Seq(S), NEW t \in Seq(S)
  PROVE  IsPrefix(s, t) <=> Len(s) <= Len(t) /\ \A i \in 1..Len(s) : s[i] = t[i]
  <1>1. PICK m \in Nat, n \in Nat : m = Len(s) /\ n = Len(t)
    BY LenProperties
  <1>2. (\A i \in 1..m : s[i] \in S) /\ (\A i \in 1..n : t[i] \in S)
    BY <1>1, ElementOfSeq
  <1>3. ASSUME m <= n PROVE SubSeq(s, 1, m) = SubSeq(t, 1, m) <=> \A i \in 1..m : s[i] = t[i]
    <2>1. \A i \in 1..m : t[i] \in S
      BY <1>2, <1>3
    <2> QED BY <1>2, <2>1, SameStart
  <1> QED BY <1>1, <1>3 DEF IsPrefix

IsFn(s, m) == s = [i \in 1..m |-> s[i]]
LEMMA PrefixIs ==
  ASSUME NEW m \in Nat, NEW n \in Nat, NEW s, NEW t, IsFn(s, m), IsFn(t, n)
  PROVE  Len(s) = m /\ Len(t) = n /\ (IsPrefix(s, t) <=> m <= n /\ \A i \in 1..m : s[i] = t[i])
  <1>1. PICK S : S = {s[i] : i \in 1..m} \cup {t[i] : i \in 1..n}
    OBVIOUS
  <1>2. (\A i \in 1..m : s[i] \in S) /\ (\A i \in 1..n : t[i] \in S)
    BY <1>1
  <1>3. s \in Seq(S) /\ Len(s) = m
    BY <1>2, FnIsSeq DEF IsFn
  <1>4. t \in Seq(S) /\ Len(t) = n
    BY <1>2, FnIsSeq DEF IsFn
  <1>5. IsPrefix(s, t) <=> Len(s) <= Len(t) /\ \A i \in 1..Len(s) : s[i] = t[i]
    BY <1>3, <1>4, PrefixIn
  <1> QED BY <1>3, <1>4, <1>5

LEMMA BodiesAre ==
  ASSUME NEW objs, NEW n \in Nat, DOMAIN objs = 1..n
  PROVE  IsFn(Bodies(objs), n) /\ DOMAIN Bodies(objs) = 1..n /\ \A i \in 1..n : Bodies(objs)[i] = Parsed(objs[i].body)
  BY DEF Bodies, IsFn

LEMMA ChainIsFn == ASSUME NEW l, IsChain(l) PROVE Len(l) \in Nat /\ IsFn(l, Len(l))
  <1>1. Len(l) \in Nat /\ l = [i \in 1..Len(l) |-> ChainEntry(l, i, FALSE, FALSE)]
    BY DEF IsChain
  <1>2. PICK n : n = Len(l)
    OBVIOUS
  <1>3. l = [i \in 1..n |-> l[i]]
    BY <1>1, <1>2
  <1> QED BY <1>1, <1>2, <1>3 DEF IsFn

LEMMA StartIsPrefix ==
  ASSUME NEW l, IsChain(l), NEW n \in Nat, NEW bs, IsFn(bs, n)
  PROVE  IsPrefix(bs, l) <=> StartOf(bs, n, l)
  <1>1. PICK k : k = Len(l) /\ k \in Nat /\ IsFn(l, k)
    BY ChainIsFn
  <1>2. IsPrefix(bs, l) <=> n <= k /\ \A i \in 1..n : bs[i] = l[i]
    BY <1>1, PrefixIs
  <1> QED BY <1>1, <1>2 DEF StartOf

LEMMA RunLogs == ASSUME ChainsInv PROVE \A r \in Runs : IsChain(namelog[r]) /\ namelog[r] \in AllLogs
  BY DEF ChainsInv, RunLogOk, AllLogs

LEMMA OnlyRunLogs == ASSUME ChainsInv, surface # "card" PROVE \A l \in AllLogs : \E r \in Runs : l = namelog[r]
  BY DEF ChainsInv, AllLogs

\* What is linked from its start is the start of what some run built.
LEMMA History ==
  ASSUME ChainsInv, surface # "card", NEW n \in Nat, NEW objs \in [1..n -> objects],
         \A i \in 1..n : ~objs[i].body.bad, NEW bs, bs = Bodies(objs), NEW k \in 0..n
  PROVE  (\E r \in Runs : StartOf(bs, k, namelog[r])) <=> \A i \in 1..k : Linked(bs, i)
  <1>0. k \in Nat /\ 1..k \subseteq 1..n
    OBVIOUS
  <1>1. \A i \in 1..n : bs[i] = Parsed(objs[i].body) /\ objs[i] \in objects
    BY BodiesAre
  <1>2. \A i \in 1..k : \E l \in AllLogs : \E j \in 1..Len(l) : bs[i] = l[j]
    BY <1>0, <1>1, ReadableIs
  <1>3. ASSUME \A i \in 1..k : Linked(bs, i) PROVE \E r \in Runs : StartOf(bs, k, namelog[r])
    <2>1. CASE k = 0
      <3>1. PICK r \in Runs : IsChain(namelog[r])
        BY RunLogs, ChainsConstants
      <3> QED BY <2>1, <3>1 DEF StartOf, IsChain
    <2>2. CASE k # 0
      <3>1. PICK Ls : Ls = AllLogs /\ \A l \in Ls : IsChain(l)
        BY LogsAreChains
      <3>2. \E l \in Ls : StartOf(bs, k, l)
        <4>1. k > 0 /\ \A i \in 1..k : \E l \in Ls : \E j \in 1..Len(l) : bs[i] = l[j]
          BY <1>0, <1>2, <2>2, <3>1
        <4> QED BY <1>0, <1>3, <3>1, <4>1, LinkedIsStart, Zenon
      <3>3. PICK l \in AllLogs : StartOf(bs, k, l)
        BY <3>1, <3>2
      <3>4. PICK r \in Runs : l = namelog[r]
        BY OnlyRunLogs
      <3> QED BY <3>3, <3>4
    <2> QED BY <2>1, <2>2
  <1>4. ASSUME NEW r \in Runs, StartOf(bs, k, namelog[r]), NEW i \in 1..k PROVE Linked(bs, i)
    <2>1. PICK l : l = namelog[r] /\ IsChain(l) /\ StartOf(bs, k, l)
      BY <1>4, RunLogs
    <2> QED BY <1>0, <2>1, StartIsLinked
  <1> QED BY <1>3, <1>4

LEMMA OneStream ==
  ASSUME ChainsInv, NEW r \in Runs, NEW bs, NEW n \in Nat, StartOf(bs, n, namelog[r])
  PROVE  \A i \in 1..n : bs[i].what.of = bs[1].what.of
  <1>1. PICK l : l = namelog[r] /\ RunLogOk(r, l, objects) /\ Len(l) \in Nat
    BY DEF ChainsInv, RunLogOk, IsChain
  <1>2. \A i \in 1..n : i \in 1..Len(l) /\ bs[i] = l[i] /\ 1 \in 1..n
    BY <1>1 DEF StartOf
  <1>3. \A i \in 1..n : bs[i].what.of = stream[r]
    BY <1>1, <1>2 DEF RunLogOk
  <1> QED BY <1>2, <1>3

LEMMA NameChainOk ==
  ASSUME NEW objs, NEW key, NEW bs, bs = Bodies(objs)
  PROVE  VerifyNameChain(objs, key) = "ok" <=>
           \A i \in 1..Len(objs) : VerifyBinding(objs[i], key) = "ok" /\ bs[i].what.of = bs[1].what.of /\ Linked(bs, i)
  <1> DEFINE T(i) == IF VerifyBinding(objs[i], key) # "ok" THEN VerifyBinding(objs[i], key)
                     ELSE IF bs[i].what.of # bs[1].what.of \/ ~Linked(bs, i) THEN "NameChainBroken" ELSE "ok"
             bad == {i \in 1..Len(objs) : T(i) # "ok"}
  <1>1. VerifyNameChain(objs, key) = IF bad = {} THEN "ok" ELSE T(Min(bad))
    BY DEF VerifyNameChain, FirstFailure
  <1>2. ASSUME bad # {} PROVE T(Min(bad)) # "ok"
    <2>1. bad \subseteq 1..Len(objs) /\ \A i \in bad : T(i) # "ok"
      OBVIOUS
    <2> HIDE DEF T, bad
    <2>2. PICK B : B = bad /\ B \subseteq 1..Len(objs) /\ B # {}
      BY <1>2, <2>1
    <2>3. Min(B) \in B
      BY <2>2, MinIn
    <2> QED BY <2>1, <2>2, <2>3
  <1>3. \A i : T(i) = "ok" <=> VerifyBinding(objs[i], key) = "ok" /\ bs[i].what.of = bs[1].what.of /\ Linked(bs, i)
    OBVIOUS
  <1>4. bad = {} <=> \A i \in 1..Len(objs) : T(i) = "ok"
    OBVIOUS
  <1> HIDE DEF T, bad
  <1> QED BY <1>1, <1>2, <1>3, <1>4

LEMMA WalkHistoryOk ==
  ASSUME NEW bs
  PROVE  WalkHistory(bs) = "ok" <=>
           \A i \in 1..Len(bs) : bs[i].what.of = bs[1].what.of /\ Linked(bs, i)
  <1> DEFINE T(i) == IF bs[i].what.of # bs[1].what.of \/ ~Linked(bs, i) THEN "NameChainBroken" ELSE "ok"
             bad == {i \in 1..Len(bs) : T(i) # "ok"}
  <1>1. WalkHistory(bs) = IF bad = {} THEN "ok" ELSE T(Min(bad))
    BY DEF WalkHistory, FirstFailure
  <1>2. ASSUME bad # {} PROVE T(Min(bad)) # "ok"
    <2>1. bad \subseteq 1..Len(bs) /\ \A i \in bad : T(i) # "ok"
      OBVIOUS
    <2> HIDE DEF T, bad
    <2>2. PICK B : B = bad /\ B \subseteq 1..Len(bs) /\ B # {}
      BY <1>2, <2>1
    <2>3. Min(B) \in B
      BY <2>2, MinIn
    <2> QED BY <2>1, <2>2, <2>3
  <1>3. \A i : T(i) = "ok" <=> bs[i].what.of = bs[1].what.of /\ Linked(bs, i)
    OBVIOUS
  <1>4. bad = {} <=> \A i \in 1..Len(bs) : T(i) = "ok"
    OBVIOUS
  <1> HIDE DEF T, bad
  <1> QED BY <1>1, <1>2, <1>3, <1>4

LEMMA ShownChainOk ==
  ASSUME NEW objs, NEW key, NEW bs, bs = Bodies(objs)
  PROVE  VerifyShownChain(objs, key) = "ok" <=>
           \A i \in 1..Len(objs) : VerifyUiEvent(objs[i], key) = "ok" /\ bs[i].what.of = bs[1].what.of /\ Linked(bs, i)
  <1> DEFINE T(i) == IF VerifyUiEvent(objs[i], key) # "ok" THEN VerifyUiEvent(objs[i], key)
                     ELSE IF bs[i].what.of # bs[1].what.of \/ ~Linked(bs, i) THEN "UIChainBroken" ELSE "ok"
             bad == {i \in 1..Len(objs) : T(i) # "ok"}
  <1>1. VerifyShownChain(objs, key) = IF bad = {} THEN "ok" ELSE T(Min(bad))
    BY DEF VerifyShownChain, FirstFailure
  <1>2. ASSUME bad # {} PROVE T(Min(bad)) # "ok"
    <2>1. bad \subseteq 1..Len(objs) /\ \A i \in bad : T(i) # "ok"
      OBVIOUS
    <2> HIDE DEF T, bad
    <2>2. PICK B : B = bad /\ B \subseteq 1..Len(objs) /\ B # {}
      BY <1>2, <2>1
    <2>3. Min(B) \in B
      BY <2>2, MinIn
    <2> QED BY <2>1, <2>2, <2>3
  <1>3. \A i : T(i) = "ok" <=> VerifyUiEvent(objs[i], key) = "ok" /\ bs[i].what.of = bs[1].what.of /\ Linked(bs, i)
    OBVIOUS
  <1>4. bad = {} <=> \A i \in 1..Len(objs) : T(i) = "ok"
    OBVIOUS
  <1> HIDE DEF T, bad
  <1> QED BY <1>1, <1>2, <1>3, <1>4

LEMMA WalkShownOk ==
  ASSUME NEW bs
  PROVE  WalkShown(bs) = "ok" <=>
           \A i \in 1..Len(bs) : bs[i].what.of = bs[1].what.of /\ KnownKind(bs[i].what.kind) /\ Linked(bs, i)
  <1> DEFINE T(i) == IF bs[i].what.of # bs[1].what.of THEN "UIChainBroken"
                     ELSE IF ~KnownKind(bs[i].what.kind) THEN "UnknownUIEventKind"
                     ELSE IF ~Linked(bs, i) THEN "UIChainBroken" ELSE "ok"
             bad == {i \in 1..Len(bs) : T(i) # "ok"}
  <1>1. WalkShown(bs) = IF bad = {} THEN "ok" ELSE T(Min(bad))
    BY DEF WalkShown, FirstFailure
  <1>2. ASSUME bad # {} PROVE T(Min(bad)) # "ok"
    <2>1. bad \subseteq 1..Len(bs) /\ \A i \in bad : T(i) # "ok"
      OBVIOUS
    <2> HIDE DEF T, bad
    <2>2. PICK B : B = bad /\ B \subseteq 1..Len(bs) /\ B # {}
      BY <1>2, <2>1
    <2>3. Min(B) \in B
      BY <2>2, MinIn
    <2> QED BY <2>1, <2>2, <2>3
  <1>3. \A i : T(i) = "ok" <=> bs[i].what.of = bs[1].what.of /\ KnownKind(bs[i].what.kind) /\ Linked(bs, i)
    OBVIOUS
  <1>4. bad = {} <=> \A i \in 1..Len(bs) : T(i) = "ok"
    OBVIOUS
  <1> HIDE DEF T, bad
  <1> QED BY <1>1, <1>2, <1>3, <1>4

TaskStepOk(objs, bs, card, key, i) ==
  /\ VerifyBinding(objs[i], key) = "ok" /\ Linked(bs, i) /\ bs[i].what.card = card
  /\ bs[i].what.frm = IF i = 1 THEN 0 ELSE bs[i - 1].what.to
  /\ VerifyTransition(bs[i].what.frm, bs[i].what.to) = "ok"

LEMMA TaskChainOk ==
  ASSUME NEW objs, NEW card, NEW key, NEW bs, bs = Bodies(objs)
  PROVE  VerifyTaskChain(objs, card, key) = "ok" <=>
           \A i \in 1..Len(objs) : TaskStepOk(objs, bs, card, key, i)
  <1> DEFINE T(i) == IF VerifyBinding(objs[i], key) # "ok" THEN VerifyBinding(objs[i], key)
                     ELSE IF ~Linked(bs, i) THEN "TaskChainBroken"
                     ELSE IF bs[i].what.card # card THEN "ForeignCard"
                     ELSE IF bs[i].what.frm # (IF i = 1 THEN 0 ELSE bs[i - 1].what.to) THEN "IllegalTransition"
                     ELSE VerifyTransition(bs[i].what.frm, bs[i].what.to)
             bad == {i \in 1..Len(objs) : T(i) # "ok"}
  <1>1. VerifyTaskChain(objs, card, key) = IF bad = {} THEN "ok" ELSE T(Min(bad))
    BY DEF VerifyTaskChain, FirstFailure
  <1>2. ASSUME bad # {} PROVE T(Min(bad)) # "ok"
    <2>1. bad \subseteq 1..Len(objs) /\ \A i \in bad : T(i) # "ok"
      OBVIOUS
    <2> HIDE DEF T, bad
    <2>2. PICK B : B = bad /\ B \subseteq 1..Len(objs) /\ B # {}
      BY <1>2, <2>1
    <2>3. Min(B) \in B
      BY <2>2, MinIn
    <2> QED BY <2>1, <2>2, <2>3
  <1>3. ASSUME NEW i
        PROVE  T(i) = "ok" <=> TaskStepOk(objs, bs, card, key, i)
    <2>1. PICK b, f : b = bs[i] /\ f = IF i = 1 THEN 0 ELSE bs[i - 1].what.to
      OBVIOUS
    <2>2. PICK u, v : u = VerifyBinding(objs[i], key) /\ v = VerifyTransition(b.what.frm, b.what.to)
      OBVIOUS
    <2>3. T(i) = IF u # "ok" THEN u ELSE IF ~Linked(bs, i) THEN "TaskChainBroken"
                 ELSE IF b.what.card # card THEN "ForeignCard" ELSE IF b.what.frm # f THEN "IllegalTransition" ELSE v
      BY <2>1, <2>2, Zenon
    <2>4. T(i) = "ok" <=> u = "ok" /\ Linked(bs, i) /\ b.what.card = card /\ b.what.frm = f /\ v = "ok"
      BY <2>3
    <2> QED BY <2>1, <2>2, <2>4, Zenon DEF TaskStepOk
  <1>4. bad = {} <=> \A i \in 1..Len(objs) : T(i) = "ok"
    OBVIOUS
  <1> HIDE DEF T, bad
  <1> QED BY <1>1, <1>2, <1>3, <1>4

LEMMA BindingOk ==
  ASSUME ChainsInv, NEW o \in objects
  PROVE  VerifyBinding(o, Authority) = "ok" <=> o.key = Authority /\ ~o.body.bad
  <1>1. VerifySign1(o, Profile, Authority) = "ok" <=> o.key = Authority
    BY ObjectIs, SignedIsOk
  <1> QED BY <1>1 DEF VerifyBinding, ParseNamed

LEMMA UiEventOk ==
  ASSUME ChainsInv, NEW o \in objects
  PROVE  VerifyUiEvent(o, Authority) = "ok" <=>
           o.key = Authority /\ ~o.body.bad /\ ~o.body.extra /\ KnownKind(o.body.what.kind)
  <1>1. VerifySign1(o, Profile, Authority) = "ok" <=> o.key = Authority
    BY ObjectIs, SignedIsOk
  <1>2. ParseUiEvent(o.body) = "ok" <=> ~o.body.bad /\ ~o.body.extra
    BY DEF ParseUiEvent
  <1> QED BY <1>1, <1>2 DEF VerifyUiEvent

\* Linked from the start, and so the start of a run's chain, and so of one stream.
LEMMA PrefixHistory ==
  ASSUME ChainsInv, surface # "card", NEW n \in Nat, NEW objs \in [1..n -> objects], \A i \in 1..n : ~objs[i].body.bad,
         NEW bs, bs = Bodies(objs)
  PROVE  /\ (\E r \in Runs : IsPrefix(bs, namelog[r])) <=> \A i \in 1..n : Linked(bs, i)
         /\ (\A i \in 1..n : Linked(bs, i)) => \A i \in 1..n : bs[i].what.of = bs[1].what.of
  <1>1. IsFn(bs, n)
    BY BodiesAre
  <1>2. \A r \in Runs : IsPrefix(bs, namelog[r]) <=> StartOf(bs, n, namelog[r])
    <2> SUFFICES ASSUME NEW r \in Runs PROVE IsPrefix(bs, namelog[r]) <=> StartOf(bs, n, namelog[r])
      OBVIOUS
    <2>1. PICK l : l = namelog[r] /\ IsChain(l)
      BY RunLogs
    <2>2. IsPrefix(bs, l) <=> StartOf(bs, n, l)
      BY <1>1, <2>1, StartIsPrefix, Zenon
    <2> QED BY <2>1, <2>2
  <1>3. n \in 0..n
    OBVIOUS
  <1>4. (\E r \in Runs : StartOf(bs, n, namelog[r])) <=> \A i \in 1..n : Linked(bs, i)
    BY <1>3, History, Zenon
  <1>5. ASSUME \A i \in 1..n : Linked(bs, i) PROVE \A i \in 1..n : bs[i].what.of = bs[1].what.of
    <2>1. PICK r \in Runs : StartOf(bs, n, namelog[r])
      BY <1>4, <1>5, Zenon
    <2> QED BY <2>1, OneStream, Zenon
  <1> QED BY <1>2, <1>4, <1>5, Zenon

LEMMA NamesAreReal ==
  ASSUME ChainsInv, surface # "card", NEW n \in Nat, NEW objs \in [1..n -> objects], Len(objs) = n
  PROVE  VerifyNameChain(objs, Authority) = "ok" <=> Genuine(objs)
  <1>1. PICK bs : bs = Bodies(objs)
    OBVIOUS
  <1>2. DOMAIN objs = 1..n /\ \A i \in 1..n : objs[i] \in objects
    OBVIOUS
  <1>3. \A i \in 1..n : VerifyBinding(objs[i], Authority) = "ok" <=> objs[i].key = Authority /\ ~objs[i].body.bad
    BY <1>2, BindingOk
  <1>4. VerifyNameChain(objs, Authority) = "ok" <=>
          \A i \in 1..n : VerifyBinding(objs[i], Authority) = "ok" /\ bs[i].what.of = bs[1].what.of /\ Linked(bs, i)
    BY <1>1, NameChainOk
  <1>5. Genuine(objs) <=> /\ \A i \in 1..n : objs[i].key = Authority /\ ~objs[i].body.bad
                          /\ \E r \in Runs : IsPrefix(bs, namelog[r])
    BY <1>1, <1>2 DEF Genuine, Appended
  <1>6. ASSUME \A i \in 1..n : ~objs[i].body.bad
        PROVE  /\ (\E r \in Runs : IsPrefix(bs, namelog[r])) <=> \A i \in 1..n : Linked(bs, i)
               /\ (\A i \in 1..n : Linked(bs, i)) => \A i \in 1..n : bs[i].what.of = bs[1].what.of
    BY <1>1, <1>6, PrefixHistory, Zenon
  <1> QED BY <1>3, <1>4, <1>5, <1>6, Zenon

LEMMA ShownAreReal ==
  ASSUME ChainsInv, surface # "card", NEW n \in Nat, NEW objs \in [1..n -> objects], Len(objs) = n
  PROVE  VerifyShownChain(objs, Authority) = "ok" <=>
           Genuine(objs) /\ \A i \in DOMAIN objs : KnownKind(objs[i].body.what.kind) /\ ~objs[i].body.extra
  <1>1. PICK bs : bs = Bodies(objs)
    OBVIOUS
  <1>2. DOMAIN objs = 1..n /\ \A i \in 1..n : objs[i] \in objects
    OBVIOUS
  <1>3. \A i \in 1..n : VerifyUiEvent(objs[i], Authority) = "ok" <=>
          objs[i].key = Authority /\ ~objs[i].body.bad /\ ~objs[i].body.extra /\ KnownKind(objs[i].body.what.kind)
    BY <1>2, UiEventOk
  <1>4. VerifyShownChain(objs, Authority) = "ok" <=>
          \A i \in 1..n : VerifyUiEvent(objs[i], Authority) = "ok" /\ bs[i].what.of = bs[1].what.of /\ Linked(bs, i)
    BY <1>1, ShownChainOk
  <1>5. Genuine(objs) <=> /\ \A i \in 1..n : objs[i].key = Authority /\ ~objs[i].body.bad
                          /\ \E r \in Runs : IsPrefix(bs, namelog[r])
    BY <1>1, <1>2 DEF Genuine, Appended
  <1>6. ASSUME \A i \in 1..n : ~objs[i].body.bad
        PROVE  /\ (\E r \in Runs : IsPrefix(bs, namelog[r])) <=> \A i \in 1..n : Linked(bs, i)
               /\ (\A i \in 1..n : Linked(bs, i)) => \A i \in 1..n : bs[i].what.of = bs[1].what.of
    BY <1>1, <1>6, PrefixHistory, Zenon
  <1> QED BY <1>2, <1>3, <1>4, <1>5, <1>6, Zenon

LEMMA WalksAreReal ==
  ASSUME ChainsInv, surface # "card", NEW n \in Nat, NEW objs \in [1..n -> objects], \A i \in 1..n : ~objs[i].body.bad
  PROVE  WalkHistory(Bodies(objs)) = "ok" <=> \E r \in Runs : IsPrefix(Bodies(objs), namelog[r])
  <1>1. PICK bs : bs = Bodies(objs)
    OBVIOUS
  <1>2. IsFn(bs, n)
    BY <1>1, BodiesAre
  <1>3. Len(bs) = n
    BY <1>2, PrefixIs
  <1>4. WalkHistory(bs) = "ok" <=> \A i \in 1..n : bs[i].what.of = bs[1].what.of /\ Linked(bs, i)
    BY <1>3, WalkHistoryOk
  <1>5. /\ (\E r \in Runs : IsPrefix(bs, namelog[r])) <=> \A i \in 1..n : Linked(bs, i)
        /\ (\A i \in 1..n : Linked(bs, i)) => \A i \in 1..n : bs[i].what.of = bs[1].what.of
    BY <1>1, PrefixHistory, Zenon
  <1>6. WalkHistory(bs) = "ok" <=> \E r \in Runs : IsPrefix(bs, namelog[r])
    BY <1>4, <1>5, Zenon
  <1> QED BY <1>1, <1>6, Zenon

LEMMA ShownWalksAreReal ==
  ASSUME ChainsInv, surface # "card", NEW n \in Nat, NEW objs \in [1..n -> objects], \A i \in 1..n : ~objs[i].body.bad
  PROVE  WalkShown(Bodies(objs)) = "ok" <=>
           Appended(Bodies(objs)) /\ \A i \in DOMAIN objs : KnownKind(objs[i].body.what.kind)
  <1>1. PICK bs : bs = Bodies(objs)
    OBVIOUS
  <1>2. IsFn(bs, n) /\ DOMAIN objs = 1..n
    BY <1>1, BodiesAre
  <1>3. Len(bs) = n
    BY <1>2, PrefixIs
  <1>4. \A i \in 1..n : bs[i].what = objs[i].body.what
    <2> SUFFICES ASSUME NEW i \in 1..n PROVE bs[i].what = objs[i].body.what
      OBVIOUS
    <2>1. bs[i] = Parsed(objs[i].body) /\ objs[i] \in objects
      BY <1>1, <1>2 DEF Bodies
    <2> QED BY <2>1, ParsedSays
  <1>5. WalkShown(bs) = "ok" <=>
          \A i \in 1..n : bs[i].what.of = bs[1].what.of /\ KnownKind(bs[i].what.kind) /\ Linked(bs, i)
    BY <1>3, WalkShownOk
  <1>6. /\ (\E r \in Runs : IsPrefix(bs, namelog[r])) <=> \A i \in 1..n : Linked(bs, i)
        /\ (\A i \in 1..n : Linked(bs, i)) => \A i \in 1..n : bs[i].what.of = bs[1].what.of
    BY <1>1, PrefixHistory, Zenon
  <1>7. (\A i \in 1..n : KnownKind(bs[i].what.kind)) <=> \A i \in 1..n : KnownKind(objs[i].body.what.kind)
    BY <1>4
  <1>8. Appended(bs) <=> \E r \in Runs : IsPrefix(bs, namelog[r])
    BY DEF Appended
  <1>9. WalkShown(bs) = "ok" <=> Appended(bs) /\ \A i \in 1..n : KnownKind(objs[i].body.what.kind)
    BY <1>5, <1>6, <1>7, <1>8, Zenon
  <1> QED BY <1>1, <1>2, <1>9, Zenon

LEMMA PresentedIs ==
  ASSUME ChainsInv, NEW objs \in Presented
  PROVE  Len(objs) \in Nat /\ objs \in [1..Len(objs) -> objects]
  <1>1. PICK m \in Nat : m = MaxIssued[surface]
    BY ChainsConstants DEF ChainsInv
  <1>2. objs \in SeqOf(objects, m)
    BY <1>1 DEF Presented
  <1> QED BY <1>2, SeqOfIs

LEMMA ReadableAre ==
  ASSUME ChainsInv, NEW objs \in Readable
  PROVE  Len(objs) \in Nat /\ objs \in [1..Len(objs) -> objects] /\ \A i \in 1..Len(objs) : ~objs[i].body.bad
  <1>1. PICK m \in Nat : m = MaxIssued[surface]
    BY ChainsConstants DEF ChainsInv
  <1>2. PICK S : S = {o \in objects : ~o.body.bad}
    OBVIOUS
  <1>3. objs \in SeqOf(S, m)
    BY <1>1, <1>2 DEF Readable
  <1>4. PICK n : n = Len(objs) /\ n \in Nat /\ objs = [i \in 1..n |-> objs[i]] /\ \A i \in 1..n : objs[i] \in S
    BY <1>3, SeqOfIs
  <1>5. \A i \in 1..n : objs[i] \in objects /\ ~objs[i].body.bad
    BY <1>2, <1>4
  <1>6. objs \in [1..n -> objects]
    BY <1>4, <1>5
  <1> QED BY <1>4, <1>5, <1>6

LEMMA HistoriesHold == ASSUME ChainsInv PROVE OnlyRealHistories
  <1>1. ASSUME NEW objs \in Presented, surface # "card"
        PROVE  /\ VerifyNameChain(objs, Authority) = "ok" <=> Genuine(objs)
               /\ VerifyShownChain(objs, Authority) = "ok" <=>
                    Genuine(objs) /\ \A i \in DOMAIN objs : KnownKind(objs[i].body.what.kind) /\ ~objs[i].body.extra
    <2>1. PICK n \in Nat : n = Len(objs) /\ objs \in [1..n -> objects]
      BY <1>1, PresentedIs
    <2>2. VerifyNameChain(objs, Authority) = "ok" <=> Genuine(objs)
      BY <1>1, <2>1, NamesAreReal, Zenon
    <2>3. VerifyShownChain(objs, Authority) = "ok" <=>
            Genuine(objs) /\ \A i \in DOMAIN objs : KnownKind(objs[i].body.what.kind) /\ ~objs[i].body.extra
      BY <1>1, <2>1, ShownAreReal, Zenon
    <2> QED BY <2>2, <2>3, Zenon
  <1>2. ASSUME NEW objs \in Readable, surface # "card"
        PROVE  /\ WalkHistory(Bodies(objs)) = "ok" <=> Appended(Bodies(objs))
               /\ WalkShown(Bodies(objs)) = "ok" <=>
                    Appended(Bodies(objs)) /\ \A i \in DOMAIN objs : KnownKind(objs[i].body.what.kind)
    <2>1. PICK n \in Nat : n = Len(objs) /\ objs \in [1..n -> objects] /\ \A i \in 1..n : ~objs[i].body.bad
      BY <1>2, ReadableAre
    <2>2. WalkHistory(Bodies(objs)) = "ok" <=> Appended(Bodies(objs))
      BY <1>2, <2>1, WalksAreReal, Zenon DEF Appended
    <2> QED BY <1>2, <2>1, <2>2, ShownWalksAreReal, Zenon
  <1>3. "name" # "card" /\ "ui" # "card"
    OBVIOUS
  <1>4. \A objs : (\A i \in DOMAIN objs : KnownKind(objs[i].body.what.kind) /\ ~objs[i].body.extra) <=>
                  Plain(objs) /\ \A i \in DOMAIN objs : KnownKind(objs[i].body.what.kind)
    BY Zenon DEF Plain
  <1> QED BY <1>1, <1>2, <1>3, <1>4, Zenon DEF OnlyRealHistories, Of

LEMMA SubPrefix ==
  ASSUME NEW l, IsChain(l), NEW n \in Nat, NEW bs, IsFn(bs, n), NEW k \in 0..n
  PROVE  IsPrefix(SubSeq(bs, 1, k), l) <=> StartOf(bs, k, l)
  <1>1. PICK S : S = {bs[i] : i \in 1..n}
    OBVIOUS
  <1>2. k \in Nat /\ \A i \in 1..k : bs[i] \in S
    BY <1>1
  <1>3. PICK u : u = SubSeq(bs, 1, k)
    OBVIOUS
  <1>4. u \in Seq(S) /\ Len(u) = k /\ \A i \in 1..k : u[i] = bs[i]
    BY <1>2, <1>3, StartIs
  <1>5. IsFn(u, k)
    <2>1. u = [i \in 1..k |-> u[i]]
      BY <1>4
    <2> QED BY <2>1 DEF IsFn
  <1>6. IsPrefix(u, l) <=> StartOf(u, k, l)
    BY <1>2, <1>5, StartIsPrefix
  <1>7. StartOf(u, k, l) <=> StartOf(bs, k, l)
    BY <1>4 DEF StartOf
  <1> QED BY <1>3, <1>6, <1>7

LEMMA MaxIs ==
  ASSUME NEW R, R \subseteq Nat, NEW x \in R, \A y \in R : y <= x
  PROVE  Max(R) = x
  <1>1. \A y \in R : x >= y
    OBVIOUS
  <1>2. PICK m : m = Max(R)
    OBVIOUS
  <1>3. m \in R /\ \A y \in R : m >= y
    BY <1>1, <1>2 DEF Max
  <1>4. m >= x /\ m <= x /\ m \in Nat /\ x \in Nat
    BY <1>3
  <1> QED BY <1>2, <1>4

LEMMA HoleIs ==
  ASSUME ChainsInv, surface # "card", NEW n \in Nat, NEW objs \in [1..n -> objects], \A i \in 1..n : ~objs[i].body.bad,
         NEW bs, bs = Bodies(objs), NEW real, real = {k \in 0..n : \E r \in Runs : IsPrefix(SubSeq(bs, 1, k), namelog[r])}
  PROVE  DetectHole(bs) = IF n \in real THEN [at |-> 0, hole |-> FALSE] ELSE [at |-> Max(real), hole |-> TRUE]
  <1>1. IsFn(bs, n) /\ DOMAIN bs = 1..n
    BY BodiesAre
  <1>2. ASSUME NEW k \in 0..n PROVE k \in real <=> \A i \in 1..k : Linked(bs, i)
    <2>1. \A r \in Runs : IsPrefix(SubSeq(bs, 1, k), namelog[r]) <=> StartOf(bs, k, namelog[r])
      <3> SUFFICES ASSUME NEW r \in Runs PROVE IsPrefix(SubSeq(bs, 1, k), namelog[r]) <=> StartOf(bs, k, namelog[r])
        OBVIOUS
      <3>1. PICK l : l = namelog[r] /\ IsChain(l)
        BY RunLogs
      <3>2. IsPrefix(SubSeq(bs, 1, k), l) <=> StartOf(bs, k, l)
        BY <1>1, <3>1, SubPrefix, Zenon
      <3> QED BY <3>1, <3>2
    <2>2. (\E r \in Runs : StartOf(bs, k, namelog[r])) <=> \A i \in 1..k : Linked(bs, i)
      BY History, Zenon
    <2> QED BY <2>1, <2>2, Zenon
  <1>3. PICK broken : broken = {i \in 1..n : ~Linked(bs, i)}
    OBVIOUS
  <1>4. DetectHole(bs) = IF broken = {} THEN [at |-> 0, hole |-> FALSE] ELSE [at |-> Min(broken) - 1, hole |-> TRUE]
    BY <1>1, <1>3 DEF DetectHole
  <1>5. n \in 0..n /\ real \subseteq 0..n
    OBVIOUS
  <1>6. CASE broken = {}
    <2>1. \A i \in 1..n : Linked(bs, i)
      BY <1>3, <1>6
    <2>2. n \in real
      BY <1>2, <1>5, <2>1, Zenon
    <2> QED BY <1>4, <1>6, <2>2, Zenon
  <1>7. CASE broken # {}
    <2>1. PICK m : m = Min(broken)
      OBVIOUS
    <2>2. m \in broken /\ \A y \in broken : m <= y
      <3>1. broken \subseteq 1..n
        BY <1>3
      <3> QED BY <1>7, <2>1, <3>1, MinIn, Zenon
    <2>3. m \in 1..n /\ ~Linked(bs, m) /\ \A i \in 1..n : i < m => Linked(bs, i)
      BY <1>3, <2>2
    <2>4. m - 1 \in 0..n /\ \A i \in 1..(m - 1) : Linked(bs, i)
      BY <2>3
    <2>5. m - 1 \in real
      BY <1>2, <2>4, Zenon
    <2>6. ASSUME NEW k \in real PROVE k <= m - 1
      <3>1. k \in 0..n /\ \A i \in 1..k : Linked(bs, i)
        BY <1>2, <1>5
      <3>2. m \notin 1..k
        BY <2>3, <3>1
      <3> QED BY <2>3, <3>1, <3>2
    <2>7. PICK p : p = m - 1
      OBVIOUS
    <2>8. real \subseteq Nat /\ p \in real /\ \A y \in real : y <= p
      BY <1>5, <2>5, <2>6, <2>7
    <2>9. Max(real) = p
      BY <2>8, MaxIs, Zenon
    <2>10. n \notin real
      <3>1. ~(n <= m - 1)
        BY <2>3
      <3> QED BY <2>6, <3>1
    <2> QED BY <1>4, <1>7, <2>1, <2>7, <2>9, <2>10, Zenon
  <1> QED BY <1>6, <1>7

LEMMA HolesHold == ASSUME ChainsInv PROVE HoleAtFirstDeparture
  <1> SUFFICES ASSUME surface # "card", NEW objs \in Readable, NEW bs, bs = Bodies(objs), NEW real,
                      real = {k \in 0..Len(bs) : \E r \in Runs : IsPrefix(SubSeq(bs, 1, k), namelog[r])}
               PROVE  DetectHole(bs) = IF Len(bs) \in real THEN [at |-> 0, hole |-> FALSE] ELSE [at |-> Max(real), hole |-> TRUE]
    BY Zenon DEF HoleAtFirstDeparture, Of
  <1>1. PICK n \in Nat : n = Len(objs) /\ objs \in [1..n -> objects] /\ \A i \in 1..n : ~objs[i].body.bad
    BY ReadableAre
  <1>2. IsFn(bs, n)
    BY <1>1, BodiesAre
  <1>3. Len(bs) = n
    BY <1>2, PrefixIs
  <1>4. real = {k \in 0..n : \E r \in Runs : IsPrefix(SubSeq(bs, 1, k), namelog[r])}
    BY <1>3, Zenon
  <1>5. DetectHole(bs) = IF n \in real THEN [at |-> 0, hole |-> FALSE] ELSE [at |-> Max(real), hole |-> TRUE]
    BY <1>1, <1>4, HoleIs
  <1> QED BY <1>3, <1>5

\* One step of CategoryRun.
CategoryStep(f, t) ==
  {f, t} \subseteq 0..7 /\ t # 0 /\ t # f /\ f \notin Terminal /\ (f \in Interrupted => t \in {1} \cup Terminal)

LEMMA EdgeIs == ASSUME NEW f, NEW t PROVE VerifyTransition(f, t) = "ok" <=> CategoryStep(f, t)
  <1>1. VerifyTransition(f, t) = "ok" <=> <<f, t>> \in LegalEdges
    BY DEF VerifyTransition
  <1>a. <<f, t>> \in {<<0, 1>>} <=> f = 0 /\ t = 1
    OBVIOUS
  <1>b. \A A, B : <<f, t>> \in A \X B <=> f \in A /\ t \in B
    OBVIOUS
  <1>2. <<f, t>> \in LegalEdges <=>
          \/ f = 0 /\ t = 1
          \/ f \in {0, 1} /\ t \in Interrupted
          \/ f \in {0, 1} /\ t \in Terminal
          \/ f \in Interrupted /\ t \in {1}
          \/ f \in Interrupted /\ t \in Terminal
    BY <1>a, <1>b, Zenon DEF LegalEdges
  <1>3. ASSUME <<f, t>> \in LegalEdges PROVE CategoryStep(f, t)
    BY <1>2, <1>3 DEF Interrupted, Terminal, CategoryStep
  <1>4. ASSUME CategoryStep(f, t) PROVE <<f, t>> \in LegalEdges
    <2>1. f \in 0..7 /\ t \in 0..7 /\ t # 0 /\ t # f /\ f \notin Terminal /\ (f \in Interrupted => t \in {1} \cup Terminal)
      BY <1>4 DEF CategoryStep
    <2>2. f \in {0, 1, 2, 3} /\ t \in {1, 2, 3, 4, 5, 6, 7}
      BY <2>1 DEF Terminal
    <2> QED BY <1>2, <2>1, <2>2 DEF Interrupted, Terminal
  <1> QED BY <1>1, <1>3, <1>4

LEMMA TasksAreRuns ==
  ASSUME ChainsInv, surface # "card", NEW n \in Nat, NEW objs \in [1..n -> objects], Len(objs) = n, NEW card,
         NEW steps, steps = [i \in DOMAIN objs |-> objs[i].body.what]
  PROVE  VerifyTaskChain(objs, card, Authority) = "ok" <=>
           Genuine(objs) /\ CategoryRun(steps) /\ \A i \in DOMAIN objs : steps[i].card = card
  <1>1. PICK bs : bs = Bodies(objs)
    OBVIOUS
  <1>2. DOMAIN objs = 1..n /\ DOMAIN steps = 1..n /\ \A i \in 1..n : objs[i] \in objects
    OBVIOUS
  <1>3. \A i \in 1..n : VerifyBinding(objs[i], Authority) = "ok" <=> objs[i].key = Authority /\ ~objs[i].body.bad
    BY <1>2, BindingOk
  <1>4. \A i \in 1..n : bs[i] = Parsed(objs[i].body) /\ steps[i] = objs[i].body.what
    BY <1>1, <1>2, BodiesAre
  <1>5. \A i \in 1..n : bs[i].what = steps[i]
    BY <1>2, <1>4, ParsedSays
  <1>6. VerifyTaskChain(objs, card, Authority) = "ok" <=> \A i \in 1..n : TaskStepOk(objs, bs, card, Authority, i)
    BY <1>1, TaskChainOk
  <1> DEFINE Prev(i) == IF i = 1 THEN 0 ELSE steps[i - 1].to
  <1>7. ASSUME NEW i \in 1..n
        PROVE  (IF i = 1 THEN 0 ELSE bs[i - 1].what.to) = Prev(i)
    <2>1. i # 1 => i - 1 \in 1..n
      OBVIOUS
    <2> QED BY <1>5, <2>1
  <1> DEFINE StepOk(i) == steps[i].frm = Prev(i) /\ VerifyTransition(steps[i].frm, steps[i].to) = "ok"
  <1>8. ASSUME NEW i \in 1..n
        PROVE  TaskStepOk(objs, bs, card, Authority, i) <=>
                 objs[i].key = Authority /\ ~objs[i].body.bad /\ Linked(bs, i) /\ steps[i].card = card /\ StepOk(i)
    <2> HIDE DEF Prev
    <2>1. PICK q : q = Prev(i)
      OBVIOUS
    <2>2. TaskStepOk(objs, bs, card, Authority, i) <=>
            /\ VerifyBinding(objs[i], Authority) = "ok" /\ Linked(bs, i) /\ steps[i].card = card
            /\ steps[i].frm = q /\ VerifyTransition(steps[i].frm, steps[i].to) = "ok"
      <3>1. (IF i = 1 THEN 0 ELSE bs[i - 1].what.to) = q /\ bs[i].what = steps[i]
        BY <1>5, <1>7, <2>1
      <3> QED BY <3>1, Zenon DEF TaskStepOk
    <2> QED BY <1>3, <2>1, <2>2, Zenon
  <1>9. CategoryRun(steps) <=> \A i \in 1..n : StepOk(i)
    <2>1. CategoryRun(steps) <=> \A i \in 1..n : steps[i].frm = Prev(i) /\ CategoryStep(steps[i].frm, steps[i].to)
      BY <1>2, Zenon DEF CategoryRun, CategoryStep
    <2>2. \A i \in 1..n : VerifyTransition(steps[i].frm, steps[i].to) = "ok" <=> CategoryStep(steps[i].frm, steps[i].to)
      BY EdgeIs, Zenon
    <2> QED BY <2>1, <2>2, Zenon
  <1>10. Genuine(objs) <=> /\ \A i \in 1..n : objs[i].key = Authority /\ ~objs[i].body.bad
                           /\ \E r \in Runs : IsPrefix(bs, namelog[r])
    BY <1>1, <1>2 DEF Genuine, Appended
  <1>11. ASSUME \A i \in 1..n : ~objs[i].body.bad
         PROVE  (\E r \in Runs : IsPrefix(bs, namelog[r])) <=> \A i \in 1..n : Linked(bs, i)
    BY <1>1, <1>11, PrefixHistory, Zenon
  <1> HIDE DEF StepOk, Prev
  <1> QED BY <1>2, <1>6, <1>8, <1>9, <1>10, <1>11, Zenon

LEMMA TasksHold == ASSUME ChainsInv PROVE TaskChainIsRun
  <1>1. ASSUME surface = "task", NEW objs \in Presented, NEW card \in Cards,
               NEW steps, steps = [i \in DOMAIN objs |-> objs[i].body.what]
        PROVE  VerifyTaskChain(objs, card, Authority) = "ok" <=>
                 Genuine(objs) /\ CategoryRun(steps) /\ \A i \in DOMAIN objs : steps[i].card = card
    <2>1. PICK n \in Nat : n = Len(objs) /\ objs \in [1..n -> objects]
      BY <1>1, PresentedIs
    <2>2. surface # "card"
      BY <1>1
    <2> QED BY <1>1, <2>1, <2>2, TasksAreRuns, Zenon
  <1> QED BY <1>1, Zenon DEF TaskChainIsRun, Of

LEMMA CidIs ==
  ASSUME NEW bs, NEW n \in Nat, DOMAIN bs = 1..n, ApprovedActionCid(bs) # "none"
  PROVE  \E i \in 1..n : /\ bs[i].what.kind = APPROVED /\ ApprovedActionCid(bs) = bs[i].what.action
                         /\ \A j \in 1..n : bs[j].what.kind = APPROVED => i <= j
  <1>1. PICK yes : yes = {i \in 1..n : bs[i].what.kind = APPROVED}
    OBVIOUS
  <1>2. ApprovedActionCid(bs) = IF yes = {} THEN "none" ELSE bs[Min(yes)].what.action
    BY <1>1 DEF ApprovedActionCid
  <1>3. yes # {} /\ yes \subseteq 1..n
    BY <1>1, <1>2
  <1>4. Min(yes) \in yes /\ \A y \in yes : Min(yes) <= y
    BY <1>3, MinIn
  <1> QED BY <1>1, <1>2, <1>3, <1>4

LEMMA ConsentIs ==
  ASSUME NEW bs, NEW action, NEW appr, NEW human, NEW now \in Int, appr.not_after \in Int,
         VerifyConsent(bs, action, appr, human, now) = "ok"
  PROVE  /\ ApprovedActionCid(bs) # "none" /\ action = ApprovedActionCid(bs)
         /\ appr.key = human /\ appr.approves = action /\ now <= appr.not_after
  <1>1. PICK cid, w, v : cid = ApprovedActionCid(bs) /\ w = WalkShown(bs) /\ v = VerifyApproval(appr, human, cid, now)
    OBVIOUS
  <1>2. (IF w # "ok" THEN w ELSE IF cid = "none" THEN "UINoConsent" ELSE IF v # "ok" THEN v
         ELSE IF action # cid THEN "ActionSubstituted" ELSE "ok") = "ok"
    BY <1>1 DEF VerifyConsent
  <1>3. cid # "none" /\ v = "ok" /\ action = cid
    BY <1>2
  <1>4. appr.key = human /\ appr.approves = cid /\ ~(now > appr.not_after)
    BY <1>1, <1>3 DEF VerifyApproval
  <1> QED BY <1>1, <1>3, <1>4

ConsentTold(objs, bs, action, appr, now) ==
  /\ appr.key = Human /\ appr.approves = action /\ now <= appr.not_after
  /\ \E i \in DOMAIN bs : bs[i].what.kind = APPROVED /\ bs[i].what.action = action
  /\ \A more \in Readable, other \in Actions :
       IsPrefix(objs, more) /\ VerifyConsent(Bodies(more), other, [appr EXCEPT !.approves = other], Human, now) = "ok"
         => other = action

LEMMA ConsentIsForShown ==
  ASSUME ChainsInv, NEW objs \in Readable, NEW action \in Actions, NEW appr \in HumanApprovals, NEW now \in 1..2,
         NEW bs, bs = Bodies(objs), VerifyConsent(bs, action, appr, Human, now) = "ok"
  PROVE  ConsentTold(objs, bs, action, appr, now)
  <1>1. PICK n \in Nat : n = Len(objs) /\ objs \in [1..n -> objects]
    BY ReadableAre
  <1>2. DOMAIN objs = 1..n /\ DOMAIN bs = 1..n /\ \A i \in 1..n : bs[i] = Parsed(objs[i].body)
    BY <1>1, BodiesAre
  <1>3. now \in Int /\ appr.not_after = 1
    BY DEF HumanApprovals
  <1>4. /\ ApprovedActionCid(bs) # "none" /\ action = ApprovedActionCid(bs)
        /\ appr.key = Human /\ appr.approves = action /\ now <= appr.not_after
    BY <1>3, ConsentIs
  <1>5. PICK i \in 1..n : /\ bs[i].what.kind = APPROVED /\ action = bs[i].what.action
                          /\ \A j \in 1..n : bs[j].what.kind = APPROVED => i <= j
    BY <1>2, <1>4, CidIs
  <1>6. ASSUME NEW more \in Readable, NEW other \in Actions, IsPrefix(objs, more),
               VerifyConsent(Bodies(more), other, [appr EXCEPT !.approves = other], Human, now) = "ok"
        PROVE  other = action
    <2>1. PICK m \in Nat : m = Len(more) /\ more \in [1..m -> objects]
      BY <1>6, ReadableAre
    <2>2. PICK ms : ms = Bodies(more)
      OBVIOUS
    <2>3. DOMAIN ms = 1..m /\ \A j \in 1..m : ms[j] = Parsed(more[j].body)
      BY <2>1, <2>2, BodiesAre
    <2>4. n <= m /\ \A j \in 1..n : objs[j] = more[j]
      <3>1. IsFn(objs, n) /\ IsFn(more, m)
        BY <1>1, <2>1 DEF IsFn
      <3> QED BY <1>6, <3>1, PrefixIs
    <2>5. \A j \in 1..n : j \in 1..m /\ ms[j] = bs[j]
      BY <1>2, <2>3, <2>4
    <2>6. PICK a : a = [appr EXCEPT !.approves = other]
      OBVIOUS
    <2>7. a.not_after \in Int
      BY <1>3, <2>6 DEF HumanApprovals
    <2>8. VerifyConsent(ms, other, a, Human, now) = "ok"
      BY <1>6, <2>2, <2>6, Zenon
    <2>9. ApprovedActionCid(ms) # "none" /\ other = ApprovedActionCid(ms)
      BY <1>3, <2>7, <2>8, ConsentIs
    <2>10. PICK k \in 1..m : /\ ms[k].what.kind = APPROVED /\ other = ms[k].what.action
                             /\ \A j \in 1..m : ms[j].what.kind = APPROVED => k <= j
      BY <2>3, <2>9, CidIs
    <2>11. k <= i
      BY <1>5, <2>5, <2>10
    <2>12. k \in 1..n
      BY <2>11
    <2>13. i <= k
      BY <1>5, <2>5, <2>10, <2>12
    <2>14. i = k
      BY <2>11, <2>13
    <2> QED BY <1>5, <2>5, <2>10, <2>14
  <1>7. \E j \in DOMAIN bs : bs[j].what.kind = APPROVED /\ bs[j].what.action = action
    BY <1>2, <1>5
  <1> QED BY <1>4, <1>6, <1>7, Zenon DEF ConsentTold

LEMMA ConsentsHold == ASSUME ChainsInv PROVE ConsentForShownOnly
  <1> SUFFICES ASSUME NEW objs \in Readable, NEW action \in Actions, NEW appr \in HumanApprovals, NEW now \in 1..2,
                      VerifyConsent(Bodies(objs), action, appr, Human, now) = "ok"
               PROVE  /\ appr.key = Human /\ appr.approves = action /\ now <= appr.not_after
                      /\ \E i \in DOMAIN Bodies(objs) : Bodies(objs)[i].what.kind = APPROVED /\ Bodies(objs)[i].what.action = action
                      /\ \A more \in Readable, other \in Actions :
                           IsPrefix(objs, more) /\ VerifyConsent(Bodies(more), other, [appr EXCEPT !.approves = other], Human, now) = "ok"
                             => other = action
    BY DEF ConsentForShownOnly
  <1>1. PICK bs : bs = Bodies(objs)
    OBVIOUS
  <1>2. VerifyConsent(bs, action, appr, Human, now) = "ok"
    BY <1>1, Zenon
  <1>3. ConsentTold(objs, bs, action, appr, now)
    BY <1>1, <1>2, ConsentIsForShown
  <1> QED BY <1>1, <1>3, Zenon DEF ConsentTold

LEMMA ImportIs ==
  ASSUME NEW o, NEW key, VerifyImport(o, key) = "ok"
  PROVE  o.key = key /\ o.body.importer = key.id
  <1>1. PICK v, w : v = VerifySign1(o, Profile, key) /\ w = ParseImport(o.body)
    OBVIOUS
  <1>2. (IF v # "ok" THEN v ELSE IF w # "ok" THEN w ELSE IF o.body.importer # key.id THEN "ImporterMismatch" ELSE "ok") = "ok"
    BY <1>1 DEF VerifyImport
  <1>3. v = "ok" /\ o.body.importer = key.id
    BY <1>2
  <1>4. o.key = key
    BY <1>1, <1>3 DEF VerifySign1
  <1> QED BY <1>3, <1>4

LEMMA StateNameIs == ASSUME NEW s \in DOMAIN STATE_BY_NAME PROVE StateName(STATE_BY_NAME[s]) = s
  <1>1. \A x, y \in DOMAIN STATE_BY_NAME : STATE_BY_NAME[x] = STATE_BY_NAME[y] => x = y
    BY DEF STATE_BY_NAME
  <1> HIDE DEF STATE_BY_NAME
  <1> QED BY <1>1 DEF StateName

LEMMA ActivityAt ==
  ASSUME NEW S, NEW events \in Seq(S), NEW card, NEW i \in 1..Len(events)
  PROVE  Activity(events, card)[i].what =
           [of |-> events[1].task, card |-> card, frm |-> Froms(events)[i], to |-> STATE_BY_NAME[events[i].state]]
  <1>1. i \in DOMAIN events
    BY LenProperties
  <1>2. PICK a, e : a = Activity(events, card) /\ e = a[i]
    OBVIOUS
  <1>3. PICK h, w : e = [what |-> w, seq |-> i - 1, extra |-> FALSE, bad |-> FALSE, prev |-> h] /\
          w = [of |-> events[1].task, card |-> card, frm |-> Froms(events)[i], to |-> STATE_BY_NAME[events[i].state]]
    BY <1>1, <1>2, Zenon DEF Activity
  <1>4. e.what = w
    BY <1>3
  <1> QED BY <1>2, <1>3, <1>4

StartsActivity(objs, n, card, b) ==
  /\ b.card = card /\ n <= Len(b.events)
  /\ \A i \in 1..n : objs[i].body.what.of = b.events[1].task /\ objs[i].body.what.to = STATE_BY_NAME[b.events[i].state]

\* The task and the cards of a chain that recovers, and the activity it is the start of.
LEMMA RecoveredChain ==
  ASSUME ChainsInv, surface = "card", NEW n \in Nat, n > 0, NEW objs \in [1..n -> objects], Len(objs) = n, NEW card,
         VerifyTaskChain(objs, card, Authority) = "ok"
  PROVE  \E b \in bridged : StartsActivity(objs, n, card, b)
  <1>1. PICK bs : bs = Bodies(objs)
    OBVIOUS
  <1>2. DOMAIN objs = 1..n /\ \A i \in 1..n : objs[i] \in objects
    OBVIOUS
  <1>3. \A i \in 1..n : bs[i] = Parsed(objs[i].body)
    BY <1>1, <1>2, BodiesAre
  <1>4. \A i \in 1..n : TaskStepOk(objs, bs, card, Authority, i)
    BY <1>1, TaskChainOk
  <1>5. \A i \in 1..n : VerifyBinding(objs[i], Authority) = "ok" /\ Linked(bs, i) /\ bs[i].what.card = card
    BY <1>4 DEF TaskStepOk
  <1>6. \A i \in 1..n : ~objs[i].body.bad
    BY <1>2, <1>5, BindingOk
  <1>7. PICK Ls : Ls = AllLogs /\ \A l \in Ls : IsChain(l)
    BY LogsAreChains
  <1>8. \A i \in 1..n : \E l \in Ls : \E j \in 1..Len(l) : bs[i] = l[j]
    BY <1>2, <1>3, <1>6, <1>7, ReadableIs
  <1>9. \E l \in Ls : StartOf(bs, n, l)
    BY <1>5, <1>7, <1>8, LinkedIsStart, Zenon
  <1>10. PICK l \in AllLogs : StartOf(bs, n, l)
    BY <1>7, <1>9
  <1>11. PICK b \in bridged : l = Activity(b.events, b.card)
    <2>1. n <= Len(l) /\ Len(<< >>) = 0
      BY <1>10 DEF StartOf
    <2>2. l # << >>
      BY <2>1
    <2> QED BY <2>2 DEF AllLogs, ChainsInv
  <1>12. PICK ev, c : ev = b.events /\ c = b.card /\ ev \in Seq(Events)
    BY DEF ChainsInv
  <1>13. Len(l) = Len(ev) /\ n <= Len(ev) /\ Len(ev) \in Nat
    <2>1. Len(Activity(ev, c)) = Len(ev)
      BY <1>12, ActivityIsChain
    <2>2. Len(ev) \in Nat
      BY <1>12, LenProperties
    <2> QED BY <1>10, <1>11, <1>12, <2>1, <2>2 DEF StartOf
  <1>14. ASSUME NEW i \in 1..n
         PROVE  objs[i].body.what.of = ev[1].task /\ objs[i].body.what.to = STATE_BY_NAME[ev[i].state] /\ c = card
    <2>1. i \in 1..Len(ev)
      BY <1>13
    <2>2. PICK a, w : a = Activity(ev, c)[i] /\ w = a.what /\
            w = [of |-> ev[1].task, card |-> c, frm |-> Froms(ev)[i], to |-> STATE_BY_NAME[ev[i].state]]
      BY <1>12, <2>1, ActivityAt
    <2>3. bs[i].what = w
      BY <1>10, <1>11, <1>12, <2>2 DEF StartOf
    <2>4. bs[i].what = objs[i].body.what
      BY <1>2, <1>3, ParsedSays
    <2>5. w.of = ev[1].task /\ w.card = c /\ w.to = STATE_BY_NAME[ev[i].state]
      BY <2>2
    <2> QED BY <1>5, <2>3, <2>4, <2>5
  <1>15. 1 \in 1..n
    OBVIOUS
  <1> QED BY <1>12, <1>13, <1>14, <1>15 DEF StartsActivity

LEMMA RecoverTells ==
  ASSUME ChainsInv, surface = "card", NEW o \in imports, NEW k \in Importers, NEW objs \in SeqOf(objects, MaxEvents),
         Recover(o, k, objs)
  PROVE  RecoveredAsBridged'
  <1>1. /\ VerifyImport(o, k) = "ok" /\ VerifyTaskChain(objs, o.body, Authority) = "ok" /\ objs # << >>
        /\ imports' = imports /\ bridged' = bridged
        /\ recovered' = [authority |-> k.id, foreign |-> o.body.foreign, card |-> o.body, events |-> RecoveredEvents(objs)]
    BY DEF Recover, VerifyAndRecover
  <1>2. o.key = k /\ o.body.importer = k.id
    BY <1>1, ImportIs
  <1>3. recovered'.authority = k.id /\ recovered'.card = o.body /\ recovered'.events = RecoveredEvents(objs)
    BY <1>1
  <1>4. PICK n \in Nat : n = Len(objs) /\ objs \in [1..n -> objects] /\ DOMAIN objs = 1..n
    BY SeqOfIs, DescConstants
  <1>5. n > 0
    <2>1. n = 0 => objs = << >>
      BY <1>4
    <2> QED BY <1>1, <1>4, <2>1
  <1>a. PICK c : c = o.body
    OBVIOUS
  <1>b. VerifyTaskChain(objs, c, Authority) = "ok" /\ Len(objs) = n
    BY <1>1, <1>4, <1>a
  <1>c. \E b \in bridged : StartsActivity(objs, n, c, b)
    BY <1>4, <1>5, <1>b, RecoveredChain
  <1>6. PICK b \in bridged :
           /\ b.card = o.body /\ n <= Len(b.events)
           /\ \A i \in 1..n : objs[i].body.what.of = b.events[1].task /\ objs[i].body.what.to = STATE_BY_NAME[b.events[i].state]
    BY <1>a, <1>c, Zenon DEF StartsActivity
  <1>7. PICK ev : ev = b.events /\ ev \in Seq(Events) /\ Bridgeable(ev)
    BY DEF ChainsInv
  <1>8. PICK m \in Nat : m = Len(ev) /\ DOMAIN ev = 1..m /\ IsFn(ev, m) /\ \A i \in 1..m : ev[i] \in Events
    BY <1>7, LenProperties DEF IsFn
  <1>9. PICK re : re = RecoveredEvents(objs)
    OBVIOUS
  <1>10. re = [i \in 1..n |-> [task |-> objs[1].body.what.of, state |-> StateName(objs[i].body.what.to)]]
    BY <1>4, <1>9 DEF RecoveredEvents
  <1>11. ASSUME NEW i \in 1..n PROVE re[i] = ev[i]
    <2>1. 1 \in 1..n /\ i \in 1..m
      BY <1>5, <1>6, <1>7, <1>8
    <2>2. ev[i] \in Events /\ ev[i].task = ev[1].task /\ ev[i].state \in DOMAIN STATE_BY_NAME
      BY <1>7, <1>8, <2>1 DEF Bridgeable
    <2>3. objs[1].body.what.of = ev[i].task /\ objs[i].body.what.to = STATE_BY_NAME[ev[i].state]
      BY <1>6, <1>7, <2>1, <2>2
    <2>4. StateName(objs[i].body.what.to) = ev[i].state
      BY <2>2, <2>3, StateNameIs
    <2>5. re[i] = [task |-> ev[i].task, state |-> ev[i].state]
      BY <1>10, <2>3, <2>4
    <2> QED BY <2>2, <2>5, DescConstants
  <1>12. IsPrefix(re, ev)
    <2>1. IsFn(re, n) /\ n <= m
      BY <1>6, <1>7, <1>8, <1>10 DEF IsFn
    <2> QED BY <1>8, <1>11, <2>1, PrefixIs
  <1>13. \E x \in imports' : x.body = recovered'.card /\ x.key.id = recovered'.authority /\ x.body.importer = recovered'.authority
    BY <1>1, <1>2, <1>3
  <1>14. \E x \in bridged' : x.card = recovered'.card /\ IsPrefix(recovered'.events, x.events)
    BY <1>1, <1>3, <1>6, <1>7, <1>9, <1>12
  <1> QED BY <1>13, <1>14, Zenon DEF RecoveredAsBridged

LEMMA RecoveredKept ==
  ASSUME RecoveredAsBridged, imports \subseteq imports', bridged \subseteq bridged', recovered' = recovered
  PROVE  RecoveredAsBridged'
  BY Zenon DEF RecoveredAsBridged

LEMMA DescStepKeeps ==
  ASSUME ChainsInv, RecoveredAsBridged, [DescNext]_descvars
  PROVE  ChainsInv' /\ RecoveredAsBridged'
  <1> DEFINE A1 == surface \notin {"card", "dir"} /\ ChainsNext /\ UNCHANGED <<imports, dirs, bridged, recovered>>
             A2 == \E key \in Importers, importer \in {ALICE.id, Mallory.id}, format \in Formats, foreign \in Documents,
                      op \in Operations : BridgeCard(key, importer, format, foreign, <<op>>)
             A3 == \E q \in Runs, members \in SeqOf(Members, 2) : Publish(q, members)
             A4 == surface = "card" /\ \E events \in SeqOf(Events, MaxEvents), card \in {o.body : o \in imports} :
                      BridgeActivity(events, card)
             A5 == surface = "card" /\ \E o \in imports, k \in Importers, objs \in SeqOf(objects, MaxEvents) : Recover(o, k, objs)
  <1>1. CASE A1
    <2>1. ChainsInv'
      BY <1>1, ChainsNextKeeps
    <2>2. RecoveredAsBridged'
      BY <1>1, RecoveredKept
    <2> QED BY <2>1, <2>2
  <1>2. CASE A2
    <2>1. UNCHANGED chainvars /\ bridged' = bridged /\ recovered' = recovered /\ imports \subseteq imports'
      BY <1>2 DEF BridgeCard
    <2> QED BY <2>1, ChainsUnchanged, RecoveredKept
  <1>3. CASE A3
    <2>1. UNCHANGED chainvars /\ bridged' = bridged /\ recovered' = recovered /\ imports = imports'
      BY <1>3 DEF Publish
    <2> QED BY <2>1, ChainsUnchanged, RecoveredKept
  <1>4. CASE A4
    <2>1. PICK events \in SeqOf(Events, MaxEvents), card \in {o.body : o \in imports} : BridgeActivity(events, card)
      BY <1>4
    <2>2. events \in Seq(Events)
      BY SeqOfIs, DescConstants
    <2>3. ChainsInv'
      BY <2>1, <2>2, BridgeKeeps
    <2>4. imports' = imports /\ bridged \subseteq bridged' /\ recovered' = recovered
      BY <2>1 DEF BridgeActivity
    <2> QED BY <2>3, <2>4, RecoveredKept
  <1>5. CASE A5
    <2>1. PICK o \in imports, k \in Importers, objs \in SeqOf(objects, MaxEvents) : Recover(o, k, objs)
      BY <1>5
    <2>2. UNCHANGED chainvars /\ bridged' = bridged
      BY <2>1 DEF Recover
    <2>3. ChainsInv'
      BY <2>2, ChainsUnchanged
    <2> QED BY <1>5, <2>1, <2>3, RecoverTells
  <1>6. CASE UNCHANGED descvars
    <2>1. UNCHANGED chainvars /\ bridged' = bridged /\ recovered' = recovered /\ imports = imports'
      BY <1>6 DEF descvars
    <2> QED BY <2>1, ChainsUnchanged, RecoveredKept
  <1>7. [DescNext]_descvars => A1 \/ A2 \/ A3 \/ A4 \/ A5 \/ UNCHANGED descvars
    BY Zenon DEF DescNext
  <1> QED BY <1>1, <1>2, <1>3, <1>4, <1>5, <1>6, <1>7, Zenon

\* The inductive invariant of the chains, and what comes out of the bridge.
THEOREM ChainsInvariant == DescSpec => [](ChainsInv /\ RecoveredAsBridged)
  <1>1. DescInit => ChainsInv /\ RecoveredAsBridged
    <2>1. DescInit => RecoveredAsBridged
      BY DEF DescInit, RecoveredAsBridged
    <2> QED BY <2>1, ChainsInvInit
  <1>2. ChainsInv /\ RecoveredAsBridged /\ [DescNext]_descvars => ChainsInv' /\ RecoveredAsBridged'
    BY DescStepKeeps
  <1> QED BY <1>1, <1>2, PTL DEF DescSpec

(* A chain of names, task states or shown events that verifies is the start  *)
(* of one that a run of its authority built, the first departure is named    *)
(* where it is not, and consents and recovered activities rest on such       *)
(* chains (naming, agui, a2a_bridge).                                        *)
THEOREM ChainsTheorem == DescSpec => []ChainsAreHistories
  <1>1. ChainsInv /\ RecoveredAsBridged => ChainsAreHistories
    BY HistoriesHold, HolesHold, TasksHold, ConsentsHold, Zenon DEF ChainsAreHistories
  <1> QED BY <1>1, ChainsInvariant, PTL

(***************************************************************************)
(* Accusations                                                             *)
(***************************************************************************)
\* An entry of a run's chain, as its authority signed it.
LEMMA SignedEntry ==
  ASSUME ChainsInv, NEW r \in Runs, NEW i \in 1..Len(namelog[r]), NEW x, x = SignedBy(Authority, namelog[r][i])
  PROVE  x \in objects /\ Parsed(x.body) = namelog[r][i] /\ VerifyBinding(x, Authority) = "ok"
  <1>1. PICK l : l = namelog[r] /\ RunLogOk(r, l, objects) /\ IsChain(l)
    BY DEF ChainsInv, RunLogOk
  <1>2. i \in 1..Len(l) /\ x = SignedBy(Authority, l[i])
    BY <1>1
  <1>3. x \in objects
    BY <1>1, <1>2 DEF RunLogOk
  <1>4. l[i] = ChainEntry(l, i, FALSE, FALSE)
    BY <1>1, <1>2, ChainAt
  <1>5. x.key = Authority /\ x.body = l[i]
    BY <1>2 DEF SignedBy
  <1>6. PICK e : e = l[i]
    OBVIOUS
  <1>7. e = ChainEntry(l, i, FALSE, FALSE)
    BY <1>4, <1>6
  <1>8. ~e.bad /\ [e EXCEPT !.extra = FALSE] = e
    <2>1. PICK f : f = FALSE
      OBVIOUS
    <2>2. e = ChainEntry(l, i, f, f)
      BY <1>7, <2>1, Zenon
    <2>3. [e EXCEPT !.extra = f] = e
      BY <2>2, EntryExcept
    <2>4. e.bad = f
      BY <2>2 DEF ChainEntry
    <2> QED BY <2>1, <2>3, <2>4, Zenon
  <1>9. VerifyBinding(x, Authority) = "ok"
    BY <1>3, <1>5, <1>6, <1>8, BindingOk
  <1>10. Parsed(x.body) = l[i]
    BY <1>5, <1>6, <1>8, Zenon DEF Parsed
  <1> QED BY <1>1, <1>3, <1>9, <1>10

LEMMA NameForkIs ==
  ASSUME NEW x, NEW y
  PROVE  NameForkProofVerify("authority", x, y, Authority) = "ok" <=>
           /\ VerifyBinding(x, Authority) = "ok" /\ VerifyBinding(y, Authority) = "ok"
           /\ DetectFork(Parsed(x.body), Parsed(y.body))
  BY DEF NameForkProofVerify

LEMMA NameForksHold == ASSUME ChainsInv PROVE ForkProofIffForked
  <1> SUFFICES ASSUME surface = "name"
               PROVE  (\E x, y \in objects : NameForkProofVerify("authority", x, y, Authority) = "ok") <=>
                      (\E q, r \in Runs : stream[q] = stream[r] /\ ~IsPrefix(namelog[q], namelog[r]) /\ ~IsPrefix(namelog[r], namelog[q]))
    BY Zenon DEF ForkProofIffForked, Of
  <1>1. \A q, r \in Runs : IsPrefix(namelog[q], namelog[r]) <=>
          Len(namelog[q]) <= Len(namelog[r]) /\ \A i \in 1..Len(namelog[q]) : namelog[q][i] = namelog[r][i]
    <2> SUFFICES ASSUME NEW q \in Runs, NEW r \in Runs
                 PROVE  IsPrefix(namelog[q], namelog[r]) <=>
                          Len(namelog[q]) <= Len(namelog[r]) /\ \A i \in 1..Len(namelog[q]) : namelog[q][i] = namelog[r][i]
      OBVIOUS
    <2>1. PICK l, p : l = namelog[q] /\ p = namelog[r] /\ IsChain(l) /\ IsChain(p)
      BY RunLogs
    <2>2. PICK m : m = Len(l) /\ m \in Nat /\ IsFn(l, m)
      BY <2>1, ChainIsFn
    <2>3. IsPrefix(l, p) <=> StartOf(l, m, p)
      BY <2>1, <2>2, StartIsPrefix
    <2> QED BY <2>1, <2>2, <2>3, Zenon DEF StartOf
  <1>2. \A r \in Runs : Len(namelog[r]) \in Nat
    BY RunLogs, ChainIsFn
  <1>3. ASSUME NEW x \in objects, NEW y \in objects, NameForkProofVerify("authority", x, y, Authority) = "ok"
        PROVE  \E q, r \in Runs : stream[q] = stream[r] /\ ~IsPrefix(namelog[q], namelog[r]) /\ ~IsPrefix(namelog[r], namelog[q])
    <2>1. /\ VerifyBinding(x, Authority) = "ok" /\ VerifyBinding(y, Authority) = "ok"
          /\ DetectFork(Parsed(x.body), Parsed(y.body))
      BY <1>3, NameForkIs
    <2>2. ~x.body.bad /\ ~y.body.bad
      BY <2>1, BindingOk
    <2>a. "name" # "card"
      OBVIOUS
    <2>b. PICK q \in Runs : \E i \in 1..Len(namelog[q]) : Parsed(x.body) = namelog[q][i]
      BY <2>2, <2>a, ReadableIs, OnlyRunLogs
    <2>3. PICK i \in 1..Len(namelog[q]) : Parsed(x.body) = namelog[q][i]
      BY <2>b
    <2>c. PICK r \in Runs : \E j \in 1..Len(namelog[r]) : Parsed(y.body) = namelog[r][j]
      BY <2>2, <2>a, ReadableIs, OnlyRunLogs
    <2>4. PICK j \in 1..Len(namelog[r]) : Parsed(y.body) = namelog[r][j]
      BY <2>c
    <2>5. PICK l, p : l = namelog[q] /\ p = namelog[r] /\ RunLogOk(q, l, objects) /\ RunLogOk(r, p, objects)
      BY DEF ChainsInv
    <2>6. l[i].what.of = stream[q] /\ p[j].what.of = stream[r] /\ l[i].seq = i - 1 /\ p[j].seq = j - 1
      BY <2>5, ChainAt DEF RunLogOk
    <2>7. l[i].what.of = p[j].what.of /\ l[i].seq = p[j].seq /\ l[i] # p[j]
      BY <2>1, <2>3, <2>4, <2>5 DEF DetectFork
    <2>8. i = j /\ stream[q] = stream[r]
      <3>1. Len(l) \in Nat /\ Len(p) \in Nat
        BY <1>2, <2>5
      <3>2. i \in Int /\ j \in Int
        BY <2>5, <3>1
      <3> QED BY <2>6, <2>7, <3>2
    <2>9. ~IsPrefix(namelog[q], namelog[r]) /\ ~IsPrefix(namelog[r], namelog[q])
      BY <1>1, <2>5, <2>7, <2>8
    <2> QED BY <2>8, <2>9
  <1>4. ASSUME NEW q \in Runs, NEW r \in Runs, stream[q] = stream[r],
               ~IsPrefix(namelog[q], namelog[r]), ~IsPrefix(namelog[r], namelog[q])
        PROVE  \E x, y \in objects : NameForkProofVerify("authority", x, y, Authority) = "ok"
    <2>1. PICK l, p : l = namelog[q] /\ p = namelog[r] /\ RunLogOk(q, l, objects) /\ RunLogOk(r, p, objects)
      BY DEF ChainsInv
    <2>2. PICK i : i \in 1..Len(l) /\ i \in 1..Len(p) /\ l[i] # p[i]
      <3>1. PICK m \in Nat, n \in Nat : m = Len(l) /\ n = Len(p)
        BY <1>2, <2>1
      <3>2. ~(m <= n /\ \A k \in 1..m : l[k] = p[k]) /\ ~(n <= m /\ \A k \in 1..n : p[k] = l[k])
        BY <1>1, <1>4, <2>1, <3>1, Zenon
      <3>3. \E k : k \in 1..m /\ k \in 1..n /\ l[k] # p[k]
        <4>1. CASE m <= n
          BY <3>2, <4>1
        <4>2. CASE ~(m <= n)
          BY <3>2, <4>2
        <4> QED BY <4>1, <4>2
      <3> QED BY <3>1, <3>3
    <2>3. l[i].what.of = stream[q] /\ p[i].what.of = stream[r] /\ l[i].seq = i - 1 /\ p[i].seq = i - 1
      BY <2>1, <2>2, ChainAt DEF RunLogOk
    <2>4. DetectFork(l[i], p[i])
      BY <1>4, <2>2, <2>3 DEF DetectFork
    <2>5. PICK x, y : x = SignedBy(Authority, namelog[q][i]) /\ y = SignedBy(Authority, namelog[r][i])
      OBVIOUS
    <2>6. x \in objects /\ Parsed(x.body) = l[i] /\ VerifyBinding(x, Authority) = "ok"
      BY <2>1, <2>2, <2>5, SignedEntry
    <2>7. y \in objects /\ Parsed(y.body) = p[i] /\ VerifyBinding(y, Authority) = "ok"
      BY <2>1, <2>2, <2>5, SignedEntry
    <2>8. NameForkProofVerify("authority", x, y, Authority) = "ok"
      BY <2>4, <2>6, <2>7, NameForkIs
    <2> QED BY <2>6, <2>7, <2>8
  <1> QED BY <1>3, <1>4, Zenon

Mine(q) == {d \in dirs : d.run = q}
DirEntry(q, v, members) == [run |-> q, obj |-> SignedBy(ALICE, [directory |-> stream[q], version |-> v, members |-> members])]
DirOk(d, n) == \E v \in Nat, members \in Seq(Members) : d = DirEntry(d.run, v, members) /\ v < n

\* A publisher's versions count what it has published itself.
DirInv ==
  /\ IsFiniteSet(dirs)
  /\ \A d \in dirs : DirOk(d, Cardinality(Mine(d.run)))
  /\ \A d, e \in dirs : d.run = e.run /\ d.obj.body.version = e.obj.body.version => d = e

LEMMA DirFields ==
  ASSUME NEW q, NEW v, NEW members, NEW d, d = DirEntry(q, v, members)
  PROVE  /\ d.run = q /\ d.obj.alg = d.obj.key.alg /\ d.obj.key = ALICE
         /\ d.obj.body.directory = stream[q] /\ d.obj.body.version = v /\ d.obj.body.members = members
  BY DEF DirEntry, SignedBy

LEMMA PublishKeeps ==
  ASSUME DirInv, NEW q \in Runs, NEW members \in Seq(Members), Publish(q, members)
  PROVE  DirInv'
  <1>1. PICK n, d : n = Cardinality(Mine(q)) /\ d = DirEntry(q, n, members)
    OBVIOUS
  <1>2. dirs' = dirs \cup {d} /\ stream' = stream
    BY <1>1 DEF Publish, Mine, DirEntry, chainvars
  <1>3. IsFiniteSet(dirs') /\ IsFiniteSet(dirs)
    BY <1>2, FS_AddElement DEF DirInv
  <1>4. \A r : IsFiniteSet(Mine(r)) /\ Cardinality(Mine(r)) \in Nat
    <2> SUFFICES ASSUME NEW r PROVE IsFiniteSet(Mine(r)) /\ Cardinality(Mine(r)) \in Nat
      OBVIOUS
    <2>1. PICK T : T = Mine(r) /\ T \in SUBSET dirs
      BY DEF Mine
    <2>2. IsFiniteSet(T)
      BY <1>3, <2>1, FS_Subset
    <2> QED BY <2>1, <2>2, FS_CardinalityType
  <1>5. n \in Nat
    BY <1>1, <1>4
  <1>6. d.run = q /\ d.obj.body.version = n
    BY <1>1, DirFields
  <1>7. \A e \in dirs : e.run = q => e.obj.body.version \in Nat /\ e.obj.body.version < n
    <2> SUFFICES ASSUME NEW e \in dirs, e.run = q PROVE e.obj.body.version \in Nat /\ e.obj.body.version < n
      OBVIOUS
    <2>1. DirOk(e, n)
      BY <1>1 DEF DirInv
    <2>2. PICK v \in Nat, mem \in Seq(Members) : e = DirEntry(q, v, mem) /\ v < n
      BY <2>1 DEF DirOk
    <2>3. e.obj.body.version = v
      BY <2>2, DirFields
    <2> QED BY <2>2, <2>3
  <1>8. d \notin Mine(q)
    <2>1. ~(n < n)
      BY <1>5
    <2> QED BY <1>6, <1>7, <2>1 DEF Mine
  <1>9. Mine(q)' = Mine(q) \cup {d} /\ \A r : r # q => Mine(r)' = Mine(r)
    BY <1>2, <1>6 DEF Mine
  <1>10. Cardinality(Mine(q)') = n + 1
    <2>1. PICK T : T = Mine(q) /\ IsFiniteSet(T) /\ d \notin T /\ Cardinality(T) = n
      BY <1>1, <1>4, <1>8
    <2>2. Cardinality(T \cup {d}) = n + 1
      BY <2>1, FS_AddElement
    <2> QED BY <1>9, <2>1, <2>2
  <1>11. ASSUME NEW e \in dirs' PROVE DirOk(e, Cardinality(Mine(e.run)))'
    <2>1. CASE e = d
      <3>1. n < n + 1
        BY <1>5
      <3>2. \E v \in Nat, mem \in Seq(Members) : e = DirEntry(e.run, v, mem) /\ v < n + 1
        BY <1>1, <1>5, <1>6, <2>1, <3>1
      <3>3. \E v \in Nat, mem \in Seq(Members) : e = DirEntry(e.run, v, mem)' /\ v < n + 1
        BY <1>2, <3>2, Zenon DEF DirEntry
      <3> QED BY <1>6, <1>10, <2>1, <3>3, Zenon DEF DirOk
    <2>2. CASE e # d
      <3>1. e \in dirs
        BY <1>2, <2>2
      <3>2. PICK k : k = Cardinality(Mine(e.run)) /\ k \in Nat
        BY <1>4
      <3>3. PICK v \in Nat, mem \in Seq(Members) : e = DirEntry(e.run, v, mem) /\ v < k
        BY <3>1, <3>2 DEF DirInv, DirOk
      <3>4. PICK j : j = Cardinality(Mine(e.run)') /\ v < j
        <4>1. CASE e.run = q
          BY <1>1, <1>5, <1>10, <3>2, <3>3, <4>1
        <4>2. CASE e.run # q
          BY <1>9, <3>2, <3>3, <4>2
        <4> QED BY <4>1, <4>2
      <3>5. e = DirEntry(e.run, v, mem)'
        BY <1>2, <3>3 DEF DirEntry
      <3>6. DirOk(e, j)'
        BY <3>4, <3>5, Zenon DEF DirOk
      <3> QED BY <3>4, <3>6, Zenon
    <2> QED BY <2>1, <2>2
  <1>12. \A e, f \in dirs' : e.run = f.run /\ e.obj.body.version = f.obj.body.version => e = f
    <2>1. ~(n < n)
      BY <1>5
    <2>2. \A e \in dirs : ~(e.run = q /\ e.obj.body.version = n)
      BY <1>7, <2>1
    <2>3. \A e, f \in dirs : e.run = f.run /\ e.obj.body.version = f.obj.body.version => e = f
      BY DEF DirInv
    <2>4. \A e \in dirs' : e \in dirs \/ e = d
      BY <1>2
    <2> QED BY <1>6, <2>2, <2>3, <2>4, Zenon
  <1> QED BY <1>3, <1>11, <1>12, Zenon DEF DirInv

LEMMA DirUnchanged == ASSUME DirInv, dirs' = dirs, stream' = stream PROVE DirInv'
  <1>1. \A q : Mine(q)' = Mine(q)
    BY DEF Mine
  <1>2. \A q, v, members : DirEntry(q, v, members)' = DirEntry(q, v, members)
    BY DEF DirEntry
  <1>3. \A d, n : DirOk(d, n) => DirOk(d, n)'
    BY <1>2, Zenon DEF DirOk
  <1> QED BY <1>1, <1>3, Zenon DEF DirInv

\* What a publisher signs counts its own versions, one list for each.
THEOREM DirInvariant == DescSpec => []DirInv
  <1>1. DescInit => DirInv
    BY FS_EmptySet DEF DescInit, DirInv
  <1>2. ASSUME DirInv, [DescNext]_descvars PROVE DirInv'
    <2> DEFINE A1 == ChainsNext /\ UNCHANGED <<imports, dirs, bridged, recovered>>
               A2 == \E key \in Importers, importer \in {ALICE.id, Mallory.id}, format \in Formats, foreign \in Documents,
                        op \in Operations : BridgeCard(key, importer, format, foreign, <<op>>)
               A3 == \E q \in Runs, members \in SeqOf(Members, 2) : Publish(q, members)
               A4 == \E events \in SeqOf(Events, MaxEvents), card \in {o.body : o \in imports} : BridgeActivity(events, card)
               A5 == \E o \in imports, k \in Importers, objs \in SeqOf(objects, MaxEvents) : Recover(o, k, objs)
    <2>1. CASE A1
      <3>1. dirs' = dirs
        BY <2>1
      <3>2. stream' = stream
        BY <2>1 DEF ChainsNext, AppendRecord, SignAgain
      <3> QED BY <1>2, <3>1, <3>2, DirUnchanged
    <2>2. CASE A2
      <3>1. dirs' = dirs /\ stream' = stream
        BY <2>2 DEF BridgeCard, chainvars
      <3> QED BY <1>2, <3>1, DirUnchanged
    <2>3. CASE A3
      <3>1. PICK q \in Runs, members \in SeqOf(Members, 2) : Publish(q, members)
        BY <2>3
      <3>2. members \in Seq(Members)
        BY SeqOfIs
      <3> QED BY <1>2, <3>1, <3>2, PublishKeeps
    <2>4. CASE A4
      <3>1. dirs' = dirs /\ stream' = stream
        BY <2>4 DEF BridgeActivity
      <3> QED BY <1>2, <3>1, DirUnchanged
    <2>5. CASE A5
      <3>1. dirs' = dirs /\ stream' = stream
        BY <2>5 DEF Recover, chainvars
      <3> QED BY <1>2, <3>1, DirUnchanged
    <2>6. CASE UNCHANGED descvars
      <3>1. dirs' = dirs /\ stream' = stream
        BY <2>6 DEF descvars, chainvars
      <3> QED BY <1>2, <3>1, DirUnchanged
    <2>7. [DescNext]_descvars => A1 \/ A2 \/ A3 \/ A4 \/ A5 \/ UNCHANGED descvars
      BY Zenon DEF DescNext
    <2> QED BY <1>2, <2>1, <2>2, <2>3, <2>4, <2>5, <2>6, <2>7, Zenon
  <1> QED BY <1>1, <1>2, PTL DEF DescSpec

\* k is how far a and b agree.
AgreeUpTo(a, b, k) ==
  /\ k \in Nat /\ k <= Len(a) /\ k <= Len(b) /\ \A i \in 1..k : a[i] = b[i]
  /\ k < Len(a) /\ k < Len(b) => a[k + 1] # b[k + 1]

LEMMA LongestIs ==
  ASSUME NEW S, NEW a \in Seq(S), NEW b \in Seq(S), NEW k, AgreeUpTo(a, b, k)
  PROVE  Len(LongestCommonPrefix({a, b})) = k
  <1>1. PICK m \in Nat, n \in Nat : m = Len(a) /\ n = Len(b)
    BY LenProperties
  <1>2. /\ k \in Nat /\ k <= m /\ k <= n /\ \A i \in 1..k : a[i] = b[i]
        /\ k < m /\ k < n => a[k + 1] # b[k + 1]
    BY <1>1 DEF AgreeUpTo
  <1>3. (\A i \in 1..m : a[i] \in S) /\ (\A i \in 1..n : b[i] \in S)
    BY <1>1, ElementOfSeq
  <1>4. ASSUME NEW s \in {a, b}, NEW j \in 0..Len(s), NEW u, u = SubSeq(s, 1, j)
        PROVE  u \in Seq(S) /\ Len(u) = j /\ j \in Nat /\ \A i \in 1..j : u[i] = s[i]
    <2>1. j \in Nat /\ \A i \in 1..j : s[i] \in S
      <3>1. CASE s = a
        BY <1>1, <1>3, <3>1
      <3>2. CASE s = b
        BY <1>1, <1>3, <3>2
      <3> QED BY <3>1, <3>2
    <2> QED BY <1>4, <2>1, StartIs
  <1>5. PICK C : C = CommonPrefixes({a, b})
    OBVIOUS
  <1>6. \A p : p \in C <=> (\E s \in {a, b} : \E j \in 0..Len(s) : p = SubSeq(s, 1, j)) /\ IsPrefix(p, a) /\ IsPrefix(p, b)
    BY <1>5 DEF CommonPrefixes, Prefixes
  <1>7. ASSUME NEW p \in C PROVE Len(p) \in Nat /\ Len(p) <= k
    <2>1. PICK s \in {a, b} : \E j \in 0..Len(s) : p = SubSeq(s, 1, j)
      BY <1>6
    <2>2. PICK j \in 0..Len(s) : p = SubSeq(s, 1, j)
      BY <2>1
    <2>3. p \in Seq(S) /\ Len(p) = j /\ j \in Nat
      BY <1>4, <2>2
    <2>4. j <= m /\ j <= n /\ (\A i \in 1..j : p[i] = a[i]) /\ (\A i \in 1..j : p[i] = b[i])
      <3>1. IsPrefix(p, a) /\ IsPrefix(p, b)
        BY <1>6
      <3> QED BY <1>1, <2>3, <3>1, PrefixIn
    <2>5. j <= k
      <3> SUFFICES ASSUME k < j PROVE FALSE
        BY <1>2, <2>3
      <3>1. k + 1 \in 1..j /\ k < m /\ k < n
        BY <1>2, <2>3, <2>4
      <3> QED BY <1>2, <2>4, <3>1
    <2> QED BY <2>3, <2>5
  <1>8. PICK u : u = SubSeq(a, 1, k)
    OBVIOUS
  <1>9. u \in C /\ Len(u) = k
    <2>1. a \in {a, b} /\ k \in 0..Len(a)
      BY <1>1, <1>2
    <2>2. u \in Seq(S) /\ Len(u) = k /\ \A i \in 1..k : u[i] = a[i]
      BY <1>4, <1>8, <2>1
    <2>3. IsPrefix(u, a)
      <3>1. Len(u) <= Len(a) /\ \A i \in 1..Len(u) : u[i] = a[i]
        BY <1>1, <1>2, <2>2
      <3> QED BY <2>2, <3>1, PrefixIn
    <2>4. IsPrefix(u, b)
      <3>1. Len(u) <= Len(b) /\ \A i \in 1..Len(u) : u[i] = b[i]
        BY <1>1, <1>2, <2>2
      <3> QED BY <2>2, <3>1, PrefixIn
    <2> QED BY <1>6, <1>8, <2>1, <2>2, <2>3, <2>4
  <1>10. PICK z : z = LongestCommonPrefix({a, b})
    OBVIOUS
  <1>11. z = CHOOSE longest \in C : \A other \in C : Len(other) <= Len(longest)
    BY <1>5, <1>10 DEF LongestCommonPrefix
  <1>12. \A other \in C : Len(other) <= Len(u)
    BY <1>7, <1>9
  <1>13. z \in C /\ \A other \in C : Len(other) <= Len(z)
    BY <1>9, <1>11, <1>12
  <1>14. Len(z) \in Nat /\ Len(z) <= k /\ k <= Len(z)
    BY <1>7, <1>9, <1>13
  <1>15. Len(z) = k
    BY <1>2, <1>14
  <1> QED BY <1>10, <1>15

LEMMA DifferenceIs ==
  ASSUME NEW S, NEW a \in Seq(S), NEW b \in Seq(S)
  PROVE  /\ a = b => ~FirstMemberDifference(a, b).fork
         /\ a # b => FirstMemberDifference(a, b).fork /\ AgreeUpTo(a, b, FirstMemberDifference(a, b).at)
  <1>1. PICK m \in Nat, n \in Nat : m = Len(a) /\ n = Len(b)
    BY LenProperties
  <1>2. PICK k : k = Min({m, n})
    OBVIOUS
  <1>3. k \in {m, n} /\ k <= m /\ k <= n /\ k \in Nat
    <2>1. PICK B : B = {m, n}
      OBVIOUS
    <2>2. B \in SUBSET Nat /\ B # {}
      BY <2>1
    <2>3. \E x \in B : \A y \in B : x <= y
      BY <2>2, LeastOf
    <2>4. Min(B) \in B /\ \A y \in B : Min(B) <= y
      BY <2>3 DEF Min
    <2> QED BY <1>2, <2>1, <2>4
  <1>4. PICK differ : differ = {i \in 1..k : a[i] # b[i]}
    OBVIOUS
  <1>5. PICK f : f = FirstMemberDifference(a, b)
    OBVIOUS
  <1>6. f = IF differ # {} THEN [at |-> Min(differ) - 1, fork |-> TRUE]
            ELSE IF m # n THEN [at |-> k, fork |-> TRUE] ELSE [at |-> 0, fork |-> FALSE]
    BY <1>1, <1>2, <1>4, <1>5 DEF FirstMemberDifference
  <1>7. CASE differ # {}
    <2>1. PICK d : d = Min(differ)
      OBVIOUS
    <2>2. d \in differ /\ \A y \in differ : d <= y
      <3>1. differ \subseteq 1..k
        BY <1>4
      <3> QED BY <1>7, <2>1, <3>1, MinIn
    <2>3. d \in 1..k /\ a[d] # b[d] /\ \A i \in 1..k : i < d => a[i] = b[i]
      BY <1>4, <2>2
    <2>4. a # b
      BY <2>3
    <2>5. f = [at |-> d - 1, fork |-> TRUE]
      BY <1>6, <1>7, <2>1, Zenon
    <2>6. f.fork /\ f.at = d - 1
      BY <2>5
    <2>7. AgreeUpTo(a, b, d - 1)
      <3>a. d - 1 \in Nat /\ d - 1 <= m /\ d - 1 <= n /\ (d - 1) + 1 = d
        BY <1>3, <2>3
      <3>b. \A i \in 1..(d - 1) : i \in 1..k /\ i < d
        BY <1>3, <2>3
      <3>1. d - 1 \in Nat /\ d - 1 <= m /\ d - 1 <= n /\ (d - 1) + 1 = d /\ \A i \in 1..(d - 1) : i \in 1..k /\ i < d
        BY <3>a, <3>b
      <3> QED BY <1>1, <2>3, <3>1 DEF AgreeUpTo
    <2> QED BY <1>5, <2>4, <2>6, <2>7
  <1>8. CASE differ = {}
    <2>1. \A i \in 1..k : a[i] = b[i]
      BY <1>4, <1>8
    <2>2. CASE m # n
      <3>1. a # b
        BY <1>1, <2>2
      <3>2. f = [at |-> k, fork |-> TRUE]
        BY <1>6, <1>8, <2>2
      <3>3. f.fork /\ f.at = k
        BY <3>2
      <3>4. AgreeUpTo(a, b, k)
        BY <1>1, <1>3, <2>1 DEF AgreeUpTo
      <3> QED BY <1>5, <3>1, <3>3, <3>4
    <2>3. CASE m = n
      <3>1. k = m
        BY <1>3, <2>3
      <3>2. a = b
        BY <1>1, <2>1, <2>3, <3>1, SeqEqual
      <3>3. f = [at |-> 0, fork |-> FALSE]
        BY <1>6, <1>8, <2>3
      <3>4. ~f.fork
        BY <3>3
      <3> QED BY <1>5, <3>2, <3>4
    <2> QED BY <2>2, <2>3
  <1> QED BY <1>7, <1>8

LEMMA DirForksHold == ASSUME DirInv PROVE DirForkIffForked
  <1> DEFINE Proved(x, y) == DirForkProof("authority", x.obj, y.obj, ALICE) = "ok"
             Differ(x, y) == /\ x.obj.body.directory = y.obj.body.directory /\ x.obj.body.version = y.obj.body.version
                             /\ x.obj.body.members # y.obj.body.members
  <1>1. \A x \in dirs : x.obj.body.members \in Seq(Members) /\ VerifyDirectory(x.obj, ALICE) = "ok"
    <2> SUFFICES ASSUME NEW x \in dirs PROVE x.obj.body.members \in Seq(Members) /\ VerifyDirectory(x.obj, ALICE) = "ok"
      OBVIOUS
    <2>1. PICK v \in Nat, members \in Seq(Members) : x = DirEntry(x.run, v, members)
      BY DEF DirInv, DirOk
    <2>2. PICK q : q = x.run /\ x = DirEntry(q, v, members)
      BY <2>1
    <2>3. x.obj.alg = x.obj.key.alg /\ x.obj.key = ALICE /\ x.obj.body.members = members
      BY <2>2, DirFields
    <2>4. PICK o : o = x.obj
      OBVIOUS
    <2>5. VerifySign1(o, Profile, Authority) = "ok"
      BY <2>3, <2>4, SignedIsOk DEF ALICE
    <2> QED BY <2>3, <2>4, <2>5 DEF VerifyDirectory, ALICE
  <1>2. ASSUME NEW x \in dirs, NEW y \in dirs
        PROVE  /\ Proved(x, y) <=> Differ(x, y)
               /\ Differ(x, y) => DetectDirFork(x.obj.body, y.obj.body).at =
                    Len(LongestCommonPrefix({x.obj.body.members, y.obj.body.members}))
    <2>1. PICK s, t : s = x.obj.body /\ t = y.obj.body
      OBVIOUS
    <2>2. PICK a, b : a = s.members /\ b = t.members /\ a \in Seq(Members) /\ b \in Seq(Members)
      BY <1>1, <2>1
    <2>3. PICK f : f = DetectDirFork(s, t)
      OBVIOUS
    <2>4. PICK g : g = FirstMemberDifference(a, b)
      OBVIOUS
    <2>5. f = IF s.directory # t.directory \/ s.version # t.version THEN [at |-> 0, fork |-> FALSE] ELSE g
      BY <2>2, <2>3, <2>4 DEF DetectDirFork
    <2>6. (a = b => ~g.fork) /\ (a # b => g.fork /\ AgreeUpTo(a, b, g.at))
      BY <2>2, <2>4, DifferenceIs
    <2>7. Proved(x, y) <=> f.fork
      <3>1. PICK u, v : u = VerifyDirectory(x.obj, ALICE) /\ v = VerifyDirectory(y.obj, ALICE) /\ u = "ok" /\ v = "ok"
        BY <1>1
      <3>2. DirForkProof("authority", x.obj, y.obj, ALICE) =
              IF "authority" = "" THEN "DirForkProofInvalid" ELSE IF u # "ok" THEN u ELSE IF v # "ok" THEN v
              ELSE IF ~f.fork THEN "DirForkProofInvalid" ELSE "ok"
        BY <2>1, <2>3, <3>1, Zenon DEF DirForkProof
      <3>3. DirForkProof("authority", x.obj, y.obj, ALICE) = IF ~f.fork THEN "DirForkProofInvalid" ELSE "ok"
        BY <3>1, <3>2
      <3> QED BY <3>3
    <2>8. f.fork <=> s.directory = t.directory /\ s.version = t.version /\ a # b
      <3>1. CASE s.directory # t.directory \/ s.version # t.version
        <4>1. f = [at |-> 0, fork |-> FALSE]
          BY <2>5, <3>1
        <4>2. ~f.fork
          BY <4>1
        <4> QED BY <3>1, <4>2
      <3>2. CASE ~(s.directory # t.directory \/ s.version # t.version)
        <4>1. f = g
          BY <2>5, <3>2
        <4> QED BY <2>6, <3>2, <4>1
      <3> QED BY <3>1, <3>2
    <2>9. Proved(x, y) <=> Differ(x, y)
      <3>1. Differ(x, y) <=> s.directory = t.directory /\ s.version = t.version /\ a # b
        BY <2>1, <2>2, Zenon
      <3> HIDE DEF Proved, Differ
      <3> QED BY <2>7, <2>8, <3>1, Zenon
    <2>10. ASSUME Differ(x, y) PROVE f.at = Len(LongestCommonPrefix({a, b}))
      <3>1. s.directory = t.directory /\ s.version = t.version /\ a # b
        BY <2>1, <2>2, <2>10
      <3>2. f = g
        BY <2>5, <3>1
      <3>3. PICK k : k = g.at /\ AgreeUpTo(a, b, k)
        BY <2>6, <3>1
      <3>4. Len(LongestCommonPrefix({a, b})) = k
        BY <2>2, <3>3, LongestIs
      <3> QED BY <3>2, <3>3, <3>4
    <2> HIDE DEF Proved, Differ
    <2> QED BY <2>1, <2>2, <2>3, <2>9, <2>10, Zenon
  <1>3. ASSUME NEW x \in dirs, NEW y \in dirs, x.run = y.run PROVE ~Differ(x, y)
    BY <1>3 DEF DirInv
  <1>4. DirForkIffForked <=>
          /\ \A x, y \in dirs : x.run = y.run => ~Proved(x, y)
          /\ \A x, y \in dirs : Differ(x, y) <=>
               /\ Proved(x, y)
               /\ DetectDirFork(x.obj.body, y.obj.body).at = Len(LongestCommonPrefix({x.obj.body.members, y.obj.body.members}))
    BY Zenon DEF DirForkIffForked
  <1> HIDE DEF Proved, Differ
  <1> QED BY <1>2, <1>3, <1>4, Zenon

(* Who signed two things for one position can be proven to have, in every    *)
(* kind of signed log, and nobody else can (audit.ForkProof,                 *)
(* naming.NameForkProof, description.DirectoryForkProof); one thread calls a *)
(* relay or room at a time, and each has an authority of its own.            *)
THEOREM AccusationsTheorem ==
  ASSUME OneThread, OwnAuthorities
  PROVE  LogsSpec /\ DescSpec => []AccusedIffForked
  <1>1. ChainsInv /\ DirInv /\ HonestNeverAccused /\ EquivocationProven => AccusedIffForked
    BY NameForksHold, DirForksHold, Zenon DEF AccusedIffForked
  <1>2. LogsSpec => []HonestNeverAccused
    BY HonestNeverAccusedAlways
  <1> QED BY <1>1, <1>2, EquivocationAlwaysProven, ChainsInvariant, DirInvariant, PTL

(***************************************************************************)
(* The gateway                                                             *)
(***************************************************************************)
SplitBody(n, f, k) == IF 2 * k < n THEN f[2 * k] ELSE k
SplitFn(n) == CHOOSE f : f = [k \in 1..n |-> SplitBody(n, f, k)]

LEMMA SplitDef == ASSUME NEW n PROVE SplitPoint(n) = SplitFn(n)[1]
  BY Zenon DEF SplitPoint, SplitFn, SplitBody

\* Doubling ends: the values are found from n downwards.
LEMMA SplitFnIs ==
  ASSUME NEW n \in Nat, n > 1
  PROVE  \A k \in 1..n : SplitFn(n)[k] = SplitBody(n, SplitFn(n), k)
  <1> DEFINE G == {j \in 0..(n - 1) : \E g : g = [k \in (n - j)..n |-> SplitBody(n, g, k)]}
  <1>1. 0 \in G
    <2>1. PICK g : g = [k \in n..n |-> n]
      OBVIOUS
    <2>2. \A k \in n..n : SplitBody(n, g, k) = n
      BY DEF SplitBody
    <2>3. g = [k \in n..n |-> SplitBody(n, g, k)]
      BY <2>1, <2>2
    <2>4. n - 0 = n
      OBVIOUS
    <2> QED BY <2>3, <2>4
  <1>2. ASSUME NEW j \in 0..(n - 1), j < n - 1, j \in G PROVE j + 1 \in G
    <2>1. PICK g : g = [k \in (n - j)..n |-> SplitBody(n, g, k)]
      BY <1>2
    <2>2. PICK c \in Nat : c = n - (j + 1) /\ c >= 1 /\ n - j = c + 1
      BY <1>2
    <2>3. PICK h : h = [k \in c..n |-> IF k = c THEN SplitBody(n, g, k) ELSE g[k]]
      OBVIOUS
    <2>4. \A k \in (c + 1)..n : h[k] = g[k] /\ g[k] = SplitBody(n, g, k)
      <3>1. g = [k \in (c + 1)..n |-> SplitBody(n, g, k)]
        BY <2>1, <2>2
      <3>2. \A k \in (c + 1)..n : g[k] = SplitBody(n, g, k)
        BY <3>1
      <3>3. \A k \in (c + 1)..n : k \in c..n /\ k # c
        BY <2>2
      <3>4. \A k \in (c + 1)..n : h[k] = g[k]
        BY <2>3, <3>3
      <3> QED BY <3>2, <3>4
    <2>5. ASSUME NEW k \in c..n PROVE SplitBody(n, h, k) = SplitBody(n, g, k)
      <3>1. CASE 2 * k < n
        <4>1. 2 * k \in (c + 1)..n
          BY <2>2, <3>1
        <4> QED BY <2>4, <4>1 DEF SplitBody
      <3>2. CASE ~(2 * k < n)
        BY <3>2 DEF SplitBody
      <3> QED BY <3>1, <3>2
    <2>6. ASSUME NEW k \in c..n PROVE h[k] = SplitBody(n, h, k)
      <3>1. CASE k = c
        BY <2>3, <2>5, <3>1
      <3>2. CASE k # c
        <4>1. k \in (c + 1)..n
          BY <2>2, <3>2
        <4> QED BY <2>4, <2>5, <4>1
      <3> QED BY <3>1, <3>2
    <2>7. h = [k \in c..n |-> SplitBody(n, h, k)]
      BY <2>3, <2>6
    <2>8. j + 1 \in 0..(n - 1)
      BY <1>2
    <2> QED BY <2>2, <2>7, <2>8
  <1>3. PICK m \in Nat : m = n - 1
    OBVIOUS
  <1>4. m \in G
    <2> HIDE DEF G
    <2>1. \A k \in 0..m : k \in G
      BY <1>1, <1>2, <1>3, AllUpTo
    <2> QED BY <2>1
  <1>5. \E g : g = [k \in 1..n |-> SplitBody(n, g, k)]
    <2>1. n - m = 1
      BY <1>3
    <2> QED BY <1>4, <2>1
  <1>6. PICK f : f = SplitFn(n)
    OBVIOUS
  <1>7. f = [k \in 1..n |-> SplitBody(n, f, k)]
    BY <1>5, <1>6, Zenon DEF SplitFn
  <1>8. \A k \in 1..n : f[k] = SplitBody(n, f, k)
    BY <1>7
  <1> QED BY <1>6, <1>8

\* Both halves of a tree have leaves.
LEMMA SplitIs == ASSUME NEW n \in Nat, n > 1 PROVE SplitPoint(n) \in 1..(n - 1)
  <1>1. PICK f : f = SplitFn(n)
    OBVIOUS
  <1>2. \A k \in 1..n : f[k] = SplitBody(n, f, k)
    BY <1>1, SplitFnIs
  <1>3. PICK m \in Nat : m = n - 2
    OBVIOUS
  <1> DEFINE G == {j \in 0..m : \A k \in (n - 1 - j)..(n - 1) : f[k] \in 1..(n - 1)}
  <1>4. 0 \in G
    <2>1. n - 1 \in 1..n /\ ~(2 * (n - 1) < n) /\ n - 1 - 0 = n - 1
      OBVIOUS
    <2>2. f[n - 1] = n - 1
      BY <1>2, <2>1 DEF SplitBody
    <2> QED BY <1>3, <2>1, <2>2
  <1>5. ASSUME NEW j \in 0..m, j < m, j \in G PROVE j + 1 \in G
    <2>1. ASSUME NEW k \in (n - 1 - (j + 1))..(n - 1) PROVE f[k] \in 1..(n - 1)
      <3>1. k \in 1..n
        BY <1>3, <1>5
      <3>2. f[k] = SplitBody(n, f, k)
        BY <1>2, <3>1
      <3>3. CASE 2 * k < n
        <4>1. 2 * k \in (n - 1 - j)..(n - 1)
          BY <1>3, <1>5, <3>1, <3>3
        <4>2. f[2 * k] \in 1..(n - 1)
          BY <1>5, <4>1
        <4> QED BY <3>2, <3>3, <4>2 DEF SplitBody
      <3>4. CASE ~(2 * k < n)
        BY <3>1, <3>2, <3>4 DEF SplitBody
      <3> QED BY <3>3, <3>4
    <2>2. j + 1 \in 0..m
      BY <1>5
    <2> QED BY <2>1, <2>2
  <1>6. m \in G
    <2> HIDE DEF G
    <2>1. \A k \in 0..m : k \in G
      BY <1>4, <1>5, AllUpTo
    <2> QED BY <2>1
  <1>7. f[1] \in 1..(n - 1)
    <2>1. 1 \in (n - 1 - m)..(n - 1)
      BY <1>3
    <2> QED BY <1>6, <2>1
  <1> QED BY <1>1, <1>7, SplitDef

TreeBody(leaves, f, n) ==
  [lo \in 0..(Len(leaves) - n) |->
     IF n = 0 THEN <<"empty">> ELSE IF n = 1 THEN LeafHash(leaves[lo + 1])
     ELSE NodeHash(f[SplitPoint(n)][lo], f[n - SplitPoint(n)][lo + SplitPoint(n)])]
TreeFn(leaves) == CHOOSE f : f = [n \in 0..Len(leaves) |-> TreeBody(leaves, f, n)]

LEMMA TreeDef == ASSUME NEW leaves PROVE Subtree(leaves) = TreeFn(leaves)
  BY Zenon DEF Subtree, TreeFn, TreeBody

\* The slices of the leaves have roots, the smaller ones first.
LEMMA TreeFnIs ==
  ASSUME NEW leaves, NEW N \in Nat, N = Len(leaves)
  PROVE  \A n \in 0..N : TreeFn(leaves)[n] = TreeBody(leaves, TreeFn(leaves), n)
  <1>0. ASSUME NEW k \in 0..N, NEW n \in 0..N, n <= k + 1, NEW g, NEW h, \A i \in 0..k : g[i] = h[i]
        PROVE  TreeBody(leaves, g, n) = TreeBody(leaves, h, n)
    <2>1. CASE n <= 1
      BY <2>1 DEF TreeBody
    <2>2. CASE n > 1
      <3>1. PICK s : s = SplitPoint(n)
        OBVIOUS
      <3>2. s \in 1..(n - 1)
        BY <2>2, <3>1, SplitIs
      <3>3. s \in 0..k /\ n - s \in 0..k
        BY <1>0, <3>2
      <3>4. g[s] = h[s] /\ g[n - s] = h[n - s]
        BY <1>0, <3>3
      <3> QED BY <3>1, <3>4, Zenon DEF TreeBody
    <2> QED BY <2>1, <2>2
  <1> DEFINE G == {k \in 0..N : \E g : g = [n \in 0..k |-> TreeBody(leaves, g, n)]}
  <1>1. 0 \in G
    <2>1. PICK g : g = [n \in 0..0 |-> TreeBody(leaves, << >>, n)]
      OBVIOUS
    <2>2. \A n \in 0..0 : TreeBody(leaves, g, n) = TreeBody(leaves, << >>, n)
      BY DEF TreeBody
    <2>3. g = [n \in 0..0 |-> TreeBody(leaves, g, n)]
      BY <2>1, <2>2
    <2> QED BY <2>3
  <1>2. ASSUME NEW k \in 0..N, k < N, k \in G PROVE k + 1 \in G
    <2>1. PICK g : g = [n \in 0..k |-> TreeBody(leaves, g, n)]
      BY <1>2
    <2>2. PICK h : h = [n \in 0..(k + 1) |-> IF n = k + 1 THEN TreeBody(leaves, g, n) ELSE g[n]]
      OBVIOUS
    <2>3. \A n \in 0..k : h[n] = g[n] /\ g[n] = TreeBody(leaves, g, n)
      <3>1. \A n \in 0..k : g[n] = TreeBody(leaves, g, n)
        BY <2>1
      <3>2. \A n \in 0..k : n \in 0..(k + 1) /\ n # k + 1
        OBVIOUS
      <3>3. \A n \in 0..k : h[n] = g[n]
        BY <2>2, <3>2
      <3> QED BY <3>1, <3>3
    <2>4. ASSUME NEW n \in 0..(k + 1) PROVE TreeBody(leaves, h, n) = TreeBody(leaves, g, n)
      <3>1. n \in 0..N /\ n <= k + 1
        BY <1>2
      <3>2. CASE k \in 0..N
        <4>1. \A i \in 0..k : h[i] = g[i]
          BY <2>3
        <4> QED BY <1>0, <3>1, <3>2, <4>1
      <3>3. CASE k \notin 0..N
        <4>1. n = 1
          BY <1>2, <3>3
        <4> QED BY <4>1 DEF TreeBody
      <3> QED BY <3>2, <3>3
    <2>5. ASSUME NEW n \in 0..(k + 1) PROVE h[n] = TreeBody(leaves, h, n)
      <3>1. CASE n = k + 1
        BY <2>2, <2>4, <3>1
      <3>2. CASE n # k + 1
        <4>1. n \in 0..k
          BY <3>2
        <4> QED BY <2>3, <2>4, <4>1
      <3> QED BY <3>1, <3>2
    <2>6. h = [n \in 0..(k + 1) |-> TreeBody(leaves, h, n)]
      BY <2>2, <2>5
    <2>7. k + 1 \in 0..N
      BY <1>2
    <2> QED BY <2>6, <2>7
  <1>3. N \in G
    <2> HIDE DEF G
    <2>1. \A k \in 0..N : k \in G
      BY <1>1, <1>2, AllUpTo
    <2> QED BY <2>1
  <1>4. \E g : g = [n \in 0..Len(leaves) |-> TreeBody(leaves, g, n)]
    BY <1>3
  <1>5. PICK f : f = TreeFn(leaves)
    OBVIOUS
  <1>6. f = [n \in 0..Len(leaves) |-> TreeBody(leaves, f, n)]
    BY <1>4, <1>5, Zenon DEF TreeFn
  <1>7. \A n \in 0..N : f[n] = TreeBody(leaves, f, n)
    BY <1>6
  <1> QED BY <1>5, <1>7

PathBody(leaves, index, f, n) ==
  [lo \in 0..(Len(leaves) - n) |->
     LET k == SplitPoint(n) IN
     IF n <= 1 THEN << >>
     ELSE IF index < lo + k THEN Append(f[k][lo], Subtree(leaves)[n - k][lo + k])
     ELSE Append(f[n - k][lo + k], Subtree(leaves)[k][lo])]
PathFn(leaves, index) == CHOOSE f : f = [n \in 0..Len(leaves) |-> PathBody(leaves, index, f, n)]

LEMMA PathDef == ASSUME NEW leaves, NEW index PROVE GenPath(leaves, index) = PathFn(leaves, index)[Len(leaves)][0]
  BY Zenon DEF GenPath, PathFn, PathBody

\* So do their paths.
LEMMA PathFnIs ==
  ASSUME NEW leaves, NEW index, NEW N \in Nat, N = Len(leaves)
  PROVE  \A n \in 0..N : PathFn(leaves, index)[n] = PathBody(leaves, index, PathFn(leaves, index), n)
  <1>0. ASSUME NEW k \in 0..N, NEW n \in 0..N, n <= k + 1, NEW g, NEW h, \A i \in 0..k : g[i] = h[i]
        PROVE  PathBody(leaves, index, g, n) = PathBody(leaves, index, h, n)
    <2>1. CASE n <= 1
      BY <2>1 DEF PathBody
    <2>2. CASE n > 1
      <3>1. PICK s : s = SplitPoint(n)
        OBVIOUS
      <3>2. s \in 1..(n - 1)
        BY <2>2, <3>1, SplitIs
      <3>3. s \in 0..k /\ n - s \in 0..k
        BY <1>0, <3>2
      <3>4. g[s] = h[s] /\ g[n - s] = h[n - s]
        BY <1>0, <3>3
      <3> QED BY <3>1, <3>4, Zenon DEF PathBody
    <2> QED BY <2>1, <2>2
  <1> DEFINE G == {k \in 0..N : \E g : g = [n \in 0..k |-> PathBody(leaves, index, g, n)]}
  <1>1. 0 \in G
    <2>1. PICK g : g = [n \in 0..0 |-> PathBody(leaves, index, << >>, n)]
      OBVIOUS
    <2>2. \A n \in 0..0 : PathBody(leaves, index, g, n) = PathBody(leaves, index, << >>, n)
      BY DEF PathBody
    <2>3. g = [n \in 0..0 |-> PathBody(leaves, index, g, n)]
      BY <2>1, <2>2
    <2> QED BY <2>3
  <1>2. ASSUME NEW k \in 0..N, k < N, k \in G PROVE k + 1 \in G
    <2>1. PICK g : g = [n \in 0..k |-> PathBody(leaves, index, g, n)]
      BY <1>2
    <2>2. PICK h : h = [n \in 0..(k + 1) |-> IF n = k + 1 THEN PathBody(leaves, index, g, n) ELSE g[n]]
      OBVIOUS
    <2>3. \A n \in 0..k : h[n] = g[n] /\ g[n] = PathBody(leaves, index, g, n)
      <3>1. \A n \in 0..k : g[n] = PathBody(leaves, index, g, n)
        BY <2>1
      <3>2. \A n \in 0..k : n \in 0..(k + 1) /\ n # k + 1
        OBVIOUS
      <3>3. \A n \in 0..k : h[n] = g[n]
        BY <2>2, <3>2
      <3> QED BY <3>1, <3>3
    <2>4. ASSUME NEW n \in 0..(k + 1) PROVE PathBody(leaves, index, h, n) = PathBody(leaves, index, g, n)
      <3>1. n \in 0..N /\ n <= k + 1
        BY <1>2
      <3>2. CASE k \in 0..N
        <4>1. \A i \in 0..k : h[i] = g[i]
          BY <2>3
        <4> QED BY <1>0, <3>1, <3>2, <4>1
      <3>3. CASE k \notin 0..N
        <4>1. n = 1
          BY <1>2, <3>3
        <4> QED BY <4>1 DEF PathBody
      <3> QED BY <3>2, <3>3
    <2>5. ASSUME NEW n \in 0..(k + 1) PROVE h[n] = PathBody(leaves, index, h, n)
      <3>1. CASE n = k + 1
        BY <2>2, <2>4, <3>1
      <3>2. CASE n # k + 1
        <4>1. n \in 0..k
          BY <3>2
        <4> QED BY <2>3, <2>4, <4>1
      <3> QED BY <3>1, <3>2
    <2>6. h = [n \in 0..(k + 1) |-> PathBody(leaves, index, h, n)]
      BY <2>2, <2>5
    <2>7. k + 1 \in 0..N
      BY <1>2
    <2> QED BY <2>6, <2>7
  <1>3. N \in G
    <2> HIDE DEF G
    <2>1. \A k \in 0..N : k \in G
      BY <1>1, <1>2, AllUpTo
    <2> QED BY <2>1
  <1>4. \E g : g = [n \in 0..Len(leaves) |-> PathBody(leaves, index, g, n)]
    BY <1>3
  <1>5. PICK f : f = PathFn(leaves, index)
    OBVIOUS
  <1>6. f = [n \in 0..Len(leaves) |-> PathBody(leaves, index, f, n)]
    BY <1>4, <1>5, Zenon DEF PathFn
  <1>7. \A n \in 0..N : f[n] = PathBody(leaves, index, f, n)
    BY <1>6
  <1> QED BY <1>5, <1>7

RedoBody(leaf, index, size, path, f, n) ==
  [lo \in 0..(size - n) |-> [m \in 0..Len(path) |->
     LET k == SplitPoint(n)
         sub == IF index < lo + k THEN f[k][lo][m - 1] ELSE f[n - k][lo + k][m - 1]
     IN IF n = 1 THEN IF m = 0 THEN leaf ELSE Mismatch
        ELSE IF m = 0 THEN Mismatch
        ELSE IF sub = Mismatch THEN Mismatch
        ELSE IF index < lo + k THEN NodeHash(sub, path[m]) ELSE NodeHash(path[m], sub)]]
RedoFn(leaf, index, size, path) == CHOOSE f : f = [n \in 1..size |-> RedoBody(leaf, index, size, path, f, n)]

LEMMA RedoDef == 
  ASSUME NEW leaf, NEW index, NEW size, NEW path
  PROVE  RecomputeRoot(leaf, index, size, path) = RedoFn(leaf, index, size, path)[size][0][Len(path)]
  BY Zenon DEF RecomputeRoot, RedoFn, RedoBody

\* And so does what a verifier recomputes of them.
LEMMA RedoFnIs ==
  ASSUME NEW leaf, NEW index, NEW path, NEW N \in Nat
  PROVE  \A n \in 1..N : RedoFn(leaf, index, N, path)[n] = RedoBody(leaf, index, N, path, RedoFn(leaf, index, N, path), n)
  <1>0. ASSUME NEW k \in 1..N, NEW n \in 1..N, n <= k + 1, NEW g, NEW h, \A i \in 1..k : g[i] = h[i]
        PROVE  RedoBody(leaf, index, N, path, g, n) = RedoBody(leaf, index, N, path, h, n)
    <2>1. CASE n <= 1
      BY <2>1 DEF RedoBody
    <2>2. CASE n > 1
      <3>1. PICK s : s = SplitPoint(n)
        OBVIOUS
      <3>2. s \in 1..(n - 1)
        BY <2>2, <3>1, SplitIs
      <3>3. s \in 1..k /\ n - s \in 1..k
        BY <1>0, <3>2
      <3>4. g[s] = h[s] /\ g[n - s] = h[n - s]
        BY <1>0, <3>3
      <3> QED BY <3>1, <3>4, Zenon DEF RedoBody
    <2> QED BY <2>1, <2>2
  <1> DEFINE G == {k \in 0..N : \E g : g = [n \in 1..k |-> RedoBody(leaf, index, N, path, g, n)]}
  <1>1. 0 \in G
    <2>1. PICK g : g = [n \in 1..0 |-> RedoBody(leaf, index, N, path, << >>, n)]
      OBVIOUS
    <2>2. \A n \in 1..0 : RedoBody(leaf, index, N, path, g, n) = RedoBody(leaf, index, N, path, << >>, n)
      BY DEF RedoBody
    <2>3. g = [n \in 1..0 |-> RedoBody(leaf, index, N, path, g, n)]
      BY <2>1, <2>2
    <2>4. 0 \in 0..N
      OBVIOUS
    <2> QED BY <2>3, <2>4, Zenon
  <1>2. ASSUME NEW k \in 0..N, k < N, k \in G PROVE k + 1 \in G
    <2>1. PICK g : g = [n \in 1..k |-> RedoBody(leaf, index, N, path, g, n)]
      BY <1>2
    <2>2. PICK h : h = [n \in 1..(k + 1) |-> IF n = k + 1 THEN RedoBody(leaf, index, N, path, g, n) ELSE g[n]]
      OBVIOUS
    <2>3. \A n \in 1..k : h[n] = g[n] /\ g[n] = RedoBody(leaf, index, N, path, g, n)
      <3>1. \A n \in 1..k : g[n] = RedoBody(leaf, index, N, path, g, n)
        BY <2>1
      <3>2. \A n \in 1..k : n \in 1..(k + 1) /\ n # k + 1
        OBVIOUS
      <3>3. \A n \in 1..k : h[n] = g[n]
        BY <2>2, <3>2
      <3> QED BY <3>1, <3>3
    <2>4. ASSUME NEW n \in 1..(k + 1) PROVE RedoBody(leaf, index, N, path, h, n) = RedoBody(leaf, index, N, path, g, n)
      <3>1. n \in 1..N /\ n <= k + 1
        BY <1>2
      <3>2. CASE k \in 1..N
        <4>1. \A i \in 1..k : h[i] = g[i]
          BY <2>3
        <4> QED BY <1>0, <3>1, <3>2, <4>1
      <3>3. CASE k \notin 1..N
        <4>1. n = 1
          BY <1>2, <3>3
        <4> QED BY <4>1 DEF RedoBody
      <3> QED BY <3>2, <3>3
    <2>5. ASSUME NEW n \in 1..(k + 1) PROVE h[n] = RedoBody(leaf, index, N, path, h, n)
      <3>1. CASE n = k + 1
        BY <2>2, <2>4, <3>1
      <3>2. CASE n # k + 1
        <4>1. n \in 1..k
          BY <3>2
        <4> QED BY <2>3, <2>4, <4>1
      <3> QED BY <3>1, <3>2
    <2>6. h = [n \in 1..(k + 1) |-> RedoBody(leaf, index, N, path, h, n)]
      BY <2>2, <2>5
    <2>7. k + 1 \in 0..N
      BY <1>2
    <2> QED BY <2>6, <2>7
  <1>3. N \in G
    <2> HIDE DEF G
    <2>1. \A k \in 0..N : k \in G
      BY <1>1, <1>2, AllUpTo
    <2> QED BY <2>1
  <1>4. \E g : g = [n \in 1..N |-> RedoBody(leaf, index, N, path, g, n)]
    BY <1>3
  <1>5. PICK f : f = RedoFn(leaf, index, N, path)
    OBVIOUS
  <1>6. f = [n \in 1..N |-> RedoBody(leaf, index, N, path, f, n)]
    BY <1>4, <1>5, Zenon DEF RedoFn
  <1>7. \A n \in 1..N : f[n] = RedoBody(leaf, index, N, path, f, n)
    BY <1>6
  <1> QED BY <1>5, <1>7

TreeSays(leaves, T, n, lo, s) ==
  /\ n = 1 => T[n][lo] = LeafHash(leaves[lo + 1])
  /\ n > 1 => T[n][lo] = NodeHash(T[s][lo], T[n - s][lo + s])

LEMMA TreeIs ==
  ASSUME NEW leaves, NEW N \in Nat, N = Len(leaves), NEW T, T = Subtree(leaves),
         NEW n \in 0..N, NEW lo \in 0..(N - n), NEW s, s = SplitPoint(n)
  PROVE  TreeSays(leaves, T, n, lo, s)
  <1>1. T = TreeFn(leaves)
    BY TreeDef
  <1>2. T[n] = TreeBody(leaves, T, n)
    BY <1>1, TreeFnIs
  <1>3. T[n][lo] = IF n = 0 THEN <<"empty">> ELSE IF n = 1 THEN LeafHash(leaves[lo + 1])
                   ELSE NodeHash(T[s][lo], T[n - s][lo + s])
    BY <1>2 DEF TreeBody
  <1> HIDE DEF LeafHash, NodeHash
  <1> QED BY <1>3 DEF TreeSays

PathSays(index, T, P, n, lo, s) ==
  /\ n <= 1 => P[n][lo] = << >>
  /\ n > 1 /\ index < lo + s => P[n][lo] = Append(P[s][lo], T[n - s][lo + s])
  /\ n > 1 /\ ~(index < lo + s) => P[n][lo] = Append(P[n - s][lo + s], T[s][lo])

LEMMA PathStep ==
  ASSUME NEW leaves, NEW N \in Nat, N = Len(leaves), NEW index, NEW T, T = Subtree(leaves), NEW P, P = PathFn(leaves, index),
         NEW n \in 0..N, NEW lo \in 0..(N - n), NEW s, s = SplitPoint(n)
  PROVE  PathSays(index, T, P, n, lo, s)
  <1>2. P[n] = PathBody(leaves, index, P, n)
    BY PathFnIs
  <1>3. P[n][lo] = IF n <= 1 THEN << >> ELSE IF index < lo + s THEN Append(P[s][lo], T[n - s][lo + s])
                   ELSE Append(P[n - s][lo + s], T[s][lo])
    BY <1>2, Zenon DEF PathBody
  <1>4. n <= 1 <=> ~(n > 1)
    OBVIOUS
  <1> QED BY <1>3, <1>4, Zenon DEF PathSays

RedoSays(leaf, index, path, R, n, lo, m, s, sub) ==
  /\ n = 1 => R[n][lo][m] = IF m = 0 THEN leaf ELSE Mismatch
  /\ n > 1 /\ m = 0 => R[n][lo][m] = Mismatch
  /\ n > 1 /\ m # 0 => R[n][lo][m] = IF sub = Mismatch THEN Mismatch
                                     ELSE IF index < lo + s THEN NodeHash(sub, path[m]) ELSE NodeHash(path[m], sub)

LEMMA RedoStep ==
  ASSUME NEW leaf, NEW N \in Nat, NEW index, NEW path, NEW R, R = RedoFn(leaf, index, N, path),
         NEW n \in 1..N, NEW lo \in 0..(N - n), NEW L, L = Len(path), NEW m \in 0..L, NEW s, s = SplitPoint(n),
         NEW sub, sub = IF index < lo + s THEN R[s][lo][m - 1] ELSE R[n - s][lo + s][m - 1]
  PROVE  RedoSays(leaf, index, path, R, n, lo, m, s, sub)
  <1>2. R[n] = RedoBody(leaf, index, N, path, R, n)
    BY RedoFnIs
  <1>3. R[n][lo][m] = IF n = 1 THEN IF m = 0 THEN leaf ELSE Mismatch
                      ELSE IF m = 0 THEN Mismatch
                      ELSE IF sub = Mismatch THEN Mismatch
                      ELSE IF index < lo + s THEN NodeHash(sub, path[m]) ELSE NodeHash(path[m], sub)
    <2> DEFINE Cell(l, j) ==
                 LET k == SplitPoint(n)
                     below == IF index < l + k THEN R[k][l][j - 1] ELSE R[n - k][l + k][j - 1]
                 IN IF n = 1 THEN IF j = 0 THEN leaf ELSE Mismatch
                    ELSE IF j = 0 THEN Mismatch
                    ELSE IF below = Mismatch THEN Mismatch
                    ELSE IF index < l + k THEN NodeHash(below, path[j]) ELSE NodeHash(path[j], below)
    <2>1. R[n] = [l \in 0..(N - n) |-> [j \in 0..Len(path) |-> Cell(l, j)]]
      BY <1>2, Zenon DEF RedoBody
    <2>2. Cell(lo, m) = IF n = 1 THEN IF m = 0 THEN leaf ELSE Mismatch
                        ELSE IF m = 0 THEN Mismatch
                        ELSE IF sub = Mismatch THEN Mismatch
                        ELSE IF index < lo + s THEN NodeHash(sub, path[m]) ELSE NodeHash(path[m], sub)
      BY Zenon
    <2> HIDE DEF Cell
    <2>3. R[n][lo] = [j \in 0..Len(path) |-> Cell(lo, j)]
      BY <2>1
    <2>4. R[n][lo][m] = Cell(lo, m)
      BY <2>3
    <2> QED BY <2>2, <2>4
  <1>4. n > 1 => n # 1
    OBVIOUS
  <1> QED BY <1>3, <1>4, Zenon DEF RedoSays

\* Hashes tell apart what they are made of.
LEMMA HashesDiffer ==
  /\ \A a, b, c, d : NodeHash(a, b) = NodeHash(c, d) <=> a = c /\ b = d
  /\ \A a, b : NodeHash(a, b) # Mismatch
  /\ \A a, b : LeafHash(a) = LeafHash(b) <=> a = b
  /\ \A a : LeafHash(a) # Mismatch
  BY DEF NodeHash, LeafHash, Mismatch

\* The first m hashes of path are the sequence p.
Starts(p, path, m) == Len(p) = m /\ \A i \in 1..m : p[i] = path[i]

LEMMA StartsAppend ==
  ASSUME NEW H, NEW p \in Seq(H), NEW x \in H, NEW path, NEW m \in Nat
  PROVE  /\ Append(p, x) \in Seq(H)
         /\ m = 0 => ~Starts(Append(p, x), path, m)
         /\ m > 0 => (Starts(Append(p, x), path, m) <=> Starts(p, path, m - 1) /\ path[m] = x)
  <1>1. PICK n \in Nat : n = Len(p)
    BY LenProperties
  <1>2. PICK q : q = Append(p, x)
    OBVIOUS
  <1>3. q \in Seq(H) /\ Len(q) = n + 1 /\ q[n + 1] = x /\ \A i \in 1..n : q[i] = p[i]
    BY <1>1, <1>2, AppendProperties
  <1>4. m > 0 => (Starts(q, path, m) <=> Starts(p, path, m - 1) /\ path[m] = x)
    <2>1. ASSUME m > 0, n # m - 1 PROVE ~Starts(q, path, m) /\ ~Starts(p, path, m - 1)
      BY <1>1, <1>3, <2>1 DEF Starts
    <2>2. ASSUME m > 0, n = m - 1 PROVE Starts(q, path, m) <=> Starts(p, path, m - 1) /\ path[m] = x
      <3>1. m = n + 1
        BY <2>2
      <3>2. Starts(q, path, m) <=> \A i \in 1..(n + 1) : q[i] = path[i]
        BY <1>3, <3>1 DEF Starts
      <3>3. Starts(p, path, m - 1) <=> \A i \in 1..n : p[i] = path[i]
        BY <1>1, <2>2 DEF Starts
      <3>4. (\A i \in 1..(n + 1) : q[i] = path[i]) <=> (\A i \in 1..n : q[i] = path[i]) /\ q[n + 1] = path[n + 1]
        <4>1. \A i \in 1..(n + 1) : i \in 1..n \/ i = n + 1
          OBVIOUS
        <4>2. \A i \in 1..n : i \in 1..(n + 1)
          OBVIOUS
        <4>3. n + 1 \in 1..(n + 1)
          OBVIOUS
        <4> QED BY <4>1, <4>2, <4>3
      <3> QED BY <1>3, <3>1, <3>2, <3>3, <3>4
    <2> QED BY <2>1, <2>2
  <1>5. m = 0 => ~Starts(q, path, m)
    BY <1>3 DEF Starts
  <1> QED BY <1>2, <1>3, <1>4, <1>5

\* What a verifier recomputes of a slice is its root if and only if the leaf is in
\* its place and the hashes used are the generated path.
SliceExact(leaves, leaf, index, path, T, P, R, H, n, lo) ==
  /\ P[n][lo] \in Seq(H)
  /\ \A m \in 0..Len(path) : R[n][lo][m] = T[n][lo] <=> leaf = leaves[index + 1] /\ Starts(P[n][lo], path, m)

LEMMA OneLeafExact ==
  ASSUME NEW leaves, NEW N \in Nat, N = Len(leaves), NEW leaf, NEW index \in 0..(N - 1),
         NEW path, NEW L \in Nat, L = Len(path), NEW T, T = Subtree(leaves), NEW P, P = PathFn(leaves, index),
         NEW R, R = RedoFn(LeafHash(leaf), index, N, path), NEW H
  PROVE  SliceExact(leaves, leaf, index, path, T, P, R, H, 1, index)
  <1>1. 1 \in 0..N /\ 1 \in 1..N /\ index \in 0..(N - 1) /\ 1 <= 1
    OBVIOUS
  <1>2. PICK n, s : n = 1 /\ s = SplitPoint(n)
    OBVIOUS
  <1>3. T[1][index] = LeafHash(leaves[index + 1])
    <2>1. TreeSays(leaves, T, n, index, s)
      BY <1>1, <1>2, TreeIs
    <2> QED BY <1>2, <2>1, Zenon DEF TreeSays
  <1>4. P[1][index] = << >>
    <2>1. PathSays(index, T, P, n, index, s)
      BY <1>1, <1>2, PathStep
    <2> QED BY <1>1, <1>2, <2>1, Zenon DEF PathSays
  <1>5. ASSUME NEW m \in 0..L
        PROVE  R[1][index][m] = T[1][index] <=> leaf = leaves[index + 1] /\ Starts(P[1][index], path, m)
    <2>1. PICK h, sub : h = LeafHash(leaf) /\ sub = IF index < index + s THEN R[s][index][m - 1] ELSE R[n - s][index + s][m - 1]
      OBVIOUS
    <2>2. R[1][index][m] = IF m = 0 THEN h ELSE Mismatch
      <3>1. R = RedoFn(h, index, N, path)
        BY <2>1
      <3>2. RedoSays(h, index, path, R, n, index, m, s, sub)
        BY <1>1, <1>2, <2>1, <3>1, RedoStep
      <3> QED BY <1>2, <3>2, Zenon DEF RedoSays
    <2>3. Starts(<< >>, path, m) <=> m = 0
      BY DEF Starts
    <2> HIDE DEF LeafHash, Mismatch
    <2> QED BY <1>3, <1>4, <2>1, <2>2, <2>3, HashesDiffer
  <1>6. << >> \in Seq(H)
    OBVIOUS
  <1> QED BY <1>4, <1>5, <1>6 DEF SliceExact

LEMMA MoreLeavesExact ==
  ASSUME NEW leaves, NEW N \in Nat, N = Len(leaves), NEW leaf, NEW index \in 0..(N - 1),
         NEW path, NEW L \in Nat, L = Len(path), NEW T, T = Subtree(leaves), NEW P, P = PathFn(leaves, index),
         NEW R, R = RedoFn(LeafHash(leaf), index, N, path), NEW H, \A i, j \in 0..N : T[i][j] \in H,
         NEW n \in 2..N, NEW lo \in 0..(N - n), index \in lo..(lo + n - 1), NEW s \in 1..(n - 1), s = SplitPoint(n),
         index < lo + s => SliceExact(leaves, leaf, index, path, T, P, R, H, s, lo),
         ~(index < lo + s) => SliceExact(leaves, leaf, index, path, T, P, R, H, n - s, lo + s)
  PROVE  SliceExact(leaves, leaf, index, path, T, P, R, H, n, lo)
  <1>1. n \in 0..N /\ n \in 1..N /\ n > 1 /\ ~(n <= 1)
    OBVIOUS
  <1>2. PICK tl, tr, t : tl = T[s][lo] /\ tr = T[n - s][lo + s] /\ t = T[n][lo]
    OBVIOUS
  <1>3. t = NodeHash(tl, tr)
    <2>1. TreeSays(leaves, T, n, lo, s)
      BY <1>1, TreeIs
    <2> QED BY <1>1, <1>2, <2>1, Zenon DEF TreeSays
  <1>4. tl \in H /\ tr \in H
    <2>1. s \in 0..N /\ lo \in 0..N /\ n - s \in 0..N /\ lo + s \in 0..N
      OBVIOUS
    <2> QED BY <1>2, <2>1
  <1>5. tl # Mismatch /\ tr # Mismatch
    <2>1. ASSUME NEW i \in 1..N, NEW j \in 0..(N - i) PROVE T[i][j] # Mismatch
      <3>1. PICK k : k = SplitPoint(i)
        OBVIOUS
      <3>2. /\ i = 1 => T[i][j] = LeafHash(leaves[j + 1])
            /\ i > 1 => T[i][j] = NodeHash(T[k][j], T[i - k][j + k])
        <4>1. i \in 0..N
          OBVIOUS
        <4>2. TreeSays(leaves, T, i, j, k)
          BY <3>1, <4>1, TreeIs
        <4> QED BY <4>2, Zenon DEF TreeSays
      <3> HIDE DEF LeafHash, NodeHash, Mismatch
      <3> QED BY <3>2, HashesDiffer
    <2>2. s \in 1..N /\ lo \in 0..(N - s) /\ n - s \in 1..N /\ lo + s \in 0..(N - (n - s))
      OBVIOUS
    <2> QED BY <1>2, <2>1, <2>2
  <1>6. CASE index < lo + s
    <2>1. PICK p : p = P[s][lo]
      OBVIOUS
    <2>2. P[n][lo] = Append(p, tr)
      <3>1. PathSays(index, T, P, n, lo, s)
        BY <1>1, PathStep
      <3> QED BY <1>1, <1>2, <1>6, <2>1, <3>1, Zenon DEF PathSays
    <2>3. p \in Seq(H)
      BY <1>6, <2>1 DEF SliceExact
    <2>4. Append(p, tr) \in Seq(H)
      BY <1>4, <2>3, StartsAppend
    <2>5. ASSUME NEW m \in 0..L PROVE R[n][lo][m] = t <=> leaf = leaves[index + 1] /\ Starts(Append(p, tr), path, m)
      <3>1. PICK h, sub : h = LeafHash(leaf) /\ sub = IF index < lo + s THEN R[s][lo][m - 1] ELSE R[n - s][lo + s][m - 1]
        OBVIOUS
      <3>2. /\ m = 0 => R[n][lo][m] = Mismatch
            /\ m # 0 => R[n][lo][m] = IF sub = Mismatch THEN Mismatch
                                      ELSE IF index < lo + s THEN NodeHash(sub, path[m]) ELSE NodeHash(path[m], sub)
        <4>1. R = RedoFn(h, index, N, path)
          BY <3>1
        <4>2. RedoSays(h, index, path, R, n, lo, m, s, sub)
          BY <1>1, <3>1, <4>1, RedoStep
        <4> QED BY <1>1, <4>2, Zenon DEF RedoSays
      <3>3. CASE m = 0
        <4>1. ~Starts(Append(p, tr), path, m)
          BY <1>4, <2>3, <3>3, StartsAppend
        <4>2. R[n][lo][m] = Mismatch
          BY <3>2, <3>3
        <4>3. NodeHash(tl, tr) # Mismatch
          BY HashesDiffer, Zenon
        <4> QED BY <1>3, <4>1, <4>2, <4>3, Zenon
      <3>4. CASE m # 0
        <4>1. Starts(Append(p, tr), path, m) <=> Starts(p, path, m - 1) /\ path[m] = tr
          <5>1. m \in Nat /\ m > 0
            BY <3>4
          <5> QED BY <1>4, <2>3, <5>1, StartsAppend
        <4>2. m - 1 \in 0..Len(path)
          BY <3>4
        <4>3. sub = R[s][lo][m - 1]
          BY <1>6, <3>1
        <4>4. sub = tl <=> leaf = leaves[index + 1] /\ Starts(p, path, m - 1)
          BY <1>2, <1>6, <2>1, <4>2, <4>3 DEF SliceExact
        <4>5. R[n][lo][m] = IF sub = Mismatch THEN Mismatch ELSE NodeHash(sub, path[m])
          BY <1>6, <3>2, <3>4
        <4>6. R[n][lo][m] = t <=> sub = tl /\ path[m] = tr
          <5> HIDE DEF NodeHash, Mismatch
          <5> QED BY <1>3, <1>5, <4>5, HashesDiffer
        <4> QED BY <4>1, <4>4, <4>6
      <3> QED BY <3>3, <3>4
    <2> QED BY <1>2, <2>2, <2>4, <2>5 DEF SliceExact
  <1>7. CASE ~(index < lo + s)
    <2>1. PICK p : p = P[n - s][lo + s]
      OBVIOUS
    <2>2. P[n][lo] = Append(p, tl)
      <3>1. PathSays(index, T, P, n, lo, s)
        BY <1>1, PathStep
      <3> QED BY <1>1, <1>2, <1>7, <2>1, <3>1, Zenon DEF PathSays
    <2>3. p \in Seq(H)
      BY <1>7, <2>1 DEF SliceExact
    <2>4. Append(p, tl) \in Seq(H)
      BY <1>4, <2>3, StartsAppend
    <2>5. ASSUME NEW m \in 0..L PROVE R[n][lo][m] = t <=> leaf = leaves[index + 1] /\ Starts(Append(p, tl), path, m)
      <3>1. PICK h, sub : h = LeafHash(leaf) /\ sub = IF index < lo + s THEN R[s][lo][m - 1] ELSE R[n - s][lo + s][m - 1]
        OBVIOUS
      <3>2. /\ m = 0 => R[n][lo][m] = Mismatch
            /\ m # 0 => R[n][lo][m] = IF sub = Mismatch THEN Mismatch
                                      ELSE IF index < lo + s THEN NodeHash(sub, path[m]) ELSE NodeHash(path[m], sub)
        <4>1. R = RedoFn(h, index, N, path)
          BY <3>1
        <4>2. RedoSays(h, index, path, R, n, lo, m, s, sub)
          BY <1>1, <3>1, <4>1, RedoStep
        <4> QED BY <1>1, <4>2, Zenon DEF RedoSays
      <3>3. CASE m = 0
        <4>1. ~Starts(Append(p, tl), path, m)
          BY <1>4, <2>3, <3>3, StartsAppend
        <4>2. R[n][lo][m] = Mismatch
          BY <3>2, <3>3
        <4>3. NodeHash(tl, tr) # Mismatch
          BY HashesDiffer, Zenon
        <4> QED BY <1>3, <4>1, <4>2, <4>3, Zenon
      <3>4. CASE m # 0
        <4>1. Starts(Append(p, tl), path, m) <=> Starts(p, path, m - 1) /\ path[m] = tl
          <5>1. m \in Nat /\ m > 0
            BY <3>4
          <5> QED BY <1>4, <2>3, <5>1, StartsAppend
        <4>2. m - 1 \in 0..Len(path)
          BY <3>4
        <4>3. sub = R[n - s][lo + s][m - 1]
          BY <1>7, <3>1
        <4>4. sub = tr <=> leaf = leaves[index + 1] /\ Starts(p, path, m - 1)
          BY <1>2, <1>7, <2>1, <4>2, <4>3 DEF SliceExact
        <4>5. R[n][lo][m] = IF sub = Mismatch THEN Mismatch ELSE NodeHash(path[m], sub)
          BY <1>7, <3>2, <3>4
        <4>6. R[n][lo][m] = t <=> sub = tr /\ path[m] = tl
          <5> HIDE DEF NodeHash, Mismatch
          <5> QED BY <1>3, <1>5, <4>5, HashesDiffer
        <4> QED BY <4>1, <4>4, <4>6
      <3> QED BY <3>3, <3>4
    <2> QED BY <1>2, <2>2, <2>4, <2>5 DEF SliceExact
  <1> QED BY <1>6, <1>7

\* An inclusion proof is accepted for the leaf in that place and the generated
\* path, and for nothing else: for trees of any size and paths of any hashes.
LEMMA InclusionExact ==
  ASSUME NEW leaves, NEW N \in Nat, N = Len(leaves), NEW leaf, NEW index \in Nat,
         NEW S, NEW path \in Seq(S)
  PROVE  VerifyInclusionProof(leaf, index, N, path, MerkleRoot(leaves)) = "ok" <=>
           index < N /\ leaves[index + 1] = leaf /\ path = GenPath(leaves, index)
  <1>1. VerifyInclusionProof(leaf, index, N, path, MerkleRoot(leaves)) = "ok" <=>
          N # 0 /\ index < N /\ RecomputeRoot(LeafHash(leaf), index, N, path) = MerkleRoot(leaves)
    <2> HIDE DEF LeafHash, MerkleRoot, RecomputeRoot
    <2> QED BY DEF VerifyInclusionProof
  <1>2. CASE N = 0 \/ ~(index < N)
    BY <1>1, <1>2
  <1>3. CASE N # 0 /\ index < N
    <2>1. index \in 0..(N - 1) /\ N \in 1..N
      BY <1>3
    <2>2. PICK L \in Nat : L = Len(path)
      BY LenProperties
    <2>3. PICK T, P, R : T = Subtree(leaves) /\ P = PathFn(leaves, index) /\ R = RedoFn(LeafHash(leaf), index, N, path)
      OBVIOUS
    <2>4. PICK H : H = UNION {{T[n][lo] : lo \in 0..N} : n \in 0..N}
      OBVIOUS
    <2>5. \A n, lo \in 0..N : T[n][lo] \in H
      BY <2>4
    <2> DEFINE Exact(n, lo) == SliceExact(leaves, leaf, index, path, T, P, R, H, n, lo)
               G == {k \in 0..N : \A n \in 1..k : \A lo \in 0..(N - n) : index \in lo..(lo + n - 1) => Exact(n, lo)}
    <2>6. Exact(1, index)
      BY <2>1, <2>2, <2>3, OneLeafExact
    <2>7. ASSUME NEW n \in 2..N, NEW lo \in 0..(N - n), index \in lo..(lo + n - 1), NEW s \in 1..(n - 1), s = SplitPoint(n),
                 index < lo + s => Exact(s, lo), ~(index < lo + s) => Exact(n - s, lo + s)
          PROVE  Exact(n, lo)
      BY <2>1, <2>2, <2>3, <2>5, <2>7, MoreLeavesExact
    <2> HIDE DEF Exact
    <2>8. 0 \in G
      OBVIOUS
    <2>9. ASSUME NEW k \in 0..N, k < N, k \in G PROVE k + 1 \in G
      <3>1. ASSUME NEW n \in 1..(k + 1), NEW lo \in 0..(N - n), index \in lo..(lo + n - 1) PROVE Exact(n, lo)
        <4>1. CASE n <= k
          BY <2>9, <3>1, <4>1
        <4>2. CASE n = 1
          <5>1. lo = index
            BY <3>1, <4>2
          <5> QED BY <2>6, <4>2, <5>1
        <4>3. CASE n = k + 1 /\ n # 1
          <5>1. n \in 2..N /\ n \in Nat /\ n > 1
            BY <2>9, <4>3
          <5>2. PICK s \in 1..(n - 1) : s = SplitPoint(n)
            BY <5>1, SplitIs
          <5>3. ASSUME index < lo + s PROVE Exact(s, lo)
            <6>1. s \in 1..k /\ lo \in 0..(N - s) /\ index \in lo..(lo + s - 1)
              BY <2>1, <2>9, <3>1, <4>3, <5>1, <5>2, <5>3
            <6> QED BY <2>9, <6>1
          <5>4. ASSUME ~(index < lo + s) PROVE Exact(n - s, lo + s)
            <6>1. n - s \in 1..k /\ lo + s \in 0..(N - (n - s)) /\ index \in (lo + s)..(lo + s + (n - s) - 1)
              BY <2>1, <2>9, <3>1, <4>3, <5>1, <5>2, <5>4
            <6> QED BY <2>9, <6>1
          <5> QED BY <2>7, <3>1, <5>1, <5>2, <5>3, <5>4
        <4> QED BY <4>1, <4>2, <4>3
      <3>2. k + 1 \in 0..N
        BY <2>9
      <3> QED BY <3>1, <3>2
    <2>10. N \in G
      <3> HIDE DEF G
      <3>1. \A k \in 0..N : k \in G
        BY <2>8, <2>9, AllUpTo
      <3> QED BY <3>1
    <2>11. Exact(N, 0)
      <3>1. 0 \in 0..(N - N) /\ index \in 0..(0 + N - 1)
        BY <2>1
      <3> QED BY <2>1, <2>10, <3>1
    <2>12. PICK p : p = P[N][0]
      OBVIOUS
    <2>13. p \in Seq(H) /\ (R[N][0][L] = T[N][0] <=> leaf = leaves[index + 1] /\ Starts(p, path, L))
      BY <2>2, <2>11, <2>12 DEF SliceExact, Exact
    <2>14. Starts(p, path, L) <=> path = p
      <3>1. Len(p) \in Nat /\ DOMAIN p = 1..Len(p) /\ DOMAIN path = 1..L
        BY <2>2, <2>13, LenProperties
      <3>2. Starts(p, path, L) => path = p
        BY <2>2, <2>13, <3>1, SeqEqual DEF Starts
      <3>3. path = p => Starts(p, path, L)
        BY <2>2 DEF Starts
      <3> QED BY <3>2, <3>3
    <2>15. MerkleRoot(leaves) = T[N][0] /\ GenPath(leaves, index) = p
      BY <2>3, <2>12, PathDef DEF MerkleRoot
    <2>16. RecomputeRoot(LeafHash(leaf), index, N, path) = R[N][0][L]
      <3>1. PICK h : h = LeafHash(leaf)
        OBVIOUS
      <3>2. RecomputeRoot(h, index, N, path) = RedoFn(h, index, N, path)[N][0][Len(path)]
        BY RedoDef
      <3> QED BY <2>2, <2>3, <3>1, <3>2
    <2> QED BY <1>1, <1>3, <2>13, <2>14, <2>15, <2>16
  <1> QED BY <1>2, <1>3

------------------------------------------------------------------------------
(* The gateway's statements.  A checkpoint commits to the leaves it was made *)
(* of, and the last statement received is as its signer made it.             *)

IsCheckpoint(cp) ==
  cp.leaves \in Seq(Leaves) /\ cp.root.size = Len(cp.leaves) /\ cp.root.root = MerkleRoot(cp.leaves)

CheckpointsInv ==
  /\ views \in [Views -> Seq(Leaves)]
  /\ \E S : checkpoints \in Seq(S)
  /\ \A i \in DOMAIN checkpoints : IsCheckpoint(checkpoints[i])

CrossedInv ==
  \/ crossed = NoObject
  \/ /\ crossed.cid \in Cids /\ crossed.salt \in Salts
     /\ crossed.binding = ContentFree => crossed.digest = EgressCommit(crossed.cid, crossed.salt)

LEMMA PathsAreSequences ==
  ASSUME NEW path \in PathsUpTo(MaxLog - 1)
  PROVE  path \in Seq(KnownHashes)
  <1>1. PICK H : H = KnownHashes
    OBVIOUS
  <1>2. PICK m \in 0..(MaxLog - 1) : path \in [1..m -> H]
    BY <1>1 DEF PathsUpTo
  <1>3. m \in Nat
    BY GatewayConstants, <1>2
  <1> QED BY <1>1, <1>2, <1>3

LEMMA InclusionHolds == ASSUME CheckpointsInv PROVE InclusionIffLogged
  <1>1. SUFFICES ASSUME checkpoints # << >>, NEW cp, cp = checkpoints[Len(checkpoints)],
                        NEW leaf \in Leaves, NEW index \in 0..MaxLog, NEW path \in PathsUpTo(MaxLog - 1)
                 PROVE  VerifyInclusionProof(leaf, index, cp.root.size, path, cp.root.root) = "ok"
                          <=> /\ index < Len(cp.leaves) /\ cp.leaves[index + 1] = leaf
                              /\ path = GenPath(cp.leaves, index)
    BY DEF InclusionIffLogged
  <1>2. IsCheckpoint(cp)
    <2>1. PICK S : checkpoints \in Seq(S)
      BY DEF CheckpointsInv
    <2>2. Len(checkpoints) \in DOMAIN checkpoints
      BY <1>1, <2>1, EmptySeq, LenProperties
    <2> QED BY <1>1, <2>2 DEF CheckpointsInv
  <1>3. PICK leaves, H : leaves = cp.leaves /\ H = KnownHashes
    OBVIOUS
  <1>4. PICK N \in Nat : N = Len(leaves)
    BY <1>2, <1>3, LenProperties DEF IsCheckpoint
  <1>5. index \in Nat /\ path \in Seq(H)
    BY <1>1, <1>3, GatewayConstants, PathsAreSequences
  <1>6. VerifyInclusionProof(leaf, index, N, path, MerkleRoot(leaves)) = "ok" <=>
          index < N /\ leaves[index + 1] = leaf /\ path = GenPath(leaves, index)
    BY <1>4, <1>5, InclusionExact
  <1> QED BY <1>2, <1>3, <1>4, <1>6, Zenon DEF IsCheckpoint

LEMMA WitnessHolds == ASSUME CheckpointsInv PROVE WitnessSawThis
  <1>1. ASSUME NEW w \in cosigned, NEW i \in DOMAIN checkpoints, ValidateWitnessCosign(w, checkpoints[i].root) = "ok"
        PROVE  /\ w.root.size = Len(checkpoints[i].leaves) /\ w.root.at = checkpoints[i].root.at
               /\ MerkleRoot(checkpoints[i].leaves) = w.root.root
    <2>1. w.root = checkpoints[i].root
      BY <1>1 DEF ValidateWitnessCosign
    <2>2. IsCheckpoint(checkpoints[i])
      BY DEF CheckpointsInv
    <2> QED BY <2>1, <2>2, Zenon DEF IsCheckpoint
  <1> QED BY <1>1, Zenon DEF WitnessSawThis

LEMMA CommitmentIs ==
  ASSUME NEW c \in Cids, NEW s \in Salts, NEW d \in Cids, NEW t \in Salts
  PROVE  EgressCommit(c, s) = EgressCommit(d, t) <=> c = d /\ s = t
  <1>1. /\ c \in Seq(Nat) /\ d \in Seq(Nat) /\ s \in Seq(Nat) /\ t \in Seq(Nat)
        /\ Len(c) = 2 /\ Len(d) = 2
    <2>1. <<1, 1>> \in Seq(Nat) /\ <<1, 2>> \in Seq(Nat) /\ <<2, 1>> \in Seq(Nat) /\ <<1>> \in Seq(Nat) /\ << >> \in Seq(Nat)
      OBVIOUS
    <2>2. Len(<<1, 1>>) = 2 /\ Len(<<1, 2>>) = 2 /\ Len(<<2, 1>>) = 2
      OBVIOUS
    <2>3. \A x \in Cids : x \in Seq(Nat) /\ Len(x) = 2
      <3>1. ASSUME NEW x \in Cids PROVE x = <<1, 1>> \/ x = <<1, 2>> \/ x = <<2, 1>>
        BY Zenon DEF Cids
      <3> QED BY <2>1, <2>2, <3>1, Zenon
    <2>4. \A x \in Salts : x \in Seq(Nat)
      <3>1. ASSUME NEW x \in Salts PROVE x = << >> \/ x = <<1>> \/ x = <<2, 1>>
        BY Zenon DEF Salts
      <3> QED BY <2>1, <3>1, Zenon
    <2> QED BY <2>3, <2>4, Zenon
  <1>2. ASSUME c \o s = d \o t PROVE c = d /\ s = t
    <2>1. PICK m \in Nat, n \in Nat : m = Len(s) /\ n = Len(t)
      BY <1>1, LenProperties
    <2>2. PICK u, v : u = c \o s /\ v = d \o t
      OBVIOUS
    <2>3. /\ Len(u) = 2 + m /\ \A i \in 1..(2 + m) : u[i] = IF i <= 2 THEN c[i] ELSE s[i - 2]
          /\ Len(v) = 2 + n /\ \A i \in 1..(2 + n) : v[i] = IF i <= 2 THEN d[i] ELSE t[i - 2]
      <3>1. /\ Len(u) = Len(c) + m /\ \A i \in 1..(Len(c) + m) : u[i] = IF i <= Len(c) THEN c[i] ELSE s[i - Len(c)]
        BY <1>1, <2>1, <2>2, ConcatProperties, Zenon
      <3>2. /\ Len(v) = Len(d) + n /\ \A i \in 1..(Len(d) + n) : v[i] = IF i <= Len(d) THEN d[i] ELSE t[i - Len(d)]
        BY <1>1, <2>1, <2>2, ConcatProperties, Zenon
      <3> QED BY <1>1, <3>1, <3>2, Zenon
    <2>4. m = n
      BY <1>2, <2>2, <2>3
    <2>5. ASSUME NEW i \in 1..2 PROVE c[i] = d[i]
      BY <1>2, <2>2, <2>3, <2>4
    <2>6. ASSUME NEW i \in 1..m PROVE s[i] = t[i]
      <3>1. i + 2 \in 1..(2 + m) /\ ~(i + 2 <= 2) /\ (i + 2) - 2 = i
        OBVIOUS
      <3>2. u[i + 2] = s[i] /\ v[i + 2] = t[i]
        BY <2>3, <2>4, <3>1
      <3> QED BY <1>2, <2>2, <3>2
    <2>7. c = d
      BY <1>1, <2>5, SeqEqual
    <2>8. s = t
      BY <1>1, <2>1, <2>4, <2>6, SeqEqual
    <2> QED BY <2>7, <2>8
  <1> QED BY <1>2 DEF EgressCommit

LEMMA CommitmentHolds == ASSUME CrossedInv PROVE CommitmentBinds
  <1>1. ASSUME NEW cid \in Cids, NEW salt \in Salts
        PROVE  OpenEgressCommitment(crossed, cid, salt) <=>
                 crossed.binding = ContentFree /\ cid = crossed.cid /\ salt = crossed.salt
    <2>1. CASE crossed = NoObject
      BY <2>1 DEF NoObject, OpenEgressCommitment, ContentBound, ContentFree
    <2>2. CASE crossed # NoObject
      <3>1. PICK c \in Cids, s \in Salts : c = crossed.cid /\ s = crossed.salt
        BY <2>2 DEF CrossedInv
      <3>2. EgressCommit(cid, salt) = EgressCommit(c, s) <=> cid = c /\ salt = s
        BY CommitmentIs
      <3> QED BY <2>2, <3>1, <3>2, Zenon DEF CrossedInv, OpenEgressCommitment
    <2> QED BY <2>1, <2>2
  <1> QED BY <1>1, Zenon DEF CommitmentBinds

\* A record is made of its fields.
LEMMA OrderingFields ==
  ASSUME NEW A, NEW B, NEW C, NEW D, NEW o \in [basis : A, boundary : B, mechanism : C, relation : D]
  PROVE  o = [basis |-> o.basis, boundary |-> o.boundary, mechanism |-> o.mechanism, relation |-> o.relation]
  OBVIOUS

LEMMA TermFields ==
  ASSUME NEW t \in TermDisposition PROVE t = [kind |-> t.kind, source |-> t.source]
  <1>1. PICK k, s : t = [kind |-> k, source |-> s]
    BY Zenon DEF TermDisposition
  <1> QED BY <1>1

LEMMA RecordFields ==
  ASSUME NEW A, NEW B, NEW C, NEW D, NEW E, NEW F, NEW G,
         NEW d \in [action : A, governing : B, consume : C, outcome : D, ordering : E, enforcement : F, terms : G]
  PROVE  /\ d = [action |-> d.action, governing |-> d.governing, consume |-> d.consume, outcome |-> d.outcome,
                 ordering |-> d.ordering, terms |-> d.terms, enforcement |-> d.enforcement]
         /\ d.ordering \in E /\ d.terms \in G
  OBVIOUS

\* What is left out of a map is what its parser fills in.
LEMMA OrderingReturns ==
  ASSUME NEW o \in OrderingDisclosure, OrderingFromCbor(OrderingToCbor(o)) # Bad
  PROVE  OrderingFromCbor(OrderingToCbor(o)) = o
  <1>1. PICK m : m = OrderingToCbor(o)
    OBVIOUS
  <1>2. /\ 1 \in DOMAIN m /\ m[1] = o.basis
        /\ 2 \in DOMAIN m <=> o.boundary # ""
        /\ 3 \in DOMAIN m <=> o.mechanism # ""
        /\ 4 \in DOMAIN m <=> o.relation # ""
        /\ 2 \in DOMAIN m => m[2] = o.boundary
        /\ 3 \in DOMAIN m => m[3] = o.mechanism
        /\ 4 \in DOMAIN m => m[4] = o.relation
    <2> DEFINE x1 == o.basis  x2 == o.boundary  x3 == o.mechanism  x4 == o.relation
               D == {1} \cup (IF x2 = "" THEN {} ELSE {2}) \cup (IF x3 = "" THEN {} ELSE {3}) \cup (IF x4 = "" THEN {} ELSE {4})
    <2>1. m = [k \in D |-> <<x1, x2, x3, x4>>[k]]
      BY <1>1, Zenon DEF OrderingToCbor
    <2>2. 1 \in D /\ (2 \in D <=> x2 # "") /\ (3 \in D <=> x3 # "") /\ (4 \in D <=> x4 # "")
      <3>1. 2 # 1 /\ 2 # 3 /\ 2 # 4 /\ 3 # 1 /\ 3 # 2 /\ 3 # 4 /\ 4 # 1 /\ 4 # 2 /\ 4 # 3
        OBVIOUS
      <3> HIDE DEF x2, x3, x4
      <3> QED BY <3>1, Zenon
    <2> HIDE DEF x1, x2, x3, x4, D
    <2>3. DOMAIN m = D /\ \A k \in D : m[k] = <<x1, x2, x3, x4>>[k]
      BY <2>1
    <2>4. \A k \in D : /\ k = 1 => m[k] = x1
                       /\ k = 2 => m[k] = x2
                       /\ k = 3 => m[k] = x3
                       /\ k = 4 => m[k] = x4
      BY <2>3
    <2> QED BY <2>2, <2>3, <2>4, Zenon DEF x1, x2, x3, x4
  <1>3. OrderingFromCbor(m) = [basis |-> m[1], boundary |-> Field(m, 2, ""), mechanism |-> Field(m, 3, ""), relation |-> Field(m, 4, "")]
    BY <1>1, Zenon DEF OrderingFromCbor
  <1>4. Field(m, 2, "") = o.boundary /\ Field(m, 3, "") = o.mechanism /\ Field(m, 4, "") = o.relation
    BY <1>2, Zenon DEF Field, Has
  <1>5. o = [basis |-> o.basis, boundary |-> o.boundary, mechanism |-> o.mechanism, relation |-> o.relation]
    BY OrderingFields, Zenon DEF OrderingDisclosure
  <1> QED BY <1>1, <1>2, <1>3, <1>4, <1>5, Zenon

LEMMA TermReturns ==
  ASSUME NEW t \in TermDisposition, TermDispositionFromCbor(TermDispositionToCbor(t)) # Bad
  PROVE  TermDispositionFromCbor(TermDispositionToCbor(t)) = t
  <1>1. PICK m : m = TermDispositionToCbor(t)
    OBVIOUS
  <1>2. /\ m[1] = t.kind
        /\ 2 \in DOMAIN m <=> t.source # ""
        /\ 2 \in DOMAIN m => m[2] = t.source
    <2> DEFINE D == {1} \cup (IF t.source = "" THEN {} ELSE {2})
    <2>1. m = [k \in D |-> IF k = 1 THEN t.kind ELSE t.source]
      BY <1>1, Zenon DEF TermDispositionToCbor
    <2>2. 1 \in D /\ (2 \in D <=> t.source # "")
      <3>1. 2 # 1
        OBVIOUS
      <3> QED BY <3>1, Zenon
    <2> HIDE DEF D
    <2>3. PICK x, y : x = t.kind /\ y = t.source
      OBVIOUS
    <2>4. m = [k \in D |-> IF k = 1 THEN x ELSE y]
      BY <2>1, <2>3, Zenon
    <2>5. DOMAIN m = D /\ (1 \in D => m[1] = x) /\ (2 \in D => m[2] = y)
      BY <2>4
    <2> QED BY <2>2, <2>3, <2>5, Zenon
  <1>3. TermDispositionFromCbor(m) = [kind |-> m[1], source |-> Field(m, 2, "")]
    BY <1>1, Zenon DEF TermDispositionFromCbor
  <1>4. Field(m, 2, "") = t.source
    BY <1>2, Zenon DEF Field, Has
  <1>5. t = [kind |-> t.kind, source |-> t.source]
    BY TermFields
  <1> QED BY <1>1, <1>2, <1>3, <1>4, <1>5, Zenon

LEMMA BodyIs ==
  ASSUME NEW d, NEW b, b = DecisionRecordBytes(d)
  PROVE  /\ {1, 2, 4, 5} \subseteq DOMAIN b
         /\ b[1] = d.action /\ b[2] = d.governing /\ b[4] = d.outcome /\ b[5] = OrderingToCbor(d.ordering)
         /\ 3 \in DOMAIN b <=> d.consume # ""
         /\ 3 \in DOMAIN b => b[3] = d.consume
         /\ 6 \in DOMAIN b <=> DOMAIN d.terms # {}
         /\ 6 \in DOMAIN b => b[6] = [t \in DOMAIN d.terms |-> TermDispositionToCbor(d.terms[t])]
         /\ 7 \in DOMAIN b <=> d.enforcement # 0
         /\ 7 \in DOMAIN b => b[7] = d.enforcement
  <1> DEFINE x1 == d.action  x2 == d.governing  x3 == d.consume  x4 == d.outcome  x5 == OrderingToCbor(d.ordering)
             x6 == [t \in DOMAIN d.terms |-> TermDispositionToCbor(d.terms[t])]  x7 == d.enforcement
             none == DOMAIN d.terms
             D == {1, 2, 4, 5} \cup (IF x3 = "" THEN {} ELSE {3})
                    \cup (IF none = {} THEN {} ELSE {6}) \cup (IF x7 = 0 THEN {} ELSE {7})
  <1>2. b = [k \in D |-> <<x1, x2, x3, x4, x5, x6, x7>>[k]]
    BY Zenon DEF DecisionRecordBytes
  <1>5. /\ 1 \in D /\ 2 \in D /\ 4 \in D /\ 5 \in D
        /\ 3 \in D <=> x3 # ""
        /\ 6 \in D <=> none # {}
        /\ 7 \in D <=> x7 # 0
    <2>1. /\ 3 # 1 /\ 3 # 2 /\ 3 # 4 /\ 3 # 5 /\ 3 # 6 /\ 3 # 7
          /\ 6 # 1 /\ 6 # 2 /\ 6 # 3 /\ 6 # 4 /\ 6 # 5 /\ 6 # 7
          /\ 7 # 1 /\ 7 # 2 /\ 7 # 3 /\ 7 # 4 /\ 7 # 5 /\ 7 # 6
      OBVIOUS
    <2> HIDE DEF x3, none, x7
    <2> QED BY <2>1, Zenon
  <1> HIDE DEF x1, x2, x3, x4, x5, x6, x7, none, D
  <1>3. DOMAIN b = D /\ \A k \in D : b[k] = <<x1, x2, x3, x4, x5, x6, x7>>[k]
    BY <1>2
  <1>4. \A k \in D : /\ k = 1 => b[k] = x1
                     /\ k = 2 => b[k] = x2
                     /\ k = 3 => b[k] = x3
                     /\ k = 4 => b[k] = x4
                     /\ k = 5 => b[k] = x5
                     /\ k = 6 => b[k] = x6
                     /\ k = 7 => b[k] = x7
    BY <1>3
  <1>6. \A k \in {1, 2, 4, 5} : k \in DOMAIN b
    BY <1>3, <1>5, Zenon
  <1> QED BY <1>3, <1>4, <1>5, <1>6, Zenon DEF x1, x2, x3, x4, x5, x6, x7, none

LEMMA TermsReturn ==
  ASSUME NEW d \in DecisionRecord, NEW b, b = DecisionRecordBytes(d), NEW raw, raw = Field(b, 6, << >>),
         NEW terms, terms = [k \in DOMAIN raw |-> TermDispositionFromCbor(raw[k])],
         \A k \in DOMAIN terms : terms[k] # Bad
  PROVE  terms = d.terms
  <1>1. PICK ts : ts = d.terms
    OBVIOUS
  <1>2. ts = << >> \/ ts \in [{1} -> TermDisposition] \/ ts \in [{6} -> TermDisposition]
    BY <1>1, RecordFields, Zenon DEF DecisionRecord
  <1>3. CASE ts = << >>
    <2>1. DOMAIN ts = {}
      BY <1>3
    <2>2. 6 \notin DOMAIN b
      BY <1>1, <2>1, BodyIs, Zenon
    <2>3. raw = << >>
      BY <2>2, Zenon DEF Field, Has
    <2>4. terms = [k \in 1..0 |-> TermDispositionFromCbor(raw[k])]
      BY <2>3
    <2>5. terms \in Seq({}) /\ Len(terms) = 0
      BY <2>4
    <2> QED BY <1>1, <1>3, <2>5, EmptySeq
  <1>4. CASE ts # << >>
    <2>1. DOMAIN ts # {} /\ (\A k \in DOMAIN ts : ts[k] \in TermDisposition) /\ ts = [k \in DOMAIN ts |-> ts[k]]
      <3>1. PICK K : K # {} /\ ts \in [K -> TermDisposition]
        <4>1. {1} # {} /\ {6} # {}
          OBVIOUS
        <4> QED BY <1>2, <1>4, <4>1, Zenon
      <3> HIDE DEF TermDisposition
      <3> QED BY <3>1
    <2>2. raw = [t \in DOMAIN ts |-> TermDispositionToCbor(ts[t])]
      <3>1. 6 \in DOMAIN b
        BY <1>1, <2>1, BodyIs, Zenon
      <3>2. raw = b[6]
        BY <3>1, Zenon DEF Field, Has
      <3>3. b[6] = [t \in DOMAIN d.terms |-> TermDispositionToCbor(d.terms[t])]
        BY <3>1, BodyIs, Zenon
      <3> QED BY <1>1, <3>2, <3>3, Zenon
    <2>3. DOMAIN raw = DOMAIN ts /\ \A k \in DOMAIN ts : raw[k] = TermDispositionToCbor(ts[k])
      BY <2>2
    <2>4. ASSUME NEW k \in DOMAIN ts PROVE TermDispositionFromCbor(raw[k]) = ts[k]
      <3>1. TermDispositionFromCbor(raw[k]) # Bad
        BY <2>3
      <3>2. PICK t \in TermDisposition : t = ts[k]
        BY <2>1
      <3>3. raw[k] = TermDispositionToCbor(t)
        BY <2>3, <3>2
      <3> QED BY <3>1, <3>2, <3>3, TermReturns
    <2>5. terms = [k \in DOMAIN ts |-> ts[k]]
      BY <2>3, <2>4
    <2> QED BY <1>1, <2>1, <2>5, Zenon
  <1> QED BY <1>3, <1>4

LEMMA RecordReturns ==
  ASSUME NEW d \in DecisionRecord, NEW b, b = DecisionRecordBytes(d), NEW p, p = ParseDecisionRecord(b), p.verdict = "ok"
  PROVE  p.record = d
  <1>1. PICK ordering, raw : ordering = (IF Has(b, 5) THEN OrderingFromCbor(b[5]) ELSE Bad) /\ raw = Field(b, 6, << >>)
    OBVIOUS
  <1>2. PICK terms : terms = [k \in DOMAIN raw |-> TermDispositionFromCbor(raw[k])]
    OBVIOUS
  <1> DEFINE refused == \/ \E k \in {1, 2, 4} : Field(b, k, Bad) = Bad
                        \/ \E k \in {3, 7} : Field(b, k, Absent) = Bad
                        \/ ordering = Bad \/ \E k \in DOMAIN terms : terms[k] = Bad
  <1> DEFINE r == [action |-> b[1], governing |-> b[2], consume |-> Field(b, 3, ""), outcome |-> b[4],
                   ordering |-> ordering, terms |-> terms, enforcement |-> Field(b, 7, 0)]
  <1>5. p = IF refused THEN [verdict |-> "DecisionMalformed"] ELSE [verdict |-> "ok", record |-> r]
    BY <1>1, <1>2, Zenon DEF ParseDecisionRecord
  <1> HIDE DEF refused, r
  <1>6. ~refused /\ p.record = r
    BY <1>5
  <1>7. ordering = d.ordering
    <2>1. PICK o \in OrderingDisclosure : o = d.ordering
      BY RecordFields, Zenon DEF DecisionRecord
    <2>2. 5 \in DOMAIN b /\ b[5] = OrderingToCbor(o)
      BY <2>1, BodyIs, Zenon
    <2>3. ordering = OrderingFromCbor(OrderingToCbor(o)) /\ ordering # Bad
      BY <1>1, <1>6, <2>2, Zenon DEF Has, refused
    <2> QED BY <2>1, <2>3, OrderingReturns
  <1>8. terms = d.terms
    <2>1. \A k \in DOMAIN terms : terms[k] # Bad
      BY <1>6, Zenon DEF refused
    <2> QED BY <1>1, <1>2, <2>1, TermsReturn
  <1>9. Field(b, 3, "") = d.consume /\ Field(b, 7, 0) = d.enforcement
    BY BodyIs, Zenon DEF Field, Has
  <1>10. b[1] = d.action /\ b[2] = d.governing /\ b[4] = d.outcome
    BY BodyIs, Zenon
  <1>11. r = [action |-> d.action, governing |-> d.governing, consume |-> d.consume, outcome |-> d.outcome,
              ordering |-> d.ordering, terms |-> d.terms, enforcement |-> d.enforcement]
    BY <1>7, <1>8, <1>9, <1>10, Zenon DEF r
  <1>12. d = [action |-> d.action, governing |-> d.governing, consume |-> d.consume, outcome |-> d.outcome,
              ordering |-> d.ordering, terms |-> d.terms, enforcement |-> d.enforcement]
    BY RecordFields, Zenon DEF DecisionRecord
  <1> QED BY <1>6, <1>11, <1>12, Zenon

AsSigned(key, d, o) ==
  key = Gate /\ ParseDecisionRecord(o.body).record = d /\ (d.consume # "" => d.outcome = Allow)

LEMMA AcceptedAsSigned ==
  ASSUME NEW key, NEW d \in DecisionRecord, NEW o, o = SignedBy(key, DecisionRecordBytes(d)),
         VerifyDecisionRecord(o, PROFILE.public, Gate) = "ok"
  PROVE  AsSigned(key, d, o)
  <1>1. PICK b, p : b = DecisionRecordBytes(d) /\ p = ParseDecisionRecord(b)
    OBVIOUS
  <1>2. o.key = key /\ o.body = b
    BY <1>1 DEF SignedBy
  <1>3. /\ VerifySign1(o, PROFILE.public, Gate) = "ok"
        /\ p.verdict = "ok"
        /\ ValidateDecisionRecord(p.record) = "ok"
    BY <1>1, <1>2, Zenon DEF VerifyDecisionRecord
  <1>4. p.record = d
    BY <1>1, <1>3, RecordReturns
  <1>5. o.key = Gate
    <2>1. "UnknownAlg" # "ok" /\ "ProfileDowngrade" # "ok" /\ "KeyAlgMismatch" # "ok" /\ "BadSignature" # "ok"
      OBVIOUS
    <2> QED BY <1>3, <2>1, Zenon DEF VerifySign1
  <1>6. d.consume # "" => d.outcome = Allow
    <2>1. "UnknownGatewayDecision" # "ok" /\ "DecisionMalformed" # "ok"
      OBVIOUS
    <2> QED BY <1>3, <1>4, <2>1, Zenon DEF ValidateDecisionRecord
  <1> QED BY <1>1, <1>2, <1>4, <1>5, <1>6, Zenon DEF AsSigned

GatewayInv == CheckpointsInv /\ RecordsSurviveTheWire /\ CrossedInv

LEMMA CheckpointsStay ==
  ASSUME CheckpointsInv, views' = views, checkpoints' = checkpoints PROVE CheckpointsInv'
  BY Zenon DEF CheckpointsInv, IsCheckpoint

LEMMA ReceivedStays == ASSUME RecordsSurviveTheWire, received' = received PROVE RecordsSurviveTheWire'
  BY Zenon DEF RecordsSurviveTheWire

LEMMA CrossedStays == ASSUME CrossedInv, crossed' = crossed PROVE CrossedInv'
  BY Zenon DEF CrossedInv

LEMMA LogStep ==
  ASSUME GatewayInv, NEW v \in Views, NEW leaf \in Leaves, LogRecord(v, leaf) PROVE GatewayInv'
  <1>1. views' = [views EXCEPT ![v] = Append(views[v], leaf)] /\ checkpoints' = checkpoints /\ received' = received /\ crossed' = crossed
    BY Zenon DEF LogRecord
  <1>2. views' \in [Views -> Seq(Leaves)]
    BY <1>1 DEF GatewayInv, CheckpointsInv
  <1>3. CheckpointsInv'
    BY <1>1, <1>2, Zenon DEF GatewayInv, CheckpointsInv, IsCheckpoint
  <1> QED BY <1>1, <1>3, ReceivedStays, CrossedStays, Zenon DEF GatewayInv

LEMMA CheckpointStep ==
  ASSUME GatewayInv, NEW v \in Views, SignCheckpoint(v) PROVE GatewayInv'
  <1>1. PICK cp, prev : /\ cp = [root |-> CheckpointRoot("log", views[v], prev, Len(checkpoints)), leaves |-> views[v]]
                        /\ checkpoints' = Append(checkpoints, cp)
    BY Zenon DEF SignCheckpoint
  <1>2. views' = views /\ received' = received /\ crossed' = crossed
    BY DEF SignCheckpoint
  <1>3. IsCheckpoint(cp)
    <2>1. PICK l, n, h, k : l = views[v] /\ n = Len(l) /\ h = MerkleRoot(l) /\ k = Len(checkpoints)
      OBVIOUS
    <2>2. l \in Seq(Leaves)
      BY <2>1 DEF GatewayInv, CheckpointsInv
    <2>3. cp = [root |-> [log |-> "log", size |-> n, root |-> h, prev |-> prev, at |-> k], leaves |-> l]
      BY <1>1, <2>1, Zenon DEF CheckpointRoot
    <2>4. cp.leaves = l /\ cp.root.size = n /\ cp.root.root = h
      BY <2>3
    <2> QED BY <2>1, <2>2, <2>4, Zenon DEF IsCheckpoint
  <1>4. PICK S : checkpoints \in Seq(S)
    BY DEF GatewayInv, CheckpointsInv
  <1>5. PICK U, s, n : U = S \cup {cp} /\ s = checkpoints /\ n = Len(s)
    OBVIOUS
  <1>6. s \in Seq(U) /\ cp \in U /\ n \in Nat /\ DOMAIN s = 1..n
    BY <1>4, <1>5, LenProperties
  <1>7. PICK q : q = Append(s, cp)
    OBVIOUS
  <1>8. q \in Seq(U) /\ Len(q) = n + 1 /\ q[n + 1] = cp /\ (\A i \in 1..n : q[i] = s[i]) /\ DOMAIN q = 1..(n + 1)
    BY <1>5, <1>6, <1>7, AppendProperties, LenProperties
  <1>9. ASSUME NEW i \in DOMAIN q PROVE IsCheckpoint(q[i])
    <2>1. i = n + 1 \/ i \in 1..n
      BY <1>6, <1>8
    <2>2. CASE i = n + 1
      BY <1>3, <1>8, <2>2
    <2>3. CASE i \in 1..n
      BY <1>5, <1>6, <1>8, <2>3 DEF GatewayInv, CheckpointsInv
    <2> QED BY <2>1, <2>2, <2>3
  <1>10. checkpoints' = q
    BY <1>1, <1>5, <1>7
  <1>11. CheckpointsInv'
    BY <1>2, <1>8, <1>9, <1>10, Zenon DEF GatewayInv, CheckpointsInv, IsCheckpoint
  <1> QED BY <1>2, <1>11, ReceivedStays, CrossedStays, Zenon DEF GatewayInv

LEMMA RecordStep ==
  ASSUME GatewayInv, NEW key, NEW d \in DecisionRecord, SignDecisionRecord(key, d) PROVE GatewayInv'
  <1>1. views' = views /\ checkpoints' = checkpoints /\ crossed' = crossed
    BY DEF SignDecisionRecord
  <1>2. PICK o, v : /\ o = SignedBy(key, DecisionRecordBytes(d)) /\ v = VerifyDecisionRecord(o, PROFILE.public, Gate)
                    /\ received' = [kind |-> "record", signed |-> d, by |-> key, object |-> o, verdict |-> v]
    BY Zenon DEF SignDecisionRecord
  <1>3. received'.signed = d /\ received'.by = key /\ received'.object = o /\ received'.verdict = v
    BY <1>2
  <1>4. ASSUME v = "ok" PROVE AsSigned(key, d, o)
    <2>1. VerifyDecisionRecord(o, PROFILE.public, Gate) = "ok" /\ o = SignedBy(key, DecisionRecordBytes(d))
      BY <1>2, <1>4, Zenon
    <2> QED BY <2>1, AcceptedAsSigned
  <1>5. RecordsSurviveTheWire'
    BY <1>3, <1>4, Zenon DEF RecordsSurviveTheWire, AsSigned
  <1> QED BY <1>1, <1>5, CheckpointsStay, CrossedStays, Zenon DEF GatewayInv

LEMMA ForeignStep ==
  ASSUME GatewayInv, NEW kind \in {"decision", "egress"}, NEW body, ForeignBody(kind, body) PROVE GatewayInv'
  <1>1. views' = views /\ checkpoints' = checkpoints /\ crossed' = crossed
    BY DEF ForeignBody
  <1>2. PICK o, v : received' = [kind |-> kind, by |-> Gate, object |-> o, verdict |-> v]
    BY Zenon DEF ForeignBody
  <1>3. received'.kind # "record"
    BY <1>2
  <1>4. RecordsSurviveTheWire'
    BY <1>3, Zenon DEF RecordsSurviveTheWire
  <1> QED BY <1>1, <1>4, CheckpointsStay, CrossedStays, Zenon DEF GatewayInv

LEMMA CrossStep ==
  ASSUME GatewayInv, NEW cid \in Cids, NEW salt \in Salts, NEW b, Cross(cid, salt, b) PROVE GatewayInv'
  <1>1. views' = views /\ checkpoints' = checkpoints /\ received' = received
    BY DEF Cross
  <1>2. PICK e : e = EgressCommit(cid, salt)
    OBVIOUS
  <1>3. crossed' = [cid |-> cid, salt |-> salt, binding |-> b, digest |-> IF b = ContentFree THEN e ELSE cid]
    BY <1>2, Zenon DEF Cross
  <1>4. crossed'.cid = cid /\ crossed'.salt = salt /\ (crossed'.binding = ContentFree => crossed'.digest = e)
    BY <1>3 DEF ContentFree
  <1>5. CrossedInv'
    BY <1>2, <1>4, Zenon DEF CrossedInv
  <1> QED BY <1>1, <1>5, CheckpointsStay, ReceivedStays, Zenon DEF GatewayInv

LEMMA GatewayStep == ASSUME GatewayInv, [GatewayNext]_gwvars PROVE GatewayInv'
  <1>1. ASSUME NEW v \in Views, NEW leaf \in Leaves, LogRecord(v, leaf) PROVE GatewayInv'
    BY <1>1, LogStep
  <1>2. ASSUME NEW v \in Views, SignCheckpoint(v) PROVE GatewayInv'
    BY <1>2, CheckpointStep
  <1>3. ASSUME NEW i \in DOMAIN checkpoints, SignWitnessCosign(i) PROVE GatewayInv'
    <2>1. views' = views /\ checkpoints' = checkpoints /\ received' = received /\ crossed' = crossed
      BY <1>3 DEF SignWitnessCosign
    <2> QED BY <2>1, CheckpointsStay, ReceivedStays, CrossedStays, Zenon DEF GatewayInv
  <1>4. ASSUME NEW key \in {Gate, Other}, NEW d \in DecisionRecord, SignDecisionRecord(key, d) PROVE GatewayInv'
    BY <1>4, RecordStep, Zenon
  <1>5. ASSUME NEW kind \in {"decision", "egress"}, NEW body, ForeignBody(kind, body) PROVE GatewayInv'
    BY <1>5, ForeignStep, Zenon
  <1>6. ASSUME NEW cid \in Cids, NEW salt \in Salts, NEW b, Cross(cid, salt, b) PROVE GatewayInv'
    BY <1>6, CrossStep
  <1>7. ASSUME UNCHANGED gwvars PROVE GatewayInv'
    <2>1. views' = views /\ checkpoints' = checkpoints /\ received' = received /\ crossed' = crossed
      BY <1>7 DEF gwvars
    <2> QED BY <2>1, CheckpointsStay, ReceivedStays, CrossedStays, Zenon DEF GatewayInv
  <1> QED BY <1>1, <1>2, <1>3, <1>4, <1>5, <1>6, <1>7, Zenon DEF GatewayNext

(* Every statement of the gateway is true, in every reachable state and for  *)
(* logs, checkpoints and paths of every size: an inclusion proof is accepted *)
(* for the leaf in that place by the generated path and for nothing else,    *)
(* witnesses vouch for what they saw, records arrive as they were signed,    *)
(* and commitments open to what crossed (gateway.py).                        *)
THEOREM GatewayTheorem == GatewaySpec => []GatewaySpeaksTrue
  <1>1. GatewayInit => GatewayInv
    <2> SUFFICES ASSUME GatewayInit PROVE GatewayInv
      OBVIOUS
    <2>1. checkpoints = << >> /\ received = [kind |-> "none"] /\ crossed = NoObject /\ views = [v \in Views |-> << >>]
      BY Zenon DEF GatewayInit
    <2>2. views \in [Views -> Seq(Leaves)] /\ checkpoints \in Seq({}) /\ DOMAIN checkpoints = {}
      BY <2>1
    <2>3. received.kind # "record"
      BY <2>1
    <2>4. CheckpointsInv
      BY <2>2, Zenon DEF CheckpointsInv
    <2> QED BY <2>1, <2>3, <2>4, Zenon DEF GatewayInv, RecordsSurviveTheWire, CrossedInv
  <1>2. GatewayInv /\ [GatewayNext]_gwvars => GatewayInv'
    BY GatewayStep
  <1>3. GatewayInv => GatewaySpeaksTrue
    BY InclusionHolds, WitnessHolds, CommitmentHolds, Zenon DEF GatewayInv, GatewaySpeaksTrue
  <1> QED BY <1>1, <1>2, <1>3, PTL DEF GatewaySpec

==============================================================================
