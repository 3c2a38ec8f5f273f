-------------------------- MODULE FederationProofs ---------------------------
(***************************************************************************)
(* What several ledgers and authorities have signed, put together by       *)
(* somebody who has only their signatures.                                 *)
(*                                                                         *)
(* DoubleSpendEvidence: soundness, portability and completeness of         *)
(* double-spend evidence, for any number of replicas, ledgers, approvals,  *)
(* observers, forged receipts and restarts.                                *)
(*                                                                         *)
(* CausalOrder: the causal graph and its federated merge, for graphs of    *)
(* every size.  Search and sort are recursive functions; what they compute *)
(* is found by induction over the nested calls, the causes followed and    *)
(* the objects taken (AllUpTo), which follows from the well-ordering of    *)
(* the natural numbers (LeastOf).                                          *)
(*                                                                         *)
(* Conformance: what the conformance adapter answers, for scripts, chains  *)
(* and graphs of every size; the three framework hooks; the hash that      *)
(* several threads read.  The oracle's own linearisation is shown to be    *)
(* the order of the federated merge.                                       *)
(***************************************************************************)
EXTENDS DoubleSpendEvidence, CausalOrder, Conformance,
        SequenceTheorems, FiniteSetTheorems, WellFoundedInduction, TLAPS

\* A spend is in the chain of the replica that made it, under the replica's
\* own ledger id, and a replica spends an approval once.
SpendsInChain ==
  /\ \A s \in spends : /\ s.receipt.aid \in Consumed(s.replica)
                       /\ s.receipt.ledger = LedgerOf[s.replica]
  /\ \A s, t \in spends : s.replica = t.replica /\ s.receipt.aid = t.receipt.aid => s = t

\* What carries a ledger's signature was spent by a replica of that ledger.
Genuine(m) == m.body.ledger \in Ledgers /\ Verifies(m)
SignedIsSpent == \A m \in wire : Genuine(m) => \E s \in spends : s.receipt = m.body

\* An observer keeps, for an approval, a genuine receipt of that approval.
KeptIsGenuine ==
  \A o \in Observers, a \in Approvals :
    seen[o][a] # NoReceipt =>
      /\ seen[o][a] \in wire /\ Genuine(seen[o][a])
      /\ seen[o][a].body.aid = a

\* Evidence shows two different genuine receipts of one approval.
ProofsAreForks ==
  \A o \in Observers : \A e \in proofs[o] :
    /\ e.a \in wire /\ e.b \in wire /\ Genuine(e.a) /\ Genuine(e.b)
    /\ e.a.body.aid = e.aid /\ e.b.body.aid = e.aid
    /\ e.a.body # e.b.body

\* Each receipt an observer accepted is the one it keeps, or conflicts with it
\* and was answered with evidence.
ObservedIsAnswered ==
  \A o \in Observers : \A x \in observed[o] :
    /\ seen[o][x.aid] # NoReceipt
    /\ seen[o][x.aid].body = x \/ \E e \in proofs[o] : e.aid = x.aid

EvidenceInv ==
  /\ TypeOK
  /\ SpendsInChain
  /\ SignedIsSpent
  /\ KeptIsGenuine
  /\ ProofsAreForks
  /\ ObservedIsAnswered

LEMMA InitEvidence == Init => EvidenceInv
  <1> SUFFICES ASSUME Init PROVE EvidenceInv
    OBVIOUS
  <1>1. TypeOK
    BY EvidenceConstants DEF Init, TypeOK, Nothing
  <1>2. KeptIsGenuine
    BY DEF Init, KeptIsGenuine, Nothing
  <1> QED BY <1>1, <1>2 DEF Init, EvidenceInv, SpendsInChain, SignedIsSpent,
                            ProofsAreForks, ObservedIsAnswered

\* The receipts on the wire are typed, and an acceptable one is genuine.
LEMMA WireTyped ==
  ASSUME TypeOK, NEW m \in wire
  PROVE  /\ m \in SignedReceipt /\ m.body \in Receipt
         /\ m.body.aid \in Approvals /\ m.body.position \in Nat
         /\ \A o \in Observers : Acceptable(Known[o], m) => Genuine(m) /\ m # NoReceipt
  <1>1. m \in SignedReceipt
    BY DEF TypeOK
  <1>2. m.body \in Receipt /\ m.body.aid \in Approvals /\ m.body.position \in Nat
    BY <1>1 DEF SignedReceipt, Receipt
  <1>3. ASSUME NEW o \in Observers, Acceptable(Known[o], m) PROVE Genuine(m) /\ m # NoReceipt
    <2>1. m.body.ledger \in Ledgers /\ m.key = m.body.ledger
      BY <1>3, EvidenceConstants DEF Acceptable, Verifies
    <2>2. m.key # None
      BY <2>1, EvidenceConstants
    <2> QED BY <2>1, <2>2 DEF Genuine, Verifies, NoReceipt
  <1> QED BY <1>1, <1>2, <1>3

LEMMA ForkKeeps ==
  ASSUME EvidenceInv, NEW r \in Replicas, NEW q \in Replicas, Fork(r, q)
  PROVE  EvidenceInv'
  <1> USE DEF EvidenceInv
  <1>1. UNCHANGED <<spends, wire, seen, observed, proofs, forged, restarts>>
    BY DEF Fork
  <1>2. TypeOK'
    BY <1>1 DEF TypeOK, Fork
  <1>3. \A p \in Replicas : Consumed(p) \subseteq Consumed(p)'
    BY DEF Fork, Consumed, TypeOK
  <1>4. SpendsInChain'
    BY <1>1, <1>3 DEF SpendsInChain, TypeOK
  <1> QED BY <1>1, <1>2, <1>4
          DEF SignedIsSpent, KeptIsGenuine, ProofsAreForks, ObservedIsAnswered

LEMMA ConsumeKeeps ==
  ASSUME EvidenceInv, NEW r \in Replicas, NEW a \in Approvals, Consume(r, a)
  PROVE  EvidenceInv'
  <1> USE DEF EvidenceInv
  <1> DEFINE receipt == [ledger |-> LedgerOf[r], aid |-> a, position |-> Position(r)]
             spend == [replica |-> r, receipt |-> receipt]
             message == [body |-> receipt, key |-> LedgerOf[r]]
  <1>1. /\ a \notin Consumed(r)
        /\ chain' = [chain EXCEPT ![r] = Append(@, a)]
        /\ spends' = spends \cup {spend}
        /\ wire' = wire \cup {message}
        /\ UNCHANGED <<seen, observed, proofs, forged, restarts>>
    BY DEF Consume
  <1>2. /\ chain[r] \in Seq(Approvals) /\ LedgerOf[r] \in Ledgers
        /\ receipt \in Receipt
    BY EvidenceConstants DEF TypeOK, Position, Receipt
  <1>3. message \in SignedReceipt /\ spend \in [replica : Replicas, receipt : Receipt]
    BY <1>2 DEF SignedReceipt
  <1> HIDE DEF receipt
  <1>4. receipt.aid = a /\ receipt.ledger = LedgerOf[r]
    BY DEF receipt
  <1>5. TypeOK'
    BY <1>1, <1>2, <1>3 DEF TypeOK
  <1>6. /\ \A p \in Replicas : Consumed(p) \subseteq Consumed(p)'
        /\ a \in Consumed(r)'
    <2>1. ASSUME NEW p \in Replicas PROVE Consumed(p) \subseteq Consumed(p)'
      <3>1. CASE p = r
        BY <1>1, <1>2, <3>1 DEF Consumed, TypeOK
      <3>2. CASE p # r
        BY <1>1, <3>2 DEF Consumed, TypeOK
      <3> QED BY <3>1, <3>2
    <2>2. chain'[r] = Append(chain[r], a)
      BY <1>1 DEF TypeOK
    <2>3. Len(chain'[r]) = Len(chain[r]) + 1 /\ chain'[r][Len(chain[r]) + 1] = a /\ Len(chain[r]) \in Nat
      BY <2>2, <1>2
    <2>4. a \in Consumed(r)'
      <3>1. Len(chain[r]) + 1 \in 1..Len(chain'[r])
        BY <2>3
      <3> QED BY <2>3, <3>1 DEF Consumed
    <2> QED BY <2>1, <2>4
  <1>7. SpendsInChain'
    <2>1. ASSUME NEW s \in spends'
          PROVE  s.receipt.aid \in Consumed(s.replica)' /\ s.receipt.ledger = LedgerOf[s.replica]
      <3>1. CASE s \in spends
        BY <3>1, <1>6 DEF SpendsInChain, TypeOK
      <3>2. CASE s = spend
        BY <3>2, <1>4, <1>6
      <3> QED BY <3>1, <3>2, <1>1
    <2>2. ASSUME NEW s \in spends', NEW t \in spends',
                 s.replica = t.replica, s.receipt.aid = t.receipt.aid
          PROVE  s = t
      <3>1. \A u \in spends : u.replica = r => u.receipt.aid # a
        BY <1>1 DEF SpendsInChain
      <3>2. spend.replica = r /\ spend.receipt.aid = a
        BY <1>4
      <3> HIDE DEF spend
      <3> QED BY <2>2, <3>1, <3>2, <1>1 DEF SpendsInChain
    <2> QED BY <2>1, <2>2 DEF SpendsInChain
  <1>8. SignedIsSpent'
    <2>1. message.body = receipt /\ spend.receipt = receipt
      OBVIOUS
    <2> HIDE DEF message, spend
    <2> QED BY <1>1, <2>1 DEF SignedIsSpent, Genuine, Verifies
  <1> HIDE DEF message, spend
  <1>9. KeptIsGenuine' /\ ProofsAreForks' /\ ObservedIsAnswered'
    BY <1>1 DEF KeptIsGenuine, ProofsAreForks, ObservedIsAnswered, Genuine, Verifies
  <1> QED BY <1>5, <1>7, <1>8, <1>9

LEMMA ForgeKeeps ==
  ASSUME EvidenceInv, NEW ledger \in Ledgers \cup {None}, NEW a \in Approvals,
         NEW key \in Ledgers \cup {None}, NEW position \in Nat,
         Forge(ledger, a, position, key)
  PROVE  EvidenceInv'
  <1> USE DEF EvidenceInv
  <1> DEFINE body == [ledger |-> ledger, aid |-> a, position |-> position]
             message == [body |-> body, key |-> key]
  <1>1. /\ wire' = wire \cup {message}
        /\ forged' \in 0..MaxForged
        /\ UNCHANGED <<chain, spends, seen, observed, proofs, restarts>>
    BY EvidenceConstants DEF Forge, TypeOK
  <1>2. body \in Receipt /\ message \in SignedReceipt
    BY DEF Receipt, SignedReceipt
  <1>3. ~Genuine(message)
    BY EvidenceConstants DEF Forge, Genuine, Verifies
  <1> HIDE DEF body, message
  <1>4. TypeOK'
    BY <1>1, <1>2 DEF TypeOK
  <1>5. SpendsInChain'
    BY <1>1 DEF SpendsInChain, Consumed
  <1>6. SignedIsSpent'
    BY <1>1, <1>3 DEF SignedIsSpent, Genuine, Verifies
  <1>7. KeptIsGenuine' /\ ProofsAreForks' /\ ObservedIsAnswered'
    BY <1>1 DEF KeptIsGenuine, ProofsAreForks, ObservedIsAnswered, Genuine, Verifies
  <1> QED BY <1>4, <1>5, <1>6, <1>7

LEMMA ObserveKeeps ==
  ASSUME EvidenceInv, NEW o \in Observers, NEW m \in wire, Observe(o, m)
  PROVE  EvidenceInv'
  <1> USE DEF EvidenceInv
  <1> DEFINE a == m.body.aid
             prev == seen[o][a]
             fork == [aid |-> a, a |-> prev, b |-> m]
  <1>1. /\ Acceptable(Known[o], m)
        /\ observed' = [observed EXCEPT ![o] = @ \cup {m.body}]
        /\ UNCHANGED <<chain, spends, wire, forged, restarts>>
    BY DEF Observe
  <1>2. /\ m \in SignedReceipt /\ m.body \in Receipt /\ a \in Approvals
        /\ Genuine(m) /\ m # NoReceipt
    BY <1>1, WireTyped
  <1>3. SpendsInChain' /\ SignedIsSpent'
    BY <1>1 DEF SpendsInChain, SignedIsSpent, Consumed, Genuine, Verifies
  <1>4. observed' \in [Observers -> SUBSET Receipt]
    BY <1>1, <1>2 DEF TypeOK
  <1>5. CASE prev = NoReceipt
    <2>1. seen' = [seen EXCEPT ![o][a] = m] /\ proofs' = proofs
      BY <1>5 DEF Observe
    <2>2. TypeOK'
      BY <1>1, <1>2, <1>4, <2>1 DEF TypeOK
    <2>3. \A p \in Observers, b \in Approvals :
            seen'[p][b] = IF p = o /\ b = a THEN m ELSE seen[p][b]
      BY <2>1, <1>2 DEF TypeOK
    <2>4. KeptIsGenuine'
      BY <1>1, <1>2, <2>3 DEF KeptIsGenuine, Genuine, Verifies
    <2>5. ProofsAreForks'
      BY <1>1, <2>1 DEF ProofsAreForks, Genuine, Verifies
    <2>6. ASSUME NEW p \in Observers, NEW x \in observed'[p]
          PROVE  /\ seen'[p][x.aid] # NoReceipt
                 /\ seen'[p][x.aid].body = x \/ \E e \in proofs'[p] : e.aid = x.aid
      <3>1. x \in Receipt /\ x.aid \in Approvals
        BY <1>4 DEF Receipt
      <3>2. CASE x \in observed[p]
        <4>1. /\ seen[p][x.aid] # NoReceipt
              /\ seen[p][x.aid].body = x \/ \E e \in proofs[p] : e.aid = x.aid
          BY <3>2 DEF ObservedIsAnswered
        <4>2. seen'[p][x.aid] = seen[p][x.aid]
          BY <4>1, <3>1, <2>3, <1>5
        <4> QED BY <4>1, <4>2, <2>1
      <3>3. CASE x \notin observed[p]
        <4>1. p = o /\ x = m.body
          BY <3>3, <1>1 DEF TypeOK
        <4> QED BY <4>1, <2>3, <1>2
      <3> QED BY <3>2, <3>3
    <2> QED BY <1>3, <2>2, <2>4, <2>5, <2>6 DEF ObservedIsAnswered
  <1>6. CASE prev # NoReceipt
    <2>1. /\ seen' = seen
          /\ IF prev.body = m.body THEN proofs' = proofs
             ELSE proofs' = [proofs EXCEPT ![o] = @ \cup {fork}]
      BY <1>6 DEF Observe, Previous, ForkOf
    <2>2. prev \in wire /\ Genuine(prev) /\ prev.body.aid = a /\ prev \in SignedReceipt
      BY <1>6, <1>2 DEF KeptIsGenuine, TypeOK
    <2>3. fork \in Evidence /\ fork.aid = a /\ fork.a = prev /\ fork.b = m
      BY <1>2, <2>2 DEF Evidence
    <2> HIDE DEF fork
    <2>4. TypeOK'
      <3>1. proofs \in [Observers -> SUBSET Evidence]
        BY DEF TypeOK
      <3>2. proofs' \in [Observers -> SUBSET Evidence]
        <4>1. CASE proofs' = proofs
          BY <3>1, <4>1
        <4>2. CASE proofs' = [proofs EXCEPT ![o] = @ \cup {fork}]
          BY <3>1, <2>3, <4>2
        <4> QED BY <4>1, <4>2, <2>1
      <3> QED BY <1>1, <1>4, <2>1, <3>2 DEF TypeOK
    <2>5. KeptIsGenuine'
      BY <1>1, <2>1 DEF KeptIsGenuine, Genuine, Verifies
    <2>6. \A p \in Observers : /\ proofs[p] \subseteq proofs'[p]
                               /\ proofs'[p] \subseteq proofs[p] \cup {fork}
      BY <2>1 DEF TypeOK
    <2>7. ASSUME NEW p \in Observers, NEW e \in proofs'[p]
          PROVE  /\ e.a \in wire' /\ e.b \in wire' /\ Genuine(e.a) /\ Genuine(e.b)
                 /\ e.a.body.aid = e.aid /\ e.b.body.aid = e.aid
                 /\ e.a.body # e.b.body
      <3>1. CASE e \in proofs[p]
        BY <3>1, <1>1 DEF ProofsAreForks
      <3>2. CASE e \notin proofs[p]
        <4>1. e = fork /\ prev.body # m.body
          BY <3>2, <2>6, <2>1
        <4> QED BY <4>1, <2>2, <2>3, <1>1, <1>2
      <3> QED BY <3>1, <3>2
    <2>8. ASSUME NEW p \in Observers, NEW x \in observed'[p]
          PROVE  /\ seen'[p][x.aid] # NoReceipt
                 /\ seen'[p][x.aid].body = x \/ \E e \in proofs'[p] : e.aid = x.aid
      <3>1. CASE x \in observed[p]
        BY <3>1, <2>1, <2>6 DEF ObservedIsAnswered
      <3>2. CASE x \notin observed[p]
        <4>1. p = o /\ x = m.body
          BY <3>2, <1>1 DEF TypeOK
        <4>2. CASE prev.body = m.body
          BY <4>1, <4>2, <2>1, <1>6
        <4>3. CASE prev.body # m.body
          <5>1. fork \in proofs'[o]
            BY <4>3, <2>1 DEF TypeOK
          <5> QED BY <5>1, <4>1, <2>1, <2>3, <1>6
        <4> QED BY <4>2, <4>3
      <3> QED BY <3>1, <3>2
    <2>9. ProofsAreForks' /\ ObservedIsAnswered'
      BY <2>7, <2>8 DEF ProofsAreForks, ObservedIsAnswered, Genuine, Verifies
    <2> QED BY <1>3, <2>4, <2>5, <2>9
  <1> QED BY <1>5, <1>6

LEMMA RestartKeeps ==
  ASSUME EvidenceInv, NEW o \in Observers, Restart(o)
  PROVE  EvidenceInv'
  <1> USE DEF EvidenceInv
  <1>1. /\ seen' = [seen EXCEPT ![o] = Nothing]
        /\ observed' = [observed EXCEPT ![o] = {}]
        /\ restarts' \in 0..MaxRestarts
        /\ UNCHANGED <<chain, spends, wire, proofs, forged>>
    BY EvidenceConstants DEF Restart, TypeOK
  <1>2. TypeOK'
    BY <1>1 DEF TypeOK, Nothing
  <1>3. SpendsInChain' /\ SignedIsSpent' /\ ProofsAreForks'
    BY <1>1 DEF SpendsInChain, SignedIsSpent, ProofsAreForks, Consumed, Genuine, Verifies
  <1>4. KeptIsGenuine'
    BY <1>1 DEF KeptIsGenuine, Nothing, TypeOK, Genuine, Verifies
  <1>5. ASSUME NEW p \in Observers, NEW x \in observed'[p]
        PROVE  p # o /\ x \in observed[p]
    BY <1>1, <1>5 DEF TypeOK
  <1>6. ObservedIsAnswered'
    BY <1>1, <1>5 DEF ObservedIsAnswered, TypeOK
  <1> QED BY <1>2, <1>3, <1>4, <1>6

LEMMA StepEvidence == EvidenceInv /\ [Next]_vars => EvidenceInv'
  <1> SUFFICES ASSUME EvidenceInv, [Next]_vars PROVE EvidenceInv'
    OBVIOUS
  <1>1. CASE UNCHANGED vars
    BY <1>1 DEF vars, EvidenceInv, TypeOK, SpendsInChain, SignedIsSpent, KeptIsGenuine,
                ProofsAreForks, ObservedIsAnswered, Consumed, Genuine, Verifies
  <1>2. CASE \E ledger \in Ledgers \cup {None}, a \in Approvals, key \in Ledgers \cup {None},
               position \in 0..(Cardinality(Approvals) - 1) : Forge(ledger, a, position, key)
    <2>1. \A position \in 0..(Cardinality(Approvals) - 1) : position \in Nat
      OBVIOUS
    <2> QED BY <1>2, <2>1, ForgeKeeps
  <1> QED BY <1>1, <1>2, ForkKeeps, ConsumeKeeps, ObserveKeeps, RestartKeeps DEF Next

\* The inductive invariant: receipts and evidence are well formed, genuine ones
\* are what a replica signed, and every observed pair has its answer
\* (ReceiptSet.observe, ConsumeForkEvidence.verify).
THEOREM EvidenceInvariant == Spec => []EvidenceInv
  <1>1. Init => EvidenceInv
    BY InitEvidence
  <1>2. EvidenceInv /\ [Next]_vars => EvidenceInv'
    BY StepEvidence
  <1> QED BY <1>1, <1>2, PTL DEF Spec

\* Evidence convicts (ConsumeForkEvidence.verify, ReceiptSet.observe): in every
\* behaviour, whatever is forged, repeated, reordered or forgotten by a restart,
\* evidence is against ledgers that did spend the approval twice, on two
\* replicas, and every judge that knows them accepts it.
THEOREM EvidenceNeverFalse == Spec => []EvidenceConvicts
  <1>1. EvidenceInv => EvidenceConvicts
    <2> SUFFICES ASSUME EvidenceInv PROVE EvidenceConvicts
      OBVIOUS
    <2> USE DEF EvidenceInv
    <2>1. ASSUME NEW o \in Observers, NEW e \in proofs[o]
          PROVE  /\ \E s, t \in spends : /\ s.replica # t.replica
                                         /\ s.receipt = e.a.body /\ t.receipt = e.b.body
                                         /\ s.receipt.aid = e.aid /\ t.receipt.aid = e.aid
                 /\ \A judge \in SUBSET Ledgers :
                      {e.a.body.ledger, e.b.body.ledger} \subseteq judge => ForkVerifies(judge, e)
      <3>1. /\ e.a \in wire /\ e.b \in wire /\ Genuine(e.a) /\ Genuine(e.b)
            /\ e.a.body.aid = e.aid /\ e.b.body.aid = e.aid
            /\ e.a.body # e.b.body
        BY DEF ProofsAreForks
      <3>2. PICK s \in spends : s.receipt = e.a.body
        BY <3>1 DEF SignedIsSpent
      <3>3. PICK t \in spends : t.receipt = e.b.body
        BY <3>1 DEF SignedIsSpent
      <3>4. s.replica # t.replica
        BY <3>1, <3>2, <3>3 DEF SpendsInChain
      <3>5. ASSUME NEW judge \in SUBSET Ledgers, {e.a.body.ledger, e.b.body.ledger} \subseteq judge
            PROVE  ForkVerifies(judge, e)
        BY <3>1, <3>5, EvidenceConstants DEF ForkVerifies, Acceptable, Genuine
      <3> QED BY <3>1, <3>2, <3>3, <3>4, <3>5
    <2> QED BY <2>1 DEF EvidenceConvicts, EvidenceSound, EvidenceTransfers
  <1> QED BY <1>1, EvidenceInvariant, PTL

\* No conflict goes unnoticed (ReceiptSet.observe): an observer that accepted two
\* different receipts for one approval has returned evidence about it, whatever
\* the order and the number of deliveries.
THEOREM ConflictAlwaysDetected == Spec => []ConflictDetected
  <1>1. EvidenceInv => ConflictDetected
    BY DEF EvidenceInv, ObservedIsAnswered, ConflictDetected
  <1> QED BY <1>1, EvidenceInvariant, PTL

------------------------------------------------------------------------------
(***************************************************************************)
(* Induction over the natural numbers                                      *)
(***************************************************************************)
\* Natural numbers are well ordered: a set of them has a least element.
LEMMA LeastOf ==
  ASSUME NEW T \in SUBSET Nat, T # {}
  PROVE  \E m \in T : \A y \in T : m <= y
  <1> DEFINE R == {ss \in Nat \X Nat : ss[1] < ss[2]}
  <1>1. IsWellFoundedOn(R, Nat)
    BY NatLessThanWellFounded, Zenon DEF OpToRel
  <1>2. \A x, y \in Nat : <<x, y>> \in R <=> x < y
    OBVIOUS
  <1> HIDE DEF R
  <1>3. PICK m \in T : \A y \in Nat : <<y, m>> \in R => ~(y \in T)
    BY <1>1, WFMin, Zenon
  <1>4. \A y \in T : ~(y < m)
    BY <1>2, <1>3, Zenon
  <1> QED BY <1>3, <1>4

\* Induction up to a bound, as a fact about sets.
LEMMA AllUpTo ==
  ASSUME NEW n \in Nat, NEW G, 0 \in G, \A k \in 0..n : k < n /\ k \in G => k + 1 \in G
  PROVE  \A k \in 0..n : k \in G
  <1> DEFINE Out == {k \in 0..n : k \notin G}
  <1> SUFFICES ASSUME Out # {} PROVE FALSE
    OBVIOUS
  <1>0. Out \in SUBSET Nat
    OBVIOUS
  <1>1. PICK m \in Out : \A y \in Out : m <= y
    BY <1>0, LeastOf
  <1>2. m \in 1..n /\ m - 1 \in 0..n
    OBVIOUS
  <1>3. m - 1 \in G
    BY <1>1, <1>2
  <1> QED BY <1>1, <1>2, <1>3

\* A recursion that takes the value at n - 1 to the value at n has a solution.
Solves(g, N, X, b, st) == g \in [0..N -> X] /\ g[0] = b /\ \A n \in 1..N : g[n] = st[<<n, g[n - 1]>>]

LEMMA Iterated ==
  ASSUME NEW N \in Nat, NEW X, NEW b \in X, NEW st \in [(1..N) \X X -> X]
  PROVE  \E g : Solves(g, N, X, b, st)
  <1> DEFINE Good(g, k) == g \in [0..k -> X] /\ g[0] = b /\ \A n \in 1..k : g[n] = st[<<n, g[n - 1]>>]
             G == {k \in 0..N : \E g : Good(g, k)}
  <1>1. 0 \in G
    <2>1. PICK g : g = [n \in 0..0 |-> b]
      OBVIOUS
    <2>2. Good(g, 0)
      BY <2>1
    <2> QED BY <2>2
  <1>2. ASSUME NEW k \in 0..N, k < N, k \in G PROVE k + 1 \in G
    <2>1. PICK g : Good(g, k)
      BY <1>2
    <2>2. k + 1 \in 1..N /\ k + 1 \in 0..N /\ k \in 0..k
      BY <1>2
    <2>3. st[<<k + 1, g[k]>>] \in X
      <3>1. g[k] \in X
        BY <2>1, <2>2
      <3>2. <<k + 1, g[k]>> \in (1..N) \X X
        BY <2>2, <3>1
      <3> QED BY <3>2
    <2>4. PICK h : h = [n \in 0..(k + 1) |-> IF n = k + 1 THEN st[<<k + 1, g[k]>>] ELSE g[n]]
      OBVIOUS
    <2>5. \A n \in 0..k : n \in 0..(k + 1) /\ n # k + 1 /\ h[n] = g[n] /\ g[n] \in X
      BY <2>1, <2>4
    <2>6. h[k + 1] = st[<<k + 1, g[k]>>]
      BY <2>4
    <2>7. h \in [0..(k + 1) -> X]
      <3>1. \A n \in 0..(k + 1) : n = k + 1 \/ n \in 0..k
        OBVIOUS
      <3>2. \A n \in 0..(k + 1) : h[n] \in X
        BY <2>3, <2>5, <2>6, <3>1
      <3> HIDE DEF Good
      <3> QED BY <2>4, <3>2
    <2>8. ASSUME NEW n \in 1..(k + 1) PROVE h[n] = st[<<n, h[n - 1]>>]
      <3>1. n - 1 \in 0..k /\ h[n - 1] = g[n - 1]
        BY <2>5
      <3>2. CASE n = k + 1
        BY <2>6, <3>1, <3>2
      <3>3. CASE n # k + 1
        <4>1. n \in 1..k /\ n \in 0..k
          BY <3>3
        <4> QED BY <2>1, <2>5, <3>1, <4>1
      <3> QED BY <3>2, <3>3
    <2>9. h[0] = b
      BY <2>1, <2>5
    <2>10. Good(h, k + 1)
      BY <2>7, <2>8, <2>9
    <2> QED BY <2>2, <2>10
  <1>3. N \in G
    <2> HIDE DEF G
    <2>1. \A k \in 0..N : k \in G
      BY <1>1, <1>2, AllUpTo
    <2> QED BY <2>1
  <1> QED BY <1>3 DEF Solves

(***************************************************************************)
(* Reachability                                                            *)
(***************************************************************************)
LEMMA ReachedDirectly ==
  ASSUME NEW V, NEW s \in [V -> SUBSET V], NEW x \in V
  PROVE  s[x] \subseteq Reached(s, x) /\ Reached(s, x) \subseteq V
  BY DEF Reached

LEMMA ReachedFurther ==
  ASSUME NEW V, NEW s \in [V -> SUBSET V], NEW x \in V, NEW y \in Reached(s, x)
  PROVE  y \in V /\ Reached(s, y) \subseteq Reached(s, x)
  <1>1. y \in V
    BY DEF Reached
  <1>2. ASSUME NEW z \in Reached(s, y) PROVE z \in Reached(s, x)
    <2>1. z \in V
      BY DEF Reached
    <2>2. ASSUME NEW S \in SUBSET V, s[x] \subseteq S, \A w \in S : s[w] \subseteq S PROVE z \in S
      <3>1. y \in S
        BY <2>2 DEF Reached
      <3>2. s[y] \subseteq S
        BY <2>2, <3>1
      <3> QED BY <2>2, <3>2 DEF Reached
    <2> QED BY <2>1, <2>2 DEF Reached
  <1> QED BY <1>1, <1>2

LEMMA ReachedWithin ==
  ASSUME NEW V, NEW s \in [V -> SUBSET V], NEW x \in V, NEW S \in SUBSET V,
         s[x] \subseteq S, \A z \in S : s[z] \subseteq S
  PROVE  Reached(s, x) \subseteq S
  BY DEF Reached

(***************************************************************************)
(* The search                                                              *)
(***************************************************************************)
Results(links) == [found : BOOLEAN, color : Colorings(links)]

\* What following one cause makes of the search so far, W being the nested calls.
FollowStep(W, acc, j) ==
  IF acc.found \/ j = 0 THEN acc
  ELSE IF acc.color[j] = "gray" THEN [acc EXCEPT !.found = TRUE]
  ELSE IF acc.color[j] = "white" THEN W[j][acc.color]
  ELSE acc

FollowBody(links, i, color, W, f, k) ==
  IF k = 0 THEN [found |-> FALSE, color |-> [color EXCEPT ![i] = "gray"]]
  ELSE FollowStep(W, f[k - 1], links[i][k])
FollowFn(links, i, color, W) ==
  CHOOSE f : f = [k \in 0..Len(links[i]) |-> FollowBody(links, i, color, W, f, k)]

Leave(i, done) == IF done.found THEN done ELSE [done EXCEPT !.color[i] = "black"]
VisitOf(links, W) ==
  [i \in DOMAIN links |-> [color \in Colorings(links) |->
     Leave(i, FollowFn(links, i, color, W)[Len(links[i])])]]
VisitBody(links, V, d) ==
  [i \in DOMAIN links |-> [color \in Colorings(links) |->
     IF d = 0 THEN [found |-> FALSE, color |-> color]
     ELSE Leave(i, FollowFn(links, i, color, V[d - 1])[Len(links[i])])]]
VisitFn(links) == CHOOSE v : v = [d \in 0..Len(links) |-> VisitBody(links, v, d)]

LEMMA HasCycleIs == ASSUME NEW links PROVE HasCycle(links) = VisitFn(links)
  BY DEF HasCycle, VisitFn, VisitBody, Leave, FollowFn, FollowBody, FollowStep

SeenStep(links, acc, i) ==
  IF acc.found \/ acc.color[i] # "white" THEN acc ELSE HasCycle(links)[Len(links)][i][acc.color]
SeenBody(links, f, i) ==
  IF i = 0 THEN [found |-> FALSE, color |-> [x \in DOMAIN links |-> "white"]]
  ELSE SeenStep(links, f[i - 1], i)
SeenFn(links) == CHOOSE f : f = [i \in 0..Len(links) |-> SeenBody(links, f, i)]

LEMMA CyclicIs == ASSUME NEW links PROVE Cyclic(links) <=> SeenFn(links)[Len(links)].found
  BY Zenon DEF Cyclic, SeenFn, SeenBody, SeenStep

LEMMA LinkFacts ==
  ASSUME NEW n \in Nat, NEW links \in Seq(Seq(0..n)), Len(links) = n
  PROVE  /\ DOMAIN links = 1..n
         /\ \A i \in 1..n : links[i] \in Seq(0..n) /\ Len(links[i]) \in Nat
         /\ \A i \in 1..n : \A k \in 1..Len(links[i]) : links[i][k] \in 0..n
         /\ Colorings(links) = [1..n -> {"white", "gray", "black"}]
  <1>1. DOMAIN links = 1..n
    OBVIOUS
  <1>2. ASSUME NEW i \in 1..n PROVE links[i] \in Seq(0..n)
    OBVIOUS
  <1>3. ASSUME NEW i \in 1..n, NEW k \in 1..Len(links[i]) PROVE links[i][k] \in 0..n
    <2>1. PICK s \in Seq(0..n) : s = links[i]
      BY <1>2
    <2>2. s[k] \in 0..n
      BY <2>1
    <2> QED BY <2>1, <2>2
  <1>4. \A s \in Seq(0..n) : Len(s) \in Nat
    OBVIOUS
  <1> QED BY <1>1, <1>2, <1>3, <1>4, Zenon DEF Colorings

LEMMA FollowStepType ==
  ASSUME NEW n \in Nat, NEW links \in Seq(Seq(0..n)), Len(links) = n, NEW W,
         W \in [1..n -> [Colorings(links) -> Results(links)]],
         NEW acc \in Results(links), NEW j \in 0..n
  PROVE  FollowStep(W, acc, j) \in Results(links)
  <1>1. acc.found \in BOOLEAN /\ acc.color \in Colorings(links)
    BY DEF Results
  <1>2. [acc EXCEPT !.found = TRUE] \in Results(links)
    BY DEF Results
  <1>3. ASSUME j # 0 PROVE W[j][acc.color] \in Results(links)
    BY <1>1, <1>3
  <1> QED
    <2>1. CASE acc.found \/ j = 0
      BY <2>1, Zenon DEF FollowStep
    <2>2. CASE ~acc.found /\ j # 0 /\ acc.color[j] = "gray"
      BY <1>2, <2>2, Zenon DEF FollowStep
    <2>3. CASE ~acc.found /\ j # 0 /\ acc.color[j] # "gray" /\ acc.color[j] = "white"
      BY <1>3, <2>3, Zenon DEF FollowStep
    <2>4. CASE ~acc.found /\ j # 0 /\ acc.color[j] # "gray" /\ acc.color[j] # "white"
      BY <2>4, Zenon DEF FollowStep
    <2> QED BY <2>1, <2>2, <2>3, <2>4, Zenon

FollowRuns(links, i, color, W, L, F) ==
  /\ F \in [0..L -> Results(links)]
  /\ F[0] = [found |-> FALSE, color |-> [color EXCEPT ![i] = "gray"]]
  /\ \A k \in 1..L : F[k] = FollowStep(W, F[k - 1], links[i][k])

LEMMA FollowFnIs ==
  ASSUME NEW n \in Nat, NEW links \in Seq(Seq(0..n)), Len(links) = n, NEW W,
         W \in [1..n -> [Colorings(links) -> Results(links)]],
         NEW i \in 1..n, NEW color \in Colorings(links), NEW L, L = Len(links[i]),
         NEW F, F = FollowFn(links, i, color, W)
  PROVE  FollowRuns(links, i, color, W, L, F)
  <1>0. L \in Nat /\ \A k \in 1..L : links[i][k] \in 0..n
    BY LinkFacts
  <1> DEFINE b == [found |-> FALSE, color |-> [color EXCEPT ![i] = "gray"]]
             X == Results(links)
             st == [p \in (1..L) \X X |-> FollowStep(W, p[2], links[i][p[1]])]
  <1>1. b \in X
    <2>1. [color EXCEPT ![i] = "gray"] \in Colorings(links)
      BY LinkFacts
    <2> QED BY <2>1 DEF Results
  <1>2. \A k \in 1..L, x \in X : FollowStep(W, x, links[i][k]) \in X
    BY <1>0, FollowStepType
  <1>3. st \in [(1..L) \X X -> X] /\ \A k \in 1..L, x \in X : st[<<k, x>>] = FollowStep(W, x, links[i][k])
    <2> HIDE DEF X
    <2> QED BY <1>2
  <1> HIDE DEF b, X, st
  <1>4. PICK g : Solves(g, L, X, b, st)
    BY <1>0, <1>1, <1>3, Iterated, Zenon
  <1>5. ASSUME NEW k \in 0..L PROVE g[k] = FollowBody(links, i, color, W, g, k)
    <2>1. CASE k = 0
      BY <1>4, <2>1 DEF Solves, FollowBody, b
    <2>2. CASE k # 0
      <3>1. k \in 1..L /\ k - 1 \in 0..L
        BY <1>0, <2>2
      <3>2. g[k - 1] \in X /\ g[k] = st[<<k, g[k - 1]>>]
        BY <1>4, <3>1 DEF Solves
      <3> QED BY <1>3, <2>2, <3>1, <3>2 DEF FollowBody
    <2> QED BY <2>1, <2>2
  <1>6. g = [k \in 0..Len(links[i]) |-> FollowBody(links, i, color, W, g, k)]
    BY <1>4, <1>5 DEF Solves
  <1>7. F = [k \in 0..Len(links[i]) |-> FollowBody(links, i, color, W, F, k)]
    BY <1>6, Zenon DEF FollowFn
  <1>8. DOMAIN F = 0..L /\ \A k \in 0..L : F[k] = FollowBody(links, i, color, W, F, k)
    BY <1>7
  <1>9. F[0] = b
    <2>1. 0 \in 0..L
      BY <1>0
    <2> QED BY <1>8, <2>1 DEF FollowBody, b
  <1>10. ASSUME NEW k \in 1..L PROVE F[k] = FollowStep(W, F[k - 1], links[i][k])
    <2>1. k \in 0..L /\ k # 0
      BY <1>0
    <2> QED BY <1>8, <2>1 DEF FollowBody
  <1>11. \A k \in 0..L : F[k] \in X
    <2> DEFINE G == {k \in 0..L : F[k] \in X}
    <2>1. 0 \in G
      BY <1>0, <1>1, <1>9
    <2>2. \A k \in 0..L : k < L /\ k \in G => k + 1 \in G
      <3> SUFFICES ASSUME NEW k \in 0..L, k < L, F[k] \in X PROVE F[k + 1] \in X
        BY <1>0
      <3>1. k + 1 \in 1..L /\ (k + 1) - 1 = k
        BY <1>0
      <3> QED BY <1>2, <1>10, <3>1
    <2>3. \A k \in 0..L : k \in G
      <3> HIDE DEF G
      <3> QED BY <1>0, <2>1, <2>2, AllUpTo
    <2> QED BY <2>3
  <1>12. F \in [0..L -> Results(links)]
    BY <1>7, <1>11 DEF X
  <1> QED BY <1>9, <1>10, <1>12, Zenon DEF b, FollowRuns

Calls(links) == [DOMAIN links -> [Colorings(links) -> Results(links)]]

LEMMA VisitOfType ==
  ASSUME NEW n \in Nat, NEW links \in Seq(Seq(0..n)), Len(links) = n, NEW W \in Calls(links)
  PROVE  /\ VisitOf(links, W) \in Calls(links)
         /\ \A i \in 1..n, color \in Colorings(links) :
              VisitOf(links, W)[i][color] = Leave(i, FollowFn(links, i, color, W)[Len(links[i])])
  <1>1. DOMAIN links = 1..n /\ Colorings(links) = [1..n -> {"white", "gray", "black"}]
    BY LinkFacts
  <1>2. W \in [1..n -> [Colorings(links) -> Results(links)]]
    BY <1>1, Zenon DEF Calls
  <1>3. ASSUME NEW i \in 1..n, NEW color \in Colorings(links)
        PROVE  Leave(i, FollowFn(links, i, color, W)[Len(links[i])]) \in Results(links)
    <2>1. PICK F : F = FollowFn(links, i, color, W)
      OBVIOUS
    <2>2. PICK L \in Nat : L = Len(links[i])
      BY LinkFacts
    <2>10. FollowRuns(links, i, color, W, L, F)
      BY <1>2, <2>1, <2>2, FollowFnIs
    <2>3. F \in [0..L -> Results(links)]
      BY <2>10 DEF FollowRuns
    <2>9. L \in 0..L
      BY <2>2
    <2>4. PICK r \in Results(links) : r = F[L]
      BY <2>3, <2>9, Zenon
    <2>5. r.color \in [1..n -> {"white", "gray", "black"}] /\ r.found \in BOOLEAN
      BY <1>1, <2>4 DEF Results
    <2>6. [r.color EXCEPT ![i] = "black"] \in Colorings(links)
      BY <1>1, <2>5
    <2>7. [r EXCEPT !.color[i] = "black"] \in Results(links)
      <3>1. PICK c : c = [r.color EXCEPT ![i] = "black"]
        OBVIOUS
      <3>2. [r EXCEPT !.color[i] = "black"] = [r EXCEPT !.color = c]
        BY <3>1, Zenon
      <3>3. PICK C : C = Colorings(links)
        OBVIOUS
      <3>4. r \in [found : BOOLEAN, color : C] /\ c \in C
        BY <2>4, <2>6, <3>1, <3>3 DEF Results
      <3>5. [r EXCEPT !.color = c] \in [found : BOOLEAN, color : C]
        BY <3>4
      <3> QED BY <3>2, <3>3, <3>5 DEF Results
    <2>8. Leave(i, r) \in Results(links)
      BY <2>4, <2>7, Zenon DEF Leave
    <2> QED BY <2>1, <2>2, <2>4, <2>8, Zenon
  <1>4. PICK C, R : C = Colorings(links) /\ R = Results(links)
    OBVIOUS
  <1>5. PICK T : T = [i \in 1..n |-> [color \in C |-> Leave(i, FollowFn(links, i, color, W)[Len(links[i])])]]
    OBVIOUS
  <1>6. T = VisitOf(links, W)
    BY <1>1, <1>4, <1>5, Zenon DEF VisitOf
  <1>7. ASSUME NEW i \in 1..n, NEW color \in C
        PROVE  T[i][color] = Leave(i, FollowFn(links, i, color, W)[Len(links[i])])
    BY <1>5
  <1>8. T \in [1..n -> [C -> R]]
    BY <1>3, <1>4, <1>5
  <1> QED BY <1>1, <1>4, <1>6, <1>7, <1>8, Zenon DEF Calls

LEMMA VisitFnIs ==
  ASSUME NEW n \in Nat, NEW links \in Seq(Seq(0..n)), Len(links) = n, NEW V, V = VisitFn(links)
  PROVE  /\ V \in [0..n -> Calls(links)]
         /\ \A d \in 1..n : V[d] = VisitOf(links, V[d - 1])
  <1> DEFINE X == Calls(links)
             b == [i \in DOMAIN links |-> [color \in Colorings(links) |-> [found |-> FALSE, color |-> color]]]
             st == [p \in (1..n) \X X |-> VisitOf(links, p[2])]
  <1>1. b \in X
    <2>1. ASSUME NEW color \in Colorings(links) PROVE [found |-> FALSE, color |-> color] \in Results(links)
      BY DEF Results
    <2> QED BY <2>1 DEF Calls
  <1>2. \A W \in X : VisitOf(links, W) \in X
    BY VisitOfType
  <1>3. st \in [(1..n) \X X -> X] /\ \A d \in 1..n, W \in X : st[<<d, W>>] = VisitOf(links, W)
    <2> HIDE DEF X
    <2> QED BY <1>2
  <1>4. \A v : VisitBody(links, v, 0) = b
    BY DEF VisitBody
  <1>5. \A v : \A d \in 1..n : VisitBody(links, v, d) = VisitOf(links, v[d - 1])
    BY DEF VisitBody, VisitOf
  <1> HIDE DEF b, X, st
  <1>6. PICK g : Solves(g, n, X, b, st)
    BY <1>1, <1>3, Iterated, Zenon
  <1>7. ASSUME NEW d \in 0..n PROVE g[d] = VisitBody(links, g, d)
    <2>1. CASE d = 0
      BY <1>4, <1>6, <2>1 DEF Solves
    <2>2. CASE d # 0
      <3>1. d \in 1..n /\ d - 1 \in 0..n
        BY <2>2
      <3>2. g[d - 1] \in X /\ g[d] = st[<<d, g[d - 1]>>]
        BY <1>6, <3>1 DEF Solves
      <3> QED BY <1>3, <1>5, <3>1, <3>2
    <2> QED BY <2>1, <2>2
  <1>8. g = [d \in 0..Len(links) |-> VisitBody(links, g, d)]
    BY <1>6, <1>7 DEF Solves
  <1>9. V = [d \in 0..Len(links) |-> VisitBody(links, V, d)]
    BY <1>8, Zenon DEF VisitFn
  <1>10. DOMAIN V = 0..n /\ \A d \in 0..n : V[d] = VisitBody(links, V, d)
    BY <1>9
  <1>11. V[0] = b
    <2>1. 0 \in 0..n
      OBVIOUS
    <2> QED BY <1>4, <1>10, <2>1, Zenon
  <1>12. ASSUME NEW d \in 1..n PROVE V[d] = VisitOf(links, V[d - 1])
    <2>1. d \in 0..n
      OBVIOUS
    <2> QED BY <1>5, <1>10, <2>1, Zenon
  <1>13. \A d \in 0..n : V[d] \in X
    <2> DEFINE G == {d \in 0..n : V[d] \in X}
    <2>1. 0 \in G
      BY <1>1, <1>11
    <2>2. \A d \in 0..n : d < n /\ d \in G => d + 1 \in G
      <3> SUFFICES ASSUME NEW d \in 0..n, d < n, V[d] \in X PROVE V[d + 1] \in X
        OBVIOUS
      <3>1. d + 1 \in 1..n /\ (d + 1) - 1 = d
        OBVIOUS
      <3> QED BY <1>2, <1>12, <3>1
    <2>3. \A d \in 0..n : d \in G
      <3> HIDE DEF G
      <3> QED BY <2>1, <2>2, AllUpTo
    <2> QED BY <2>3
  <1> QED BY <1>9, <1>12, <1>13 DEF X

\* The nodes that the causes of a node lead to.
Succ(links) == [i \in DOMAIN links |-> {links[i][k] : k \in DOMAIN links[i]} \ {0}]

Leads(s, links, i, y) == y \in s[i] <=> \E k \in 1..Len(links[i]) : links[i][k] = y /\ y # 0

LEMMA SuccFacts ==
  ASSUME NEW n \in Nat, NEW links \in Seq(Seq(0..n)), Len(links) = n, NEW s, s = Succ(links)
  PROVE  /\ s \in [1..n -> SUBSET (1..n)]
         /\ \A i \in 1..n : \A y : Leads(s, links, i, y)
  <1>1. DOMAIN links = 1..n /\ \A i \in 1..n : DOMAIN links[i] = 1..Len(links[i])
    BY LinkFacts
  <1>2. ASSUME NEW i \in 1..n, NEW y
        PROVE  y \in s[i] <=> \E k \in 1..Len(links[i]) : links[i][k] = y /\ y # 0
    <2>1. s[i] = {links[i][k] : k \in 1..Len(links[i])} \ {0}
      BY <1>1 DEF Succ
    <2> QED BY <2>1, Zenon
  <1>3. ASSUME NEW i \in 1..n PROVE s[i] \subseteq 1..n
    <2> SUFFICES ASSUME NEW y \in s[i] PROVE y \in 1..n
      OBVIOUS
    <2>1. PICK k \in 1..Len(links[i]) : links[i][k] = y /\ y # 0
      BY <1>2, Zenon
    <2>2. y \in 0..n /\ y # 0
      BY <2>1, LinkFacts
    <2> QED BY <2>2
  <1>4. s = [i \in 1..n |-> {links[i][k] : k \in DOMAIN links[i]} \ {0}]
    BY <1>1 DEF Succ
  <1>5. s \in [1..n -> SUBSET (1..n)]
    BY <1>3, <1>4
  <1> QED BY <1>2, <1>5, Zenon DEF Leads

\* A black node leads only to black ones, and not to itself.
Settled(s, color) ==
  \A x \in DOMAIN s : color[x] = "black" => x \notin Reached(s, x) /\ \A y \in s[x] : color[y] = "black"
HasLoop(s) == \E x \in DOMAIN s : x \in Reached(s, x)
Whites(s, color) == {x \in DOMAIN s : color[x] = "white"}

\* What a call finds: everything on the current path, the gray nodes, leads to i.
Enters(s, i, color, d) ==
  /\ color[i] = "white" /\ Settled(s, color)
  /\ Cardinality(Whites(s, color)) <= d
  /\ \A g \in DOMAIN s : color[g] = "gray" => i \in Reached(s, g)

\* What it returns: a cycle, or i and what it leads to painted black.
Returns(s, i, color, r) ==
  /\ r.found => HasLoop(s)
  /\ ~r.found =>
       /\ Settled(s, r.color) /\ r.color[i] = "black"
       /\ \A x \in DOMAIN s : (r.color[x] = "gray" <=> color[x] = "gray")
                               /\ (r.color[x] = "white" => color[x] = "white")

\* The search from i when k of its causes have been followed.
Follows(s, i, color, l, k, r) ==
  /\ r.found => HasLoop(s)
  /\ ~r.found =>
       /\ Settled(s, r.color)
       /\ \A x \in DOMAIN s : (r.color[x] = "gray" <=> color[x] = "gray" \/ x = i)
                               /\ (r.color[x] = "white" => color[x] = "white" /\ x # i)
       /\ \A m \in 1..k : l[m] # 0 => r.color[l[m]] = "black"

LEMMA FollowKeeps ==
  ASSUME NEW n \in Nat, NEW links \in Seq(Seq(0..n)), Len(links) = n, NEW s, s = Succ(links),
         NEW i \in 1..n, NEW color \in Colorings(links), NEW d \in Nat, Enters(s, i, color, d + 1),
         NEW W \in [1..n -> [Colorings(links) -> Results(links)]],
         \A j \in 1..n, c \in Colorings(links) : Enters(s, j, c, d) => Returns(s, j, c, W[j][c]),
         NEW l, l = links[i], NEW k \in Nat, k + 1 \in 1..Len(l),
         NEW r \in Results(links), Follows(s, i, color, l, k, r),
         NEW j, j = l[k + 1], NEW q, q = FollowStep(W, r, j)
  PROVE  Follows(s, i, color, l, k + 1, q)
  <1>1. /\ Colorings(links) = [1..n -> {"white", "gray", "black"}]
        /\ s \in [1..n -> SUBSET (1..n)] /\ j \in 0..n /\ (j # 0 => j \in s[i]) /\ DOMAIN s = 1..n
    <2>1. j \in 0..n /\ Colorings(links) = [1..n -> {"white", "gray", "black"}]
      BY LinkFacts
    <2>2. s \in [1..n -> SUBSET (1..n)]
      BY SuccFacts
    <2>3. j # 0 => j \in s[i]
      BY SuccFacts DEF Leads
    <2>4. DOMAIN s = 1..n
      BY <2>2
    <2> QED BY <2>1, <2>2, <2>3, <2>4
  <1>2. r.found \in BOOLEAN /\ r.color \in Colorings(links)
    BY DEF Results
  <1>3. \A m \in 1..(k + 1) : m \in 1..k \/ m = k + 1
    OBVIOUS
  <1>9. j # 0 => j \in 1..n /\ j \in Reached(s, i)
    <2>1. s[i] \subseteq Reached(s, i)
      BY <1>1, ReachedDirectly, Zenon
    <2> QED BY <1>1, <2>1
  <1>10. \A x \in 1..n : \A y \in Reached(s, x) : y \in 1..n /\ Reached(s, y) \subseteq Reached(s, x)
    BY <1>1, ReachedFurther, Zenon
  <1>4. CASE r.found
    <2>1. q = r
      BY <1>4 DEF FollowStep
    <2> QED BY <1>4, <2>1 DEF Follows
  <1>5. CASE ~r.found /\ j = 0
    <2>1. q = r
      BY <1>5 DEF FollowStep
    <2>2. \A m \in 1..(k + 1) : l[m] # 0 => r.color[l[m]] = "black"
      BY <1>3, <1>5 DEF Follows
    <2> QED BY <1>5, <2>1, <2>2, Zenon DEF Follows
  <1>6. CASE ~r.found /\ j # 0 /\ r.color[j] = "gray"
    <2>1. q = [r EXCEPT !.found = TRUE]
      BY <1>6, Zenon DEF FollowStep
    <2>2. q.found = TRUE
      BY <2>1 DEF Results
    <2>3. j \in 1..n /\ j \in Reached(s, i)
      BY <1>6, <1>9
    <2>4. color[j] = "gray" \/ j = i
      BY <1>1, <1>6, <2>3 DEF Follows
    <2>5. j = i \/ i \in Reached(s, j)
      BY <1>1, <2>3, <2>4 DEF Enters
    <2>6. i \in Reached(s, i)
      BY <2>3, <2>5, <1>10
    <2>7. HasLoop(s)
      BY <1>1, <2>6 DEF HasLoop
    <2> QED BY <2>2, <2>7 DEF Follows
  <1>7. CASE ~r.found /\ j # 0 /\ r.color[j] = "white"
    <2>1. q = W[j][r.color] /\ j \in 1..n /\ j \in Reached(s, i) /\ r.color[j] # "gray"
      <3>1. q = W[j][r.color]
        BY <1>7 DEF FollowStep
      <3> QED BY <1>7, <1>9, <3>1
    <2>2. \A x \in 1..n : (r.color[x] = "gray" <=> color[x] = "gray" \/ x = i)
                          /\ (r.color[x] = "white" => color[x] = "white" /\ x # i)
      BY <1>1, <1>7 DEF Follows
    <2>3. Cardinality(Whites(s, r.color)) <= d
      <3>1. Whites(s, r.color) \subseteq Whites(s, color) \ {i} /\ Whites(s, color) \subseteq 1..n /\ i \in Whites(s, color)
        BY <1>1, <2>2 DEF Whites, Enters
      <3>2. IsFiniteSet(Whites(s, color))
        <4>1. IsFiniteSet(1..n)
          BY FS_Interval
        <4> QED BY <3>1, <4>1, FS_Subset, Zenon
      <3>3. IsFiniteSet(Whites(s, color) \ {i}) /\ Cardinality(Whites(s, color) \ {i}) = Cardinality(Whites(s, color)) - 1
        BY <3>1, <3>2, FS_RemoveElement
      <3>4. Cardinality(Whites(s, r.color)) <= Cardinality(Whites(s, color) \ {i}) /\ IsFiniteSet(Whites(s, r.color))
        BY <3>1, <3>3, FS_Subset
      <3>5. Cardinality(Whites(s, color)) \in Nat /\ Cardinality(Whites(s, r.color)) \in Nat
        BY <3>2, <3>4, FS_CardinalityType
      <3>6. Cardinality(Whites(s, color)) <= d + 1
        BY DEF Enters
      <3>7. PICK a, b, c : a \in Nat /\ b \in Nat /\ a = Cardinality(Whites(s, color)) /\ b = Cardinality(Whites(s, r.color))
                                           /\ c = Cardinality(Whites(s, color) \ {i})
        BY <3>5, Zenon
      <3>8. c = a - 1 /\ b <= c /\ a <= d + 1
        BY <3>3, <3>4, <3>6, <3>7, Zenon
      <3>9. b <= d
        <4>1. a \in Nat /\ b \in Nat
          BY <3>7
        <4> QED BY <3>8, <4>1
      <3> QED BY <3>7, <3>9, Zenon
    <2>4. ASSUME NEW g \in 1..n, r.color[g] = "gray" PROVE j \in Reached(s, g)
      <3>1. g = i \/ i \in Reached(s, g)
        BY <1>1, <2>2, <2>4 DEF Enters
      <3> QED BY <1>10, <2>1, <3>1
    <2>5. Enters(s, j, r.color, d)
      BY <1>1, <1>7, <2>3, <2>4 DEF Enters, Follows
    <2>6. Returns(s, j, r.color, q)
      BY <1>2, <2>1, <2>5
    <2>7. CASE q.found
      BY <2>6, <2>7 DEF Returns, Follows
    <2>8. CASE ~q.found
      <3>1. /\ Settled(s, q.color) /\ q.color[j] = "black"
            /\ \A x \in 1..n : (q.color[x] = "gray" <=> r.color[x] = "gray")
                               /\ (q.color[x] = "white" => r.color[x] = "white")
        BY <1>1, <2>6, <2>8 DEF Returns
      <3>2. q \in Results(links)
        BY <1>2, <2>1
      <3>3. q.color \in [1..n -> {"white", "gray", "black"}]
        BY <1>1, <3>2 DEF Results
      <3>4. \A x \in 1..n : r.color[x] = "black" => q.color[x] = "black"
        BY <3>1, <3>3
      <3>5. ASSUME NEW m \in 1..(k + 1), l[m] # 0 PROVE q.color[l[m]] = "black"
        <4>1. CASE m = k + 1
          BY <3>1, <4>1
        <4>2. CASE m # k + 1
          <5>1. m \in 1..k /\ m \in 1..Len(links[i])
            BY <4>2
          <5>2. l[m] \in 1..n
            BY <3>5, <5>1, LinkFacts
          <5> QED BY <1>7, <3>4, <3>5, <5>1, <5>2 DEF Follows
        <4> QED BY <4>1, <4>2
      <3>6. \A x \in 1..n : (q.color[x] = "gray" <=> color[x] = "gray" \/ x = i)
                            /\ (q.color[x] = "white" => color[x] = "white" /\ x # i)
        BY <2>2, <3>1
      <3> QED BY <1>1, <2>8, <3>1, <3>5, <3>6, Zenon DEF Follows
    <2> QED BY <2>7, <2>8
  <1>8. CASE ~r.found /\ j # 0 /\ r.color[j] # "white" /\ r.color[j] # "gray"
    <2>1. q = r
      BY <1>8 DEF FollowStep
    <2>2. r.color[j] = "black"
      BY <1>1, <1>2, <1>8
    <2>3. \A m \in 1..(k + 1) : l[m] # 0 => r.color[l[m]] = "black"
      BY <1>3, <1>8, <2>2 DEF Follows
    <2> QED BY <1>8, <2>1, <2>3, Zenon DEF Follows
  <1> QED BY <1>2, <1>4, <1>5, <1>6, <1>7, <1>8, Zenon

LEMMA VisitKeeps ==
  ASSUME NEW n \in Nat, NEW links \in Seq(Seq(0..n)), Len(links) = n, NEW s, s = Succ(links),
         NEW i \in 1..n, NEW color \in Colorings(links), NEW d \in Nat, Enters(s, i, color, d + 1),
         NEW W \in Calls(links),
         \A j \in 1..n, c \in Colorings(links) : Enters(s, j, c, d) => Returns(s, j, c, W[j][c]),
         NEW q, q = VisitOf(links, W)[i][color]
  PROVE  Returns(s, i, color, q)
  <1>1. /\ Colorings(links) = [1..n -> {"white", "gray", "black"}] /\ DOMAIN links = 1..n
        /\ s \in [1..n -> SUBSET (1..n)] /\ DOMAIN s = 1..n
    <2>1. s \in [1..n -> SUBSET (1..n)]
      BY SuccFacts
    <2> QED BY <2>1, LinkFacts
  <1>2. W \in [1..n -> [Colorings(links) -> Results(links)]]
    BY <1>1, Zenon DEF Calls
  <1>3. PICK l, L, F : l = links[i] /\ L = Len(l) /\ F = FollowFn(links, i, color, W)
    OBVIOUS
  <1>4. L \in Nat
    BY <1>3, LinkFacts
  <1>5. /\ F \in [0..L -> Results(links)]
        /\ F[0] = [found |-> FALSE, color |-> [color EXCEPT ![i] = "gray"]]
        /\ \A k \in 1..L : F[k] = FollowStep(W, F[k - 1], links[i][k])
    <2>1. L = Len(links[i])
      BY <1>3
    <2>2. F = FollowFn(links, i, color, W)
      BY <1>3
    <2>3. FollowRuns(links, i, color, W, L, F)
      BY <1>2, <2>1, <2>2, FollowFnIs
    <2> QED BY <2>3, Zenon DEF FollowRuns
  <1> DEFINE G == {k \in 0..L : Follows(s, i, color, l, k, F[k])}
  <1>6. 0 \in G
    <2>1. PICK r : r = F[0]
      OBVIOUS
    <2>2. r.found = FALSE /\ r.color = [color EXCEPT ![i] = "gray"]
      BY <1>5, <2>1
    <2>3. r.color[i] = "gray" /\ \A x \in 1..n : x # i => r.color[x] = color[x]
      BY <1>1, <2>2
    <2>4. color[i] = "white" /\ Settled(s, color)
      BY DEF Enters
    <2>5. \A x \in 1..n : r.color[x] = "black" <=> color[x] = "black"
      BY <2>3, <2>4
    <2>6. Settled(s, r.color)
      BY <1>1, <2>4, <2>5 DEF Settled
    <2>7. \A x \in 1..n : (r.color[x] = "gray" <=> color[x] = "gray" \/ x = i)
                          /\ (r.color[x] = "white" => color[x] = "white" /\ x # i)
      BY <2>3, <2>4
    <2>8. \A m \in 1..0 : l[m] # 0 => r.color[l[m]] = "black"
      OBVIOUS
    <2>9. Follows(s, i, color, l, 0, r)
      BY <1>1, <2>2, <2>6, <2>7, <2>8, Zenon DEF Follows
    <2> QED BY <1>4, <2>1, <2>9
  <1>7. ASSUME NEW k \in 0..L, k < L, k \in G PROVE k + 1 \in G
    <2>1. k \in Nat /\ k + 1 \in 1..L /\ (k + 1) - 1 = k /\ k + 1 \in 0..L
      <3> HIDE DEF G
      <3> QED BY <1>4, <1>7
    <2>2. PICK r \in Results(links) : r = F[k]
      BY <1>5
    <2>3. Follows(s, i, color, l, k, r)
      BY <1>7, <2>2
    <2>4. PICK j, p : j = l[k + 1] /\ p = FollowStep(W, r, j)
      OBVIOUS
    <2>5. F[k + 1] = p
      BY <1>3, <1>5, <2>1, <2>2, <2>4
    <2>6. Follows(s, i, color, l, k + 1, p)
      <3> HIDE DEF G
      <3> QED BY <1>2, <1>3, <2>1, <2>2, <2>3, <2>4, FollowKeeps
    <2> QED BY <2>1, <2>5, <2>6
  <1>8. Follows(s, i, color, l, L, F[L])
    <2>1. \A k \in 0..L : k \in G
      <3> HIDE DEF G
      <3> QED BY <1>4, <1>6, <1>7, AllUpTo
    <2>2. L \in 0..L
      BY <1>4
    <2> QED BY <2>1, <2>2
  <1> HIDE DEF G
  <1>9. PICK r \in Results(links) : r = F[L]
    <2>1. L \in 0..L
      BY <1>4
    <2> QED BY <1>5, <2>1, Zenon
  <1>10. q = Leave(i, r)
    <2>1. q = Leave(i, F[L])
      BY <1>3, VisitOfType
    <2> QED BY <1>9, <2>1
  <1>11. CASE r.found
    <2>1. q = r
      BY <1>10, <1>11 DEF Leave
    <2> QED BY <1>8, <1>9, <1>11, <2>1 DEF Follows, Returns
  <1>12. CASE ~r.found
    <2>1. q = [r EXCEPT !.color[i] = "black"]
      BY <1>10, <1>12 DEF Leave
    <2>2. r.color \in [1..n -> {"white", "gray", "black"}] /\ r.found = FALSE
      BY <1>1, <1>9, <1>12 DEF Results
    <2>3. q.found = FALSE /\ q.color = [r.color EXCEPT ![i] = "black"]
      BY <2>1, <2>2 DEF Results
    <2>4. q.color[i] = "black" /\ \A x \in 1..n : x # i => q.color[x] = r.color[x]
      BY <2>2, <2>3
    <2>5. /\ Settled(s, r.color)
          /\ \A x \in 1..n : (r.color[x] = "gray" <=> color[x] = "gray" \/ x = i)
                             /\ (r.color[x] = "white" => color[x] = "white" /\ x # i)
          /\ \A m \in 1..L : l[m] # 0 => r.color[l[m]] = "black"
      BY <1>1, <1>8, <1>9, <1>12 DEF Follows
    <2>6. \A y \in s[i] : y \in 1..n /\ r.color[y] = "black"
      <3> SUFFICES ASSUME NEW y \in s[i] PROVE y \in 1..n /\ r.color[y] = "black"
        OBVIOUS
      <3>0. Leads(s, links, i, y)
        BY SuccFacts
      <3>1. PICK k \in 1..Len(links[i]) : links[i][k] = y /\ y # 0
        BY <3>0, Zenon DEF Leads
      <3>2. y \in 1..n
        BY <1>1
      <3> QED BY <1>3, <2>5, <3>1, <3>2
    <2> DEFINE B == {x \in 1..n : r.color[x] = "black"}
    <2>7. i \notin Reached(s, i)
      <3>1. B \in SUBSET (1..n) /\ s[i] \subseteq B
        BY <2>6
      <3>2. \A z \in B : s[z] \subseteq B
        BY <1>1, <2>5 DEF Settled
      <3>3. i \notin B
        BY <2>5
      <3>4. Reached(s, i) \subseteq B
        <4> HIDE DEF B
        <4> QED BY <1>1, <3>1, <3>2, ReachedWithin, Zenon
      <3> QED BY <3>3, <3>4
    <2>8. Settled(s, q.color)
      <3> SUFFICES ASSUME NEW x \in 1..n, q.color[x] = "black"
                   PROVE  x \notin Reached(s, x) /\ \A y \in s[x] : q.color[y] = "black"
        BY <1>1 DEF Settled
      <3>1. \A y \in 1..n : r.color[y] = "black" => q.color[y] = "black"
        BY <2>4
      <3>2. CASE x = i
        BY <2>6, <2>7, <3>1, <3>2
      <3>3. CASE x # i
        <4>1. r.color[x] = "black"
          BY <2>4, <3>3
        <4>2. x \notin Reached(s, x) /\ \A y \in s[x] : r.color[y] = "black"
          BY <1>1, <2>5, <4>1 DEF Settled
        <4>3. \A y \in s[x] : y \in 1..n
          BY <1>1
        <4> QED BY <3>1, <4>2, <4>3
      <3> QED BY <3>2, <3>3
    <2>9. color[i] = "white"
      BY DEF Enters
    <2>10. \A x \in 1..n : (q.color[x] = "gray" <=> color[x] = "gray") /\ (q.color[x] = "white" => color[x] = "white")
      <3> SUFFICES ASSUME NEW x \in 1..n
                   PROVE  (q.color[x] = "gray" <=> color[x] = "gray") /\ (q.color[x] = "white" => color[x] = "white")
        OBVIOUS
      <3>1. CASE x = i
        BY <2>4, <2>9, <3>1
      <3>2. CASE x # i
        BY <2>4, <2>5, <3>2
      <3> QED BY <3>1, <3>2
    <2> QED BY <1>1, <2>3, <2>4, <2>8, <2>10, Zenon DEF Returns
  <1> QED BY <1>11, <1>12

LEMMA VisitRight ==
  ASSUME NEW n \in Nat, NEW links \in Seq(Seq(0..n)), Len(links) = n, NEW s, s = Succ(links),
         NEW V, V = VisitFn(links)
  PROVE  \A d \in 0..n : \A i \in 1..n, c \in Colorings(links) : Enters(s, i, c, d) => Returns(s, i, c, V[d][i][c])
  <1>1. V \in [0..n -> Calls(links)] /\ \A d \in 1..n : V[d] = VisitOf(links, V[d - 1])
    BY VisitFnIs
  <1>2. DOMAIN s = 1..n
    <2>1. s \in [1..n -> SUBSET (1..n)]
      BY SuccFacts
    <2> QED BY <2>1
  <1> DEFINE Right(d) == \A i \in 1..n, c \in Colorings(links) : Enters(s, i, c, d) => Returns(s, i, c, V[d][i][c])
             G == {d \in 0..n : Right(d)}
  <1>3. 0 \in G
    <2>1. ASSUME NEW i \in 1..n, NEW c \in Colorings(links), Enters(s, i, c, 0) PROVE FALSE
      <3>1. i \in Whites(s, c) /\ Whites(s, c) \subseteq 1..n /\ Cardinality(Whites(s, c)) <= 0
        BY <1>2, <2>1 DEF Enters, Whites
      <3>2. IsFiniteSet(1..n)
        BY FS_Interval
      <3>3. IsFiniteSet(Whites(s, c))
        BY <3>1, <3>2, FS_Subset, Zenon
      <3>4. Cardinality(Whites(s, c)) \in Nat /\ Cardinality(Whites(s, c)) # 0
        BY <3>1, <3>3, FS_CardinalityType, FS_EmptySet
      <3> QED BY <3>1, <3>4
    <2>2. Right(0)
      BY <2>1, Zenon
    <2> QED BY <2>2
  <1>4. ASSUME NEW d \in 0..n, d < n, d \in G PROVE d + 1 \in G
    <2>1. d \in Nat /\ d + 1 \in 1..n /\ (d + 1) - 1 = d /\ d + 1 \in 0..n
      <3> HIDE DEF G
      <3> QED BY <1>4
    <2>2. Right(d)
      BY <1>4
    <2>3. PICK W \in Calls(links) : W = V[d]
      BY <1>1
    <2>4. V[d + 1] = VisitOf(links, W)
      BY <1>1, <2>1, <2>3
    <2>5. ASSUME NEW i \in 1..n, NEW c \in Colorings(links), Enters(s, i, c, d + 1)
          PROVE  Returns(s, i, c, V[d + 1][i][c])
      <3>1. PICK q : q = VisitOf(links, W)[i][c]
        OBVIOUS
      <3>2. \A j \in 1..n, b \in Colorings(links) : Enters(s, j, b, d) => Returns(s, j, b, W[j][b])
        BY <2>2, <2>3, Zenon
      <3> HIDE DEF G, Right
      <3>3. Returns(s, i, c, q)
        BY <2>1, <2>5, <3>1, <3>2, VisitKeeps
      <3> QED BY <2>4, <3>1, <3>3, Zenon
    <2>6. Right(d + 1)
      BY <2>5, Zenon
    <2> QED BY <2>1, <2>6
  <1>5. \A d \in 0..n : d \in G
    <2> HIDE DEF G
    <2> QED BY <1>3, <1>4, AllUpTo
  <1> QED BY <1>5, Zenon

\* verify_causal's search finds a cycle if and only if there is one.
LEMMA SearchExact ==
  ASSUME NEW n \in Nat, NEW links \in Seq(Seq(0..n)), Len(links) = n
  PROVE  Cyclic(links) <=> ~Acyclic(Succ(links))
  <1>1. PICK s : s = Succ(links)
    OBVIOUS
  <1>2. s \in [1..n -> SUBSET (1..n)] /\ DOMAIN s = 1..n
    <2>1. s \in [1..n -> SUBSET (1..n)]
      BY <1>1, SuccFacts
    <2> QED BY <2>1
  <1>3. PICK V : V = VisitFn(links)
    OBVIOUS
  <1>4. V \in [0..n -> Calls(links)]
    BY <1>3, VisitFnIs
  <1>5. Colorings(links) = [1..n -> {"white", "gray", "black"}] /\ DOMAIN links = 1..n
    BY LinkFacts
  <1>6. PICK C, R, W : C = Colorings(links) /\ R = Results(links) /\ W = V[n]
    OBVIOUS
  <1>7. W \in [1..n -> [C -> R]]
    <2>1. n \in 0..n
      OBVIOUS
    <2>2. W \in Calls(links)
      BY <1>4, <1>6, <2>1
    <2> QED BY <1>5, <1>6, <2>2, Zenon DEF Calls
  <1>8. \A i \in 1..n, c \in C : Enters(s, i, c, n) => Returns(s, i, c, W[i][c])
    <2>1. n \in 0..n
      OBVIOUS
    <2>2. \A d \in 0..n : \A i \in 1..n, c \in Colorings(links) : Enters(s, i, c, d) => Returns(s, i, c, V[d][i][c])
      BY <1>1, <1>3, VisitRight
    <2> QED BY <1>6, <2>1, <2>2, Zenon
  <1>9. HasCycle(links)[Len(links)] = W
    BY <1>3, <1>6, HasCycleIs, Zenon
  <1> DEFINE St(x, i) == IF x.found \/ x.color[i] # "white" THEN x ELSE W[i][x.color]
             b == [found |-> FALSE, color |-> [x \in 1..n |-> "white"]]
             st == [p \in (1..n) \X R |-> St(p[2], p[1])]
  <1>10. \A i, x : SeenStep(links, x, i) = St(x, i)
    BY <1>9 DEF SeenStep
  <1>11. b \in R
    <2>1. [x \in 1..n |-> "white"] \in C
      BY <1>5, <1>6
    <2> QED BY <1>6, <2>1 DEF Results
  <1>12. ASSUME NEW i \in 1..n, NEW x \in R PROVE St(x, i) \in R
    <2>1. x.color \in C
      BY <1>6 DEF Results
    <2> QED BY <1>7, <2>1
  <1>13. st \in [(1..n) \X R -> R] /\ \A i \in 1..n, x \in R : st[<<i, x>>] = St(x, i)
    <2> HIDE DEF St
    <2> QED BY <1>12
  <1> HIDE DEF st, b, St
  <1>14. PICK g : Solves(g, n, R, b, st)
    BY <1>11, <1>13, Iterated, Zenon
  <1>15. \A f : SeenBody(links, f, 0) = b
    BY <1>5 DEF SeenBody, b
  <1>16. \A f : \A i \in 1..n : SeenBody(links, f, i) = St(f[i - 1], i)
    BY <1>10 DEF SeenBody
  <1>17. ASSUME NEW i \in 0..n PROVE g[i] = SeenBody(links, g, i)
    <2>1. CASE i = 0
      BY <1>14, <1>15, <2>1 DEF Solves
    <2>2. CASE i # 0
      <3>1. i \in 1..n /\ i - 1 \in 0..n
        BY <2>2
      <3>2. g[i - 1] \in R /\ g[i] = st[<<i, g[i - 1]>>]
        BY <1>14, <3>1 DEF Solves
      <3> QED BY <1>13, <1>16, <3>1, <3>2
    <2> QED BY <2>1, <2>2
  <1>18. PICK F : F = SeenFn(links)
    OBVIOUS
  <1>19. F = [i \in 0..Len(links) |-> SeenBody(links, F, i)]
    <2>1. g = [i \in 0..Len(links) |-> SeenBody(links, g, i)]
      BY <1>14, <1>17 DEF Solves
    <2> QED BY <1>18, <2>1, Zenon DEF SeenFn
  <1>20. \A i \in 0..n : F[i] = SeenBody(links, F, i)
    BY <1>19
  <1>21. F[0] = b /\ \A i \in 1..n : F[i] = St(F[i - 1], i)
    <2>1. 0 \in 0..n /\ \A i \in 1..n : i \in 0..n
      OBVIOUS
    <2> QED BY <1>15, <1>16, <1>20, <2>1, Zenon
  <1> DEFINE Good(x, i) ==
               /\ x \in R
               /\ x.found => HasLoop(s)
               /\ ~x.found => Settled(s, x.color) /\ \A y \in 1..n : x.color[y] # "gray" /\ (y <= i => x.color[y] = "black")
             G == {i \in 0..n : Good(F[i], i)}
  <1>22. 0 \in G
    <2>1. b.found = FALSE /\ \A y \in 1..n : b.color[y] = "white"
      BY DEF b
    <2>2. Settled(s, b.color)
      BY <1>2, <2>1 DEF Settled
    <2>3. \A y \in 1..n : ~(y <= 0)
      OBVIOUS
    <2>4. Good(b, 0)
      BY <1>11, <2>1, <2>2, <2>3
    <2> QED BY <1>21, <2>4
  <1>23. ASSUME NEW i \in 0..n, i < n, i \in G PROVE i + 1 \in G
    <2>1. i + 1 \in 1..n /\ (i + 1) - 1 = i /\ i + 1 \in 0..n
      <3> HIDE DEF G
      <3> QED BY <1>23
    <2>2. PICK x, q : x = F[i] /\ q = F[i + 1]
      OBVIOUS
    <2>3. Good(x, i) /\ q = St(x, i + 1)
      BY <1>21, <1>23, <2>1, <2>2
    <2>4. \A y \in 1..n : y <= i + 1 => y <= i \/ y = i + 1
      OBVIOUS
    <2>5. CASE x.found
      <3>1. q = x
        BY <2>3, <2>5 DEF St
      <3> QED BY <2>1, <2>2, <2>3, <2>5, <3>1
    <2>6. CASE ~x.found /\ x.color[i + 1] # "white"
      <3>1. q = x
        BY <2>3, <2>6 DEF St
      <3>2. x.color \in [1..n -> {"white", "gray", "black"}]
        BY <1>5, <1>6, <2>3 DEF Results
      <3>3. x.color[i + 1] = "black"
        BY <2>1, <2>3, <2>6, <3>2
      <3>4. Good(q, i + 1)
        BY <2>3, <2>4, <2>6, <3>1, <3>3
      <3> QED BY <2>1, <2>2, <3>4
    <2>7. CASE ~x.found /\ x.color[i + 1] = "white"
      <3>1. q = W[i + 1][x.color]
        BY <2>3, <2>7 DEF St
      <3>2. x.color \in C /\ x.color \in [1..n -> {"white", "gray", "black"}]
        BY <1>5, <1>6, <2>3 DEF Results
      <3>3. Cardinality(Whites(s, x.color)) <= n
        <4>1. Whites(s, x.color) \subseteq 1..n
          BY <1>2 DEF Whites
        <4>2. IsFiniteSet(1..n) /\ Cardinality(1..n) = n
          BY FS_Interval
        <4>3. Cardinality(Whites(s, x.color)) <= Cardinality(1..n)
          BY <4>1, <4>2, FS_Subset, Zenon
        <4> QED BY <4>2, <4>3
      <3>4. Enters(s, i + 1, x.color, n)
        BY <1>2, <2>3, <2>7, <3>3 DEF Enters
      <3>5. Returns(s, i + 1, x.color, q)
        BY <1>8, <2>1, <3>1, <3>2, <3>4
      <3>6. q \in R
        BY <1>7, <2>1, <3>1, <3>2
      <3>7. CASE q.found
        BY <2>1, <2>2, <3>5, <3>6, <3>7 DEF Returns
      <3>8. CASE ~q.found
        <4>1. /\ Settled(s, q.color) /\ q.color[i + 1] = "black"
              /\ \A y \in 1..n : (q.color[y] = "gray" <=> x.color[y] = "gray")
                                  /\ (q.color[y] = "white" => x.color[y] = "white")
          BY <1>2, <3>5, <3>8 DEF Returns
        <4>2. q.color \in [1..n -> {"white", "gray", "black"}]
          BY <1>5, <1>6, <3>6 DEF Results
        <4>3. ASSUME NEW y \in 1..n PROVE q.color[y] # "gray" /\ (y <= i + 1 => q.color[y] = "black")
          <5>1. x.color[y] # "gray" /\ (y <= i => x.color[y] = "black")
            BY <2>3, <2>7
          <5>2. q.color[y] \in {"white", "gray", "black"}
            BY <4>2
          <5> QED BY <2>4, <4>1, <5>1, <5>2
        <4>4. Good(q, i + 1)
          BY <3>6, <3>8, <4>1, <4>3
        <4> QED BY <2>1, <2>2, <4>4
      <3> QED BY <3>7, <3>8
    <2> QED BY <2>5, <2>6, <2>7
  <1>24. Good(F[n], n)
    <2>1. \A i \in 0..n : i \in G
      <3> HIDE DEF G
      <3> QED BY <1>22, <1>23, AllUpTo
    <2>2. n \in 0..n
      OBVIOUS
    <2> QED BY <2>1, <2>2
  <1>25. Cyclic(links) <=> F[n].found
    BY <1>18, CyclicIs, Zenon
  <1>26. F[n].found => ~Acyclic(s)
    BY <1>24 DEF HasLoop, Acyclic
  <1>27. ~F[n].found => Acyclic(s)
    <2> SUFFICES ASSUME ~F[n].found, NEW x \in 1..n PROVE x \notin Reached(s, x)
      BY <1>2 DEF Acyclic
    <2>1. Settled(s, F[n].color) /\ F[n].color[x] = "black"
      BY <1>24
    <2> QED BY <1>2, <2>1 DEF Settled
  <1> QED BY <1>1, <1>25, <1>26, <1>27

(***************************************************************************)
(* From places in a list to ids                                            *)
(***************************************************************************)
\* Reachability does not depend on what the nodes are called.
LEMMA ReachedRenamed ==
  ASSUME NEW A, NEW B, NEW s \in [A -> SUBSET A], NEW t \in [B -> SUBSET B], NEW h \in [A -> B],
         \A x, y \in A : h[x] = h[y] => x = y, \A b \in B : \E x \in A : h[x] = b,
         \A x, y \in A : h[y] \in t[h[x]] <=> y \in s[x]
  PROVE  /\ \A x, y \in A : y \in Reached(s, x) <=> h[y] \in Reached(t, h[x])
         /\ Acyclic(s) <=> Acyclic(t)
  <1>1. ASSUME NEW x \in A, NEW y \in A, h[y] \in Reached(t, h[x]) PROVE y \in Reached(s, x)
    <2> SUFFICES ASSUME NEW S \in SUBSET A, s[x] \subseteq S, \A z \in S : s[z] \subseteq S PROVE y \in S
      BY DEF Reached
    <2> DEFINE T == {h[z] : z \in S}
    <2>1. T \in SUBSET B
      OBVIOUS
    <2>2. ASSUME NEW u \in A, s[u] \subseteq S PROVE t[h[u]] \subseteq T
      <3> SUFFICES ASSUME NEW b \in t[h[u]] PROVE b \in T
        OBVIOUS
      <3>1. b \in B
        OBVIOUS
      <3>2. PICK v \in A : h[v] = b
        BY <3>1
      <3>3. v \in S
        BY <2>2, <3>2
      <3> QED BY <3>2, <3>3
    <2>3. t[h[x]] \subseteq T
      BY <2>2
    <2>4. ASSUME NEW b \in T PROVE t[b] \subseteq T
      <3>1. PICK z \in S : b = h[z]
        OBVIOUS
      <3>2. z \in A /\ s[z] \subseteq S
        OBVIOUS
      <3>3. t[h[z]] \subseteq T
        BY <2>2, <3>2
      <3> QED BY <3>1, <3>3
    <2> HIDE DEF T
    <2>5. h[y] \in T
      BY <1>1, <2>1, <2>3, <2>4 DEF Reached
    <2>6. PICK z \in S : h[z] = h[y]
      BY <2>5 DEF T
    <2> QED BY <2>6
  <1>2. ASSUME NEW x \in A, NEW y \in A, y \in Reached(s, x) PROVE h[y] \in Reached(t, h[x])
    <2> SUFFICES ASSUME NEW T \in SUBSET B, t[h[x]] \subseteq T, \A b \in T : t[b] \subseteq T PROVE h[y] \in T
      BY DEF Reached
    <2> DEFINE S == {z \in A : h[z] \in T}
    <2>1. S \in SUBSET A /\ s[x] \subseteq S
      OBVIOUS
    <2>2. \A z \in S : s[z] \subseteq S
      OBVIOUS
    <2> HIDE DEF S
    <2>3. y \in S
      BY <1>2, <2>1, <2>2 DEF Reached
    <2> QED BY <2>3 DEF S
  <1>3. Acyclic(s) <=> Acyclic(t)
    <2>1. DOMAIN s = A /\ DOMAIN t = B
      OBVIOUS
    <2>2. ASSUME Acyclic(s), NEW b \in B PROVE b \notin Reached(t, b)
      <3>1. PICK x \in A : h[x] = b
        OBVIOUS
      <3> QED BY <1>1, <2>1, <2>2, <3>1 DEF Acyclic
    <2>3. ASSUME Acyclic(t), NEW x \in A PROVE x \notin Reached(s, x)
      <3>1. h[x] \in B
        OBVIOUS
      <3> QED BY <1>2, <2>1, <2>3, <3>1 DEF Acyclic
    <2> QED BY <2>1, <2>2, <2>3, Zenon DEF Acyclic
  <1> QED BY <1>1, <1>2, <1>3, Zenon

\* A list of objects, each with its own id.
Graph(ns, n) ==
  /\ DOMAIN ns = 1..n /\ Len(ns) = n
  /\ \A i \in 1..n : \E U : ns[i].causes \in Seq(U)
  /\ \A i, j \in 1..n : ns[i].id = ns[j].id => i = j

LEMMA MaxIs ==
  ASSUME NEW S \in SUBSET Int, NEW m \in S, \A y \in S : m >= y
  PROVE  Max(S) = m
  <1>1. \A x \in S : (\A y \in S : x >= y) => x = m
    BY Z3
  <1> QED BY <1>1, Zenon DEF Max

LEMMA IdxIs ==
  ASSUME NEW n \in Nat, NEW ns, Graph(ns, n), NEW i \in 1..n
  PROVE  Idx(ns, ns[i].id) = i /\ ns[i].id \in IdsOf(ns)
  <1>1. DOMAIN ns = 1..n
    BY DEF Graph
  <1>2. {j \in DOMAIN ns : ns[j].id = ns[i].id} = {i}
    BY <1>1 DEF Graph
  <1>3. Max({i}) = i
    BY MaxIs
  <1>4. Idx(ns, ns[i].id) = i
    BY <1>2, <1>3, Zenon DEF Idx
  <1> QED BY <1>1, <1>4 DEF IdsOf

LEMMA LinksAre ==
  ASSUME NEW n \in Nat, NEW ns, Graph(ns, n), NEW l, l = Links(ns)
  PROVE  /\ l \in Seq(Seq(0..n)) /\ Len(l) = n
         /\ \A i \in 1..n : DOMAIN l[i] = 1..Len(ns[i].causes) /\ Len(l[i]) = Len(ns[i].causes)
         /\ \A i, y \in 1..n : \A k \in DOMAIN l[i] : l[i][k] = y <=> ns[i].causes[k] = ns[y].id
         /\ \A i, y \in 1..n : y \in Succ(l)[i] <=> ns[y].id \in ToSet(ns[i].causes)
  <1>1. DOMAIN ns = 1..n /\ Len(ns) = n
    BY DEF Graph
  <1>2. ASSUME NEW i \in 1..n, NEW c, c \in IdsOf(ns) PROVE \E y \in 1..n : ns[y].id = c /\ Idx(ns, c) = y
    <2>1. PICK y \in 1..n : ns[y].id = c
      BY <1>1, <1>2 DEF IdsOf
    <2> QED BY <2>1, IdxIs
  <1>3. l = [i \in 1..n |-> [k \in DOMAIN ns[i].causes |-> IF ns[i].causes[k] \in IdsOf(ns) THEN Idx(ns, ns[i].causes[k]) ELSE 0]]
    BY <1>1, Zenon DEF Links
  <1>4. ASSUME NEW i \in 1..n
        PROVE  /\ l[i] \in Seq(0..n) /\ DOMAIN l[i] = 1..Len(ns[i].causes) /\ Len(l[i]) = Len(ns[i].causes)
               /\ DOMAIN ns[i].causes = DOMAIN l[i]
               /\ \A k \in DOMAIN l[i] : l[i][k] = IF ns[i].causes[k] \in IdsOf(ns) THEN Idx(ns, ns[i].causes[k]) ELSE 0
    <2>1. PICK U, c : c = ns[i].causes /\ c \in Seq(U)
      BY DEF Graph
    <2>2. PICK L \in Nat : L = Len(c) /\ DOMAIN c = 1..L
      BY <2>1
    <2>3. PICK r : r = l[i]
      OBVIOUS
    <2>4. r = [k \in 1..L |-> IF c[k] \in IdsOf(ns) THEN Idx(ns, c[k]) ELSE 0]
      BY <1>3, <2>1, <2>2, <2>3
    <2>5. \A k \in 1..L : r[k] \in 0..n
      <3> SUFFICES ASSUME NEW k \in 1..L PROVE r[k] \in 0..n
        OBVIOUS
      <3>1. r[k] = IF c[k] \in IdsOf(ns) THEN Idx(ns, c[k]) ELSE 0
        BY <2>4
      <3>2. CASE c[k] \in IdsOf(ns)
        <4>1. PICK y \in 1..n : Idx(ns, c[k]) = y
          BY <1>2, <3>2
        <4> QED BY <3>1, <3>2, <4>1
      <3>3. CASE c[k] \notin IdsOf(ns)
        BY <3>1, <3>3
      <3> QED BY <3>2, <3>3
    <2>6. r \in [1..L -> 0..n]
      BY <2>4, <2>5
    <2>7. r \in Seq(0..n) /\ Len(r) = L /\ DOMAIN r = 1..L
      BY <2>6
    <2>8. \A k \in 1..L : r[k] = IF c[k] \in IdsOf(ns) THEN Idx(ns, c[k]) ELSE 0
      BY <2>4
    <2> QED BY <2>1, <2>2, <2>3, <2>7, <2>8, Zenon
  <1>5. l \in Seq(Seq(0..n)) /\ Len(l) = n
    <2>1. l \in [1..n -> Seq(0..n)]
      BY <1>3, <1>4
    <2> QED BY <2>1
  <1>6. ASSUME NEW i \in 1..n, NEW y \in 1..n, NEW k \in DOMAIN l[i]
        PROVE  l[i][k] = y <=> ns[i].causes[k] = ns[y].id
    <2>1. PICK c : c = ns[i].causes[k]
      OBVIOUS
    <2>2. l[i][k] = IF c \in IdsOf(ns) THEN Idx(ns, c) ELSE 0
      BY <1>4, <2>1
    <2>3. Idx(ns, ns[y].id) = y /\ ns[y].id \in IdsOf(ns)
      BY IdxIs
    <2>4. CASE c \in IdsOf(ns)
      <3>1. PICK z \in 1..n : ns[z].id = c /\ Idx(ns, c) = z
        BY <1>2, <2>4
      <3> QED BY <2>1, <2>2, <2>3, <2>4, <3>1
    <2>5. CASE c \notin IdsOf(ns)
      BY <2>1, <2>2, <2>3, <2>5
    <2> QED BY <2>4, <2>5
  <1>7. ASSUME NEW i \in 1..n, NEW y \in 1..n PROVE y \in Succ(l)[i] <=> ns[y].id \in ToSet(ns[i].causes)
    <2>1. y \in Succ(l)[i] <=> \E k \in 1..Len(l[i]) : l[i][k] = y
      <3>1. y \in Succ(l)[i] <=> \E k \in 1..Len(l[i]) : l[i][k] = y /\ y # 0
        <4>1. PICK s : s = Succ(l)
          OBVIOUS
        <4>2. \A a \in 1..n : \A b : Leads(s, l, a, b)
          BY <1>5, <4>1, SuccFacts
        <4> QED BY <4>1, <4>2, Zenon DEF Leads
      <3>2. y # 0
        OBVIOUS
      <3> QED BY <3>1, <3>2, Zenon
    <2>2. ns[y].id \in ToSet(ns[i].causes) <=> \E k \in DOMAIN l[i] : ns[i].causes[k] = ns[y].id
      BY <1>4, Zenon DEF ToSet
    <2>3. DOMAIN l[i] = 1..Len(l[i])
      BY <1>4
    <2>4. \A k \in DOMAIN l[i] : l[i][k] = y <=> ns[i].causes[k] = ns[y].id
      BY <1>6
    <2>5. (\E k \in DOMAIN l[i] : l[i][k] = y) <=> (\E k \in DOMAIN l[i] : ns[i].causes[k] = ns[y].id)
      BY <2>4, Zenon
    <2> QED BY <2>1, <2>2, <2>3, <2>5
  <1> QED BY <1>4, <1>5, <1>6, <1>7, Zenon

LEMMA CausesAre ==
  ASSUME NEW n \in Nat, NEW ns, Graph(ns, n), NEW t, t = CausesOf(ns)
  PROVE  /\ t \in [IdsOf(ns) -> SUBSET IdsOf(ns)]
         /\ \A i \in 1..n : t[ns[i].id] = ToSet(ns[i].causes) \cap IdsOf(ns)
  <1>1. DOMAIN ns = 1..n
    BY DEF Graph
  <1>2. \A c \in IdsOf(ns) :
          t[c] = UNION {ToSet(ns[j].causes) \cap IdsOf(ns) : j \in {j \in DOMAIN ns : ns[j].id = c}}
    BY Zenon DEF CausesOf
  <1>3. ASSUME NEW i \in 1..n PROVE t[ns[i].id] = ToSet(ns[i].causes) \cap IdsOf(ns)
    <2>1. ns[i].id \in IdsOf(ns)
      BY IdxIs
    <2>2. {j \in DOMAIN ns : ns[j].id = ns[i].id} = {i}
      BY <1>1 DEF Graph
    <2>3. t[ns[i].id] = UNION {ToSet(ns[j].causes) \cap IdsOf(ns) : j \in {i}}
      BY <1>2, <2>1, <2>2, Zenon
    <2>4. UNION {ToSet(ns[j].causes) \cap IdsOf(ns) : j \in {i}} = ToSet(ns[i].causes) \cap IdsOf(ns)
      BY Zenon
    <2> QED BY <2>3, <2>4, Zenon
  <1>4. \A c \in IdsOf(ns) : t[c] \subseteq IdsOf(ns)
    <2> SUFFICES ASSUME NEW c \in IdsOf(ns) PROVE t[c] \subseteq IdsOf(ns)
      OBVIOUS
    <2>1. PICK i \in 1..n : c = ns[i].id
      BY <1>1, Zenon DEF IdsOf
    <2>2. t[c] = ToSet(ns[i].causes) \cap IdsOf(ns)
      BY <1>3, <2>1
    <2> QED BY <2>2
  <1>5. DOMAIN t = IdsOf(ns) /\ t = [c \in IdsOf(ns) |-> t[c]]
    BY Zenon DEF CausesOf
  <1>6. t \in [IdsOf(ns) -> SUBSET IdsOf(ns)]
    BY <1>4, <1>5, Zenon
  <1> QED BY <1>3, <1>6, Zenon

\* A list of objects is found cyclic if and only if an object reaches itself.
LEMMA CyclicExact ==
  ASSUME NEW n \in Nat, NEW ns, Graph(ns, n)
  PROVE  /\ Cyclic(Links(ns)) <=> ~Acyclic(CausesOf(ns))
         /\ Acyclic(Succ(Links(ns))) <=> Acyclic(CausesOf(ns))
  <1>1. PICK l, s, t, B : l = Links(ns) /\ s = Succ(l) /\ t = CausesOf(ns) /\ B = IdsOf(ns)
    OBVIOUS
  <1>2. /\ l \in Seq(Seq(0..n)) /\ Len(l) = n
        /\ \A i, y \in 1..n : y \in s[i] <=> ns[y].id \in ToSet(ns[i].causes)
    BY <1>1, LinksAre
  <1>3. s \in [1..n -> SUBSET (1..n)]
    BY <1>1, <1>2, SuccFacts
  <1>4. t \in [B -> SUBSET B] /\ \A i \in 1..n : t[ns[i].id] = ToSet(ns[i].causes) \cap B
    BY <1>1, CausesAre
  <1>5. PICK h : h = [i \in 1..n |-> ns[i].id]
    OBVIOUS
  <1>6. \A i \in 1..n : h[i] = ns[i].id /\ h[i] \in B
    BY <1>1, <1>5, IdxIs
  <1>7. h \in [1..n -> B] /\ (\A x, y \in 1..n : h[x] = h[y] => x = y)
    BY <1>5, <1>6 DEF Graph
  <1>8. \A b \in B : \E x \in 1..n : h[x] = b
    <2>1. DOMAIN ns = 1..n
      BY DEF Graph
    <2>2. \A b \in B : \E x \in 1..n : ns[x].id = b
      BY <1>1, <2>1 DEF IdsOf
    <2> QED BY <1>6, <2>2
  <1>9. ASSUME NEW x \in 1..n, NEW y \in 1..n PROVE h[y] \in t[h[x]] <=> y \in s[x]
    <2>1. h[x] = ns[x].id /\ h[y] = ns[y].id /\ h[y] \in B
      BY <1>6
    <2>2. t[ns[x].id] = ToSet(ns[x].causes) \cap B
      BY <1>4
    <2>3. y \in s[x] <=> ns[y].id \in ToSet(ns[x].causes)
      BY <1>2
    <2> QED BY <2>1, <2>2, <2>3, Zenon
  <1>12. PICK A : A = 1..n
    OBVIOUS
  <1>13. /\ s \in [A -> SUBSET A] /\ t \in [B -> SUBSET B] /\ h \in [A -> B]
         /\ \A x, y \in A : h[x] = h[y] => x = y
         /\ \A b \in B : \E x \in A : h[x] = b
         /\ \A x, y \in A : h[y] \in t[h[x]] <=> y \in s[x]
    BY <1>3, <1>4, <1>7, <1>8, <1>9, <1>12
  <1>10. Acyclic(s) <=> Acyclic(t)
    BY <1>13, ReachedRenamed
  <1>11. Cyclic(l) <=> ~Acyclic(s)
    BY <1>1, <1>2, SearchExact
  <1> QED BY <1>1, <1>10, <1>11, Zenon

(***************************************************************************)
(* The sort                                                                *)
(***************************************************************************)
LEMMA PickIs ==
  ASSUME NEW n \in Nat, NEW rank \in [1..n -> Nat], NEW ready \in SUBSET (1..n), ready # {}
  PROVE  /\ Pick(ready, rank) \in ready
         /\ \A j \in ready : rank[Pick(ready, rank)] <= rank[j]
  <1> DEFINE T == {rank[i] : i \in ready}
  <1>1. T \in SUBSET Nat /\ T # {}
    OBVIOUS
  <1>2. PICK r \in T : \A y \in T : r <= y
    BY <1>1, LeastOf
  <1> DEFINE M == {i \in ready : rank[i] = r}
  <1>3. M \in SUBSET Nat /\ M # {}
    <2>1. PICK i \in ready : rank[i] = r
      BY <1>2, Zenon
    <2>2. i \in M
      BY <2>1
    <2>3. M \in SUBSET Nat
      <3>1. \A x \in ready : x \in Nat
        OBVIOUS
      <3> QED BY <3>1
    <2> HIDE DEF M, T
    <2> QED BY <2>2, <2>3
  <1>4. PICK m \in M : \A y \in M : m <= y
    BY <1>3, LeastOf
  <1> DEFINE P(i) == \A j \in ready : rank[i] < rank[j] \/ (rank[i] = rank[j] /\ i <= j)
  <1>5. m \in ready /\ P(m)
    <2> SUFFICES ASSUME NEW j \in ready PROVE rank[m] < rank[j] \/ (rank[m] = rank[j] /\ m <= j)
      OBVIOUS
    <2>1. rank[m] = r /\ r <= rank[j] /\ rank[j] \in Nat /\ r \in Nat
      BY <1>2
    <2>2. CASE rank[j] = r
      <3>1. j \in M
        BY <2>2
      <3> QED BY <1>4, <2>1, <2>2, <3>1
    <2>3. CASE rank[j] # r
      <3> HIDE DEF M, T
      <3> QED BY <2>1, <2>3
    <2> QED BY <2>2, <2>3
  <1> HIDE DEF P
  <1>6. PICK q : q = CHOOSE i \in ready : P(i)
    OBVIOUS
  <1>7. q \in ready /\ P(q)
    BY <1>5, <1>6, Zenon
  <1>8. q = Pick(ready, rank)
    BY <1>6, Zenon DEF Pick, P
  <1>9. \A j \in ready : rank[q] <= rank[j]
    <2> HIDE DEF M, T
    <2> QED BY <1>7 DEF P
  <1> QED BY <1>7, <1>8, <1>9, Zenon

\* In a graph without cycles, what is not yet taken has a member all of whose
\* causes are taken: one that reaches the fewest nodes.
LEMMA ReadyExists ==
  ASSUME NEW n \in Nat, NEW E \in [1..n -> SUBSET (1..n)], Acyclic(E), NEW D \in SUBSET (1..n), D # 1..n
  PROVE  \E j \in (1..n) \ D : E[j] \subseteq D
  <1>1. PICK A : A = 1..n
    OBVIOUS
  <1>2. IsFiniteSet(A)
    BY <1>1, FS_Interval
  <1>3. E \in [A -> SUBSET A]
    BY <1>1
  <1>4. ASSUME NEW x \in A PROVE Cardinality(Reached(E, x)) \in Nat /\ IsFiniteSet(Reached(E, x))
    <2>1. Reached(E, x) \subseteq A
      BY <1>3, ReachedDirectly
    <2> QED BY <1>2, <2>1, FS_Subset, FS_CardinalityType
  <1> DEFINE T == {Cardinality(Reached(E, x)) : x \in A \ D}
  <1>5. T \in SUBSET Nat /\ T # {}
    <2>1. T \in SUBSET Nat
      BY <1>4
    <2>2. PICK x : x \in A \ D
      BY <1>1
    <2> QED BY <2>1, <2>2
  <1>6. PICK r \in T : \A y \in T : r <= y
    BY <1>5, LeastOf
  <1>7. PICK j \in A \ D : r = Cardinality(Reached(E, j))
    OBVIOUS
  <1>8. ASSUME NEW c \in E[j], c \notin D PROVE FALSE
    <2>1. c \in A
      BY <1>3
    <2>2. c \in Reached(E, j)
      BY <1>3, ReachedDirectly
    <2>3. Reached(E, c) \subseteq Reached(E, j)
      BY <1>3, <2>2, ReachedFurther
    <2>4. c \notin Reached(E, c)
      BY <1>3, <2>1 DEF Acyclic
    <2>5. PICK R, S : R = Reached(E, c) /\ S = Reached(E, j)
      OBVIOUS
    <2>6. IsFiniteSet(S) /\ R \subseteq S /\ c \in S /\ c \notin R /\ IsFiniteSet(R) /\ Cardinality(R) \in Nat
      BY <1>4, <2>1, <2>2, <2>3, <2>4, <2>5
    <2>7. Cardinality(R) <= Cardinality(S) /\ (Cardinality(S) = Cardinality(R) => R = S)
      BY <2>6, FS_Subset, Zenon
    <2>8. Cardinality(R) \in T /\ Cardinality(S) = r
      BY <1>7, <1>8, <2>1, <2>5
    <2>9. r <= Cardinality(R) /\ r \in Nat
      BY <1>5, <1>6, <2>8
    <2> HIDE DEF T
    <2> QED BY <2>6, <2>7, <2>8, <2>9
  <1> QED BY <1>1, <1>7, <1>8

KahnReady(missing, s) == {i \in DOMAIN missing \ ToSet(s.order) : s.indeg[i] = 0}
KahnTake(missing, taken, s, p) ==
  [indeg |-> [j \in DOMAIN missing |-> s.indeg[j] - taken[p][j]], order |-> Append(s.order, p)]
KahnStep(missing, rank, taken, s) ==
  IF KahnReady(missing, s) = {} THEN s
  ELSE KahnTake(missing, taken, s, Pick(KahnReady(missing, s), rank))
KahnBody(missing, rank, taken, f, k) ==
  IF k = 0 THEN [indeg |-> missing, order |-> << >>] ELSE KahnStep(missing, rank, taken, f[k - 1])
KahnFn(missing, rank, taken) ==
  CHOOSE f : f = [k \in 0..Len(missing) |-> KahnBody(missing, rank, taken, f, k)]

LEMMA KahnIs ==
  ASSUME NEW missing, NEW rank, NEW taken, NEW o, o = KahnFn(missing, rank, taken)[Len(missing)].order
  PROVE  Kahn(missing, rank, taken) = IF Len(o) = Len(missing) THEN o ELSE Violation
  <1>1. PICK F : F = KahnFn(missing, rank, taken)
    OBVIOUS
  <1>2. F = CHOOSE f : f = [k \in 0..Len(missing) |->
              IF k = 0 THEN [indeg |-> missing, order |-> << >>]
              ELSE IF {i \in DOMAIN missing \ ToSet(f[k - 1].order) : f[k - 1].indeg[i] = 0} = {} THEN f[k - 1]
              ELSE [indeg |-> [j \in DOMAIN missing |-> f[k - 1].indeg[j] - taken[Pick({i \in DOMAIN missing \ ToSet(f[k - 1].order) : f[k - 1].indeg[i] = 0}, rank)][j]],
                    order |-> Append(f[k - 1].order, Pick({i \in DOMAIN missing \ ToSet(f[k - 1].order) : f[k - 1].indeg[i] = 0}, rank))]]
    BY <1>1, Zenon DEF KahnFn, KahnBody, KahnStep, KahnTake, KahnReady
  <1>3. Kahn(missing, rank, taken) = IF Len(F[Len(missing)].order) = Len(missing) THEN F[Len(missing)].order ELSE Violation
    BY <1>2 DEF Kahn
  <1> QED BY <1>1, <1>3, Zenon

KahnStates(n) == [indeg : [1..n -> Int], order : Seq(1..n)]

LEMMA KahnStepType ==
  ASSUME NEW n \in Nat, NEW missing \in [1..n -> Nat], NEW rank \in [1..n -> Nat],
         NEW taken \in [1..n -> [1..n -> Nat]], NEW s \in KahnStates(n)
  PROVE  KahnStep(missing, rank, taken, s) \in KahnStates(n)
  <1>1. PICK d, o : d = s.indeg /\ o = s.order /\ d \in [1..n -> Int] /\ o \in Seq(1..n)
    BY DEF KahnStates
  <1>2. PICK ready : ready = KahnReady(missing, s)
    OBVIOUS
  <1>3. ready \in SUBSET (1..n)
    BY <1>2 DEF KahnReady
  <1>4. CASE ready = {}
    BY <1>2, <1>4, Zenon DEF KahnStep
  <1>5. CASE ready # {}
    <2>1. PICK p : p = Pick(ready, rank)
      OBVIOUS
    <2>2. p \in 1..n
      BY <1>3, <1>5, <2>1, PickIs
    <2>3. Append(o, p) \in Seq(1..n)
      BY <1>1, <2>2
    <2>4. [j \in 1..n |-> d[j] - taken[p][j]] \in [1..n -> Int]
      <3>1. PICK t : t = taken[p] /\ t \in [1..n -> Nat]
        BY <2>2
      <3>2. ASSUME NEW j \in 1..n PROVE d[j] - t[j] \in Int
        <4>1. d[j] \in Int
          BY <1>1
        <4>2. t[j] \in Nat
          BY <3>1, Zenon
        <4>3. \A a \in Int, b \in Nat : a - b \in Int
          OBVIOUS
        <4> QED BY <4>1, <4>2, <4>3, Zenon
      <3> QED BY <3>1, <3>2
    <2>5. DOMAIN missing = 1..n
      OBVIOUS
    <2>6. KahnTake(missing, taken, s, p) \in KahnStates(n)
      <3>1. KahnTake(missing, taken, s, p) = [indeg |-> [j \in 1..n |-> d[j] - taken[p][j]], order |-> Append(o, p)]
        BY <1>1, <2>5, Zenon DEF KahnTake
      <3>2. PICK dd, oo : dd = [j \in 1..n |-> d[j] - taken[p][j]] /\ oo = Append(o, p)
        OBVIOUS
      <3>3. [indeg |-> dd, order |-> oo] \in [indeg : [1..n -> Int], order : Seq(1..n)]
        BY <2>3, <2>4, <3>2
      <3> QED BY <3>1, <3>2, <3>3, Zenon DEF KahnStates
    <2> QED BY <1>2, <1>5, <2>1, <2>6, Zenon DEF KahnStep
  <1> QED BY <1>4, <1>5

KahnRuns(n, missing, rank, taken, F) ==
  /\ F \in [0..n -> KahnStates(n)]
  /\ F[0] = [indeg |-> missing, order |-> << >>]
  /\ \A k \in 1..n : F[k] = KahnStep(missing, rank, taken, F[k - 1])

LEMMA KahnFnIs ==
  ASSUME NEW n \in Nat, NEW missing \in [1..n -> Nat], NEW rank \in [1..n -> Nat],
         NEW taken \in [1..n -> [1..n -> Nat]], NEW F, F = KahnFn(missing, rank, taken)
  PROVE  KahnRuns(n, missing, rank, taken, F)
  <1> DEFINE X == KahnStates(n)
             b == [indeg |-> missing, order |-> << >>]
             st == [p \in (1..n) \X X |-> KahnStep(missing, rank, taken, p[2])]
  <1>0. Len(missing) = n
    <2>1. missing \in Seq(Nat) /\ Len(missing) = n
      OBVIOUS
    <2> QED BY <2>1
  <1>1. b \in X
    <2>1. missing \in [1..n -> Int] /\ << >> \in Seq(1..n)
      OBVIOUS
    <2> QED BY <2>1 DEF KahnStates
  <1>2. \A s \in X : KahnStep(missing, rank, taken, s) \in X
    BY KahnStepType
  <1>3. st \in [(1..n) \X X -> X] /\ \A k \in 1..n, s \in X : st[<<k, s>>] = KahnStep(missing, rank, taken, s)
    <2> HIDE DEF X
    <2> QED BY <1>2
  <1>4. \A v : KahnBody(missing, rank, taken, v, 0) = b
    BY DEF KahnBody
  <1>5. \A v : \A k \in 1..n : KahnBody(missing, rank, taken, v, k) = KahnStep(missing, rank, taken, v[k - 1])
    BY DEF KahnBody
  <1> HIDE DEF b, X, st
  <1>6. PICK g : Solves(g, n, X, b, st)
    BY <1>1, <1>3, Iterated, Zenon
  <1>7. ASSUME NEW k \in 0..n PROVE g[k] = KahnBody(missing, rank, taken, g, k)
    <2>1. CASE k = 0
      BY <1>4, <1>6, <2>1 DEF Solves
    <2>2. CASE k # 0
      <3>1. k \in 1..n /\ k - 1 \in 0..n
        BY <2>2
      <3>2. g[k - 1] \in X /\ g[k] = st[<<k, g[k - 1]>>]
        BY <1>6, <3>1 DEF Solves
      <3> QED BY <1>3, <1>5, <3>1, <3>2
    <2> QED BY <2>1, <2>2
  <1>8. g = [k \in 0..Len(missing) |-> KahnBody(missing, rank, taken, g, k)]
    BY <1>0, <1>6, <1>7 DEF Solves
  <1>9. F = [k \in 0..Len(missing) |-> KahnBody(missing, rank, taken, F, k)]
    BY <1>8, Zenon DEF KahnFn
  <1>10. DOMAIN F = 0..n /\ \A k \in 0..n : F[k] = KahnBody(missing, rank, taken, F, k)
    BY <1>0, <1>9
  <1>11. F[0] = b
    <2>1. 0 \in 0..n
      OBVIOUS
    <2> QED BY <1>4, <1>10, <2>1, Zenon
  <1>12. ASSUME NEW k \in 1..n PROVE F[k] = KahnStep(missing, rank, taken, F[k - 1])
    <2>1. k \in 0..n
      OBVIOUS
    <2> QED BY <1>5, <1>10, <2>1, Zenon
  <1>13. \A k \in 0..n : F[k] \in X
    <2> DEFINE G == {k \in 0..n : F[k] \in X}
    <2>1. 0 \in G
      BY <1>1, <1>11
    <2>2. \A k \in 0..n : k < n /\ k \in G => k + 1 \in G
      <3> SUFFICES ASSUME NEW k \in 0..n, k < n, F[k] \in X PROVE F[k + 1] \in X
        OBVIOUS
      <3>1. k + 1 \in 1..n /\ (k + 1) - 1 = k
        OBVIOUS
      <3> QED BY <1>2, <1>12, <3>1
    <2>3. \A k \in 0..n : k \in G
      <3> HIDE DEF G
      <3> QED BY <2>1, <2>2, AllUpTo
    <2> QED BY <2>3
  <1>14. F \in [0..n -> KahnStates(n)]
    BY <1>0, <1>9, <1>13 DEF X
  <1> QED BY <1>11, <1>12, <1>14, Zenon DEF KahnRuns, b

\* An order of k nodes, each after all of its causes and none of a higher rank
\* than another that could have been taken instead.
Before(o, a) == {o[b] : b \in 1..(a - 1)}
Sorted(E, n, rank, o, k) ==
  /\ o \in [1..k -> 1..n]
  /\ \A a, b \in 1..k : o[a] = o[b] => a = b
  /\ \A a \in 1..k : E[o[a]] \subseteq Before(o, a)
  /\ \A a \in 1..k : \A j \in (1..n) \ Before(o, a) : E[j] \subseteq Before(o, a) => rank[o[a]] <= rank[j]

Takeable(E, n, rank, D, p) ==
  /\ p \in (1..n) \ D /\ E[p] \subseteq D
  /\ \A j \in (1..n) \ D : E[j] \subseteq D => rank[p] <= rank[j]

Takes(E, n, rank, o, k, p, q) ==
  Sorted(E, n, rank, q, k + 1) /\ Before(q, k + 2) = Before(o, k + 1) \cup {p}

Appended(S, k, o, p, q) == q \in [1..(k + 1) -> S] /\ q[k + 1] = p /\ \A a \in 1..k : q[a] = o[a]

LEMMA AppendIs ==
  ASSUME NEW S, NEW k \in Nat, NEW o \in [1..k -> S], NEW p \in S, NEW q, q = Append(o, p)
  PROVE  Appended(S, k, o, p, q)
  <1>1. o \in Seq(S) /\ Len(o) = k
    OBVIOUS
  <1>2. q \in Seq(S) /\ Len(q) = Len(o) + 1 /\ q[Len(o) + 1] = p /\ \A a \in 1..Len(o) : q[a] = o[a]
    BY <1>1, AppendProperties
  <1>3. q \in Seq(S) /\ Len(q) = k + 1
    BY <1>1, <1>2
  <1>4. q \in [1..Len(q) -> S]
    BY <1>3, LenProperties, Zenon
  <1> QED BY <1>1, <1>2, <1>3, <1>4, Zenon DEF Appended

LEMMA SortedFurther ==
  ASSUME NEW n \in Nat, NEW E \in [1..n -> SUBSET (1..n)], NEW rank \in [1..n -> Nat], NEW k \in Nat, NEW o,
         Sorted(E, n, rank, o, k), NEW p, Takeable(E, n, rank, Before(o, k + 1), p), NEW q, q = Append(o, p)
  PROVE  Takes(E, n, rank, o, k, p, q)
  <1>0. /\ p \in (1..n) \ Before(o, k + 1) /\ E[p] \subseteq Before(o, k + 1)
        /\ \A j \in (1..n) \ Before(o, k + 1) : E[j] \subseteq Before(o, k + 1) => rank[p] <= rank[j]
    BY DEF Takeable
  <1>1. o \in [1..k -> 1..n]
    BY DEF Sorted
  <1>3. q \in [1..(k + 1) -> 1..n] /\ q[k + 1] = p /\ \A a \in 1..k : q[a] = o[a]
    <2>1. PICK A : A = 1..n
      OBVIOUS
    <2>2. o \in [1..k -> A] /\ p \in A
      BY <1>0, <1>1, <2>1
    <2>3. q \in [1..(k + 1) -> A] /\ q[k + 1] = p /\ \A a \in 1..k : q[a] = o[a]
      <3>1. Appended(A, k, o, p, q)
        BY <2>2, AppendIs
      <3> QED BY <3>1 DEF Appended
    <2> QED BY <2>1, <2>3
  <1>4. \A a \in 1..(k + 1) : a = k + 1 \/ a \in 1..k
    OBVIOUS
  <1>5. ASSUME NEW a \in 1..(k + 1) PROVE Before(q, a) = Before(o, a)
    <2>1. \A b \in 1..(a - 1) : q[b] = o[b]
      BY <1>3
    <2> QED BY <2>1 DEF Before
  <1>6. Before(q, k + 2) = Before(o, k + 1) \cup {p}
    <2>1. 1..((k + 2) - 1) = 1..k \cup {k + 1}
      OBVIOUS
    <2>2. 1..((k + 1) - 1) = 1..k
      OBVIOUS
    <2>3. Before(q, k + 2) = {q[b] : b \in 1..k \cup {k + 1}}
      BY <2>1, Zenon DEF Before
    <2>4. Before(o, k + 1) = {o[b] : b \in 1..k}
      BY <2>2, Zenon DEF Before
    <2>5. {q[b] : b \in 1..k \cup {k + 1}} = {q[b] : b \in 1..k} \cup {q[k + 1]}
      BY Zenon
    <2>6. {q[b] : b \in 1..k} = {o[b] : b \in 1..k}
      BY <1>3, Zenon
    <2> QED BY <1>3, <2>3, <2>4, <2>5, <2>6, Zenon
  <1>7. \A a \in 1..k : q[k + 1] # q[a]
    <2> SUFFICES ASSUME NEW a \in 1..k, p = o[a] PROVE FALSE
      BY <1>3
    <2>1. a \in 1..((k + 1) - 1)
      OBVIOUS
    <2>2. p \in Before(o, k + 1)
      BY <2>1, Zenon DEF Before
    <2> QED BY <1>0, <2>2
  <1>8. ASSUME NEW a \in 1..(k + 1), NEW b \in 1..(k + 1), q[a] = q[b] PROVE a = b
    <2>1. CASE a = k + 1
      BY <1>4, <1>7, <1>8, <2>1
    <2>2. CASE b = k + 1
      BY <1>4, <1>7, <1>8, <2>2
    <2>3. CASE a \in 1..k /\ b \in 1..k
      BY <1>3, <1>8, <2>3 DEF Sorted
    <2> QED BY <1>4, <2>1, <2>2, <2>3
  <1>9. ASSUME NEW a \in 1..(k + 1)
        PROVE  /\ E[q[a]] \subseteq Before(q, a)
               /\ \A j \in (1..n) \ Before(q, a) : E[j] \subseteq Before(q, a) => rank[q[a]] <= rank[j]
    <2>1. Before(q, a) = Before(o, a)
      BY <1>5
    <2>2. CASE a = k + 1
      BY <1>0, <1>3, <2>1, <2>2
    <2>3. CASE a \in 1..k
      BY <1>3, <2>1, <2>3 DEF Sorted
    <2> QED BY <1>4, <2>2, <2>3
  <1> QED BY <1>3, <1>6, <1>8, <1>9 DEF Sorted, Takes

\* An order of fewer than n nodes does not hold all of them.
LEMMA BeforeIsSmall ==
  ASSUME NEW n \in Nat, NEW k \in Nat, k < n, NEW o \in [1..k -> 1..n]
  PROVE  Before(o, k + 1) # 1..n /\ Before(o, k + 1) \subseteq 1..n
  <1>1. 1..((k + 1) - 1) = 1..k
    OBVIOUS
  <1>2. Before(o, k + 1) = {o[b] : b \in 1..k}
    BY <1>1, Zenon DEF Before
  <1>3. ASSUME Before(o, k + 1) = 1..n PROVE FALSE
    <2>1. o \in Surjection(1..k, 1..n)
      BY <1>2, <1>3 DEF Surjection
    <2>2. IsFiniteSet(1..k) /\ Cardinality(1..k) = k /\ Cardinality(1..n) = n
      BY FS_Interval
    <2>3. PICK S, T : S = 1..k /\ T = 1..n
      OBVIOUS
    <2>4. Cardinality(T) <= Cardinality(S)
      BY <2>1, <2>2, <2>3, FS_Surjection
    <2> QED BY <2>2, <2>3, <2>4
  <1> QED BY <1>2, <1>3

\* Each node once: an order of n nodes takes all of them.
LEMMA SortedAll ==
  ASSUME NEW n \in Nat, NEW E, NEW rank, NEW o, Sorted(E, n, rank, o, n), NEW j \in 1..n
  PROVE  \E a \in 1..n : o[a] = j
  <1>1. PICK S : S = 1..n
    OBVIOUS
  <1>2. o \in Injection(S, S)
    <2>1. o \in [S -> S] /\ \A a, b \in S : o[a] = o[b] => a = b
      BY <1>1, Zenon DEF Sorted
    <2> QED BY <2>1 DEF Injection, IsInjective
  <1>3. IsFiniteSet(S)
    BY <1>1, FS_Interval
  <1>4. o \in Surjection(S, S)
    BY <1>2, <1>3, FS_Injection
  <1> QED BY <1>1, <1>4 DEF Surjection

\* What Kahn's algorithm counts of the causes E: all of them at first, one less
\* for each one taken.
Counts(E, n, missing, taken) ==
  /\ missing \in [1..n -> Nat] /\ taken \in [1..n -> [1..n -> Nat]]
  /\ \A j \in 1..n : missing[j] = Cardinality(E[j])
  /\ \A p, j \in 1..n : taken[p][j] = IF p \in E[j] THEN 1 ELSE 0

KahnGood(E, n, rank, x, k) ==
  /\ Sorted(E, n, rank, x.order, k)
  /\ \A j \in 1..n : x.indeg[j] = Cardinality(E[j] \ Before(x.order, k + 1))

LEMMA KahnTakes ==
  ASSUME NEW n \in Nat, NEW E \in [1..n -> SUBSET (1..n)], Acyclic(E), NEW rank \in [1..n -> Nat],
         NEW missing, NEW taken, Counts(E, n, missing, taken),
         NEW x \in KahnStates(n), NEW k \in Nat, k < n, KahnGood(E, n, rank, x, k),
         NEW y, y = KahnStep(missing, rank, taken, x)
  PROVE  KahnGood(E, n, rank, y, k + 1)
  <1>1. PICK d, o, D : d = x.indeg /\ o = x.order /\ D = Before(o, k + 1)
    OBVIOUS
  <1>2. Sorted(E, n, rank, o, k) /\ \A j \in 1..n : d[j] = Cardinality(E[j] \ D)
    BY <1>1 DEF KahnGood
  <1>3. o \in [1..k -> 1..n]
    BY <1>2 DEF Sorted
  <1>4. D # 1..n /\ D \in SUBSET (1..n)
    BY <1>1, <1>3, BeforeIsSmall
  <1>5. ToSet(o) = D
    <2>1. 1..((k + 1) - 1) = 1..k /\ DOMAIN o = 1..k
      BY <1>3
    <2> QED BY <1>1, <2>1, Zenon DEF ToSet, Before
  <1>6. \A j \in 1..n : IsFiniteSet(E[j] \ D) /\ Cardinality(E[j] \ D) \in Nat
    <2> SUFFICES ASSUME NEW j \in 1..n PROVE IsFiniteSet(E[j] \ D) /\ Cardinality(E[j] \ D) \in Nat
      OBVIOUS
    <2>1. PICK A, S : A = 1..n /\ S = E[j] \ D
      OBVIOUS
    <2>2. IsFiniteSet(A)
      BY <2>1, FS_Interval
    <2>3. S \in SUBSET A
      BY <2>1
    <2>4. IsFiniteSet(S) /\ Cardinality(S) \in Nat
      BY <2>2, <2>3, FS_Subset, FS_CardinalityType
    <2> QED BY <2>1, <2>4
  <1>7. \A j \in 1..n : d[j] = 0 <=> E[j] \subseteq D
    <2> SUFFICES ASSUME NEW j \in 1..n PROVE d[j] = 0 <=> E[j] \subseteq D
      OBVIOUS
    <2>1. d[j] = 0 <=> E[j] \ D = {}
      BY <1>2, <1>6, FS_EmptySet
    <2> QED BY <2>1
  <1>8. PICK ready : ready = KahnReady(missing, x)
    OBVIOUS
  <1>9. DOMAIN missing = 1..n
    BY DEF Counts
  <1>10. ready = {j \in (1..n) \ D : d[j] = 0}
    BY <1>1, <1>5, <1>8, <1>9, Zenon DEF KahnReady
  <1>11. ready \in SUBSET (1..n) /\ ready # {}
    <2>1. PICK j \in (1..n) \ D : E[j] \subseteq D
      BY <1>4, ReadyExists
    <2>2. j \in ready
      BY <1>7, <1>10, <2>1
    <2> QED BY <1>10, <2>2
  <1>12. PICK p : p = Pick(ready, rank)
    OBVIOUS
  <1>13. p \in ready /\ \A j \in ready : rank[p] <= rank[j]
    BY <1>11, <1>12, PickIs
  <1>14. p \in (1..n) \ D /\ E[p] \subseteq D /\ \A j \in (1..n) \ D : E[j] \subseteq D => rank[p] <= rank[j]
    BY <1>7, <1>10, <1>13
  <1>15. PICK q : q = Append(o, p)
    OBVIOUS
  <1>16. Sorted(E, n, rank, q, k + 1) /\ Before(q, k + 2) = D \cup {p}
    <2>1. Takeable(E, n, rank, Before(o, k + 1), p)
      BY <1>1, <1>14, Zenon DEF Takeable
    <2>2. Takes(E, n, rank, o, k, p, q)
      BY <1>2, <1>15, <2>1, SortedFurther
    <2> QED BY <1>1, <2>2, Zenon DEF Takes
  <1>17. y = [indeg |-> [j \in 1..n |-> d[j] - taken[p][j]], order |-> q]
    BY <1>1, <1>8, <1>9, <1>11, <1>12, <1>15, Zenon DEF KahnStep, KahnTake
  <1>18. y.order = q /\ \A j \in 1..n : y.indeg[j] = d[j] - taken[p][j]
    BY <1>17
  <1>19. ASSUME NEW j \in 1..n PROVE y.indeg[j] = Cardinality(E[j] \ (D \cup {p}))
    <2>1. PICK S : S = E[j] \ D
      OBVIOUS
    <2>2. S \ {p} = E[j] \ (D \cup {p}) /\ (p \in S <=> p \in E[j])
      BY <1>14, <2>1
    <2>3. IsFiniteSet(S) /\ Cardinality(S) \in Nat /\ d[j] = Cardinality(S)
      BY <1>2, <1>6, <2>1
    <2>4. Cardinality(S \ {p}) = IF p \in S THEN Cardinality(S) - 1 ELSE Cardinality(S)
      BY <2>3, FS_RemoveElement
    <2>5. p \in 1..n /\ taken[p][j] = IF p \in E[j] THEN 1 ELSE 0
      BY <1>14 DEF Counts
    <2>6. y.indeg[j] = Cardinality(S) - taken[p][j]
      BY <1>18, <2>3
    <2>7. PICK c \in Nat : c = Cardinality(S)
      BY <2>3
    <2>8. Cardinality(S \ {p}) = c - taken[p][j]
      BY <2>2, <2>4, <2>5, <2>7
    <2> QED BY <2>2, <2>6, <2>7, <2>8, Zenon
  <1>20. (k + 1) + 1 = k + 2
    OBVIOUS
  <1> QED BY <1>16, <1>18, <1>19, <1>20, Zenon DEF KahnGood

\* Kahn's algorithm completes an order of a graph without cycles.
LEMMA KahnExact ==
  ASSUME NEW n \in Nat, NEW E \in [1..n -> SUBSET (1..n)], Acyclic(E), NEW rank \in [1..n -> Nat],
         NEW missing, NEW taken, Counts(E, n, missing, taken), NEW o, o = Kahn(missing, rank, taken)
  PROVE  Sorted(E, n, rank, o, n) /\ o # Violation
  <1>1. missing \in [1..n -> Nat] /\ taken \in [1..n -> [1..n -> Nat]]
    BY DEF Counts
  <1>2. PICK F : F = KahnFn(missing, rank, taken)
    OBVIOUS
  <1>3. KahnRuns(n, missing, rank, taken, F)
    BY <1>1, <1>2, KahnFnIs
  <1> DEFINE G == {k \in 0..n : KahnGood(E, n, rank, F[k], k)}
  <1>4. 0 \in G
    <2>1. PICK e : e = << >>
      OBVIOUS
    <2>2. F[0].order = e /\ F[0].indeg = missing
      BY <1>3, <2>1 DEF KahnRuns
    <2>3. 1..0 = {} /\ 1..((0 + 1) - 1) = {}
      OBVIOUS
    <2>4. Before(e, 0 + 1) = {}
      BY <2>3, Zenon DEF Before
    <2>5. Sorted(E, n, rank, e, 0)
      <3>1. e \in [1..0 -> 1..n]
        BY <2>1
      <3> QED BY <2>3, <3>1 DEF Sorted
    <2>6. \A j \in 1..n : E[j] \ Before(e, 0 + 1) = E[j]
      BY <2>4
    <2>7. \A j \in 1..n : missing[j] = Cardinality(E[j])
      BY DEF Counts
    <2>8. KahnGood(E, n, rank, F[0], 0)
      BY <2>2, <2>5, <2>6, <2>7, Zenon DEF KahnGood
    <2> QED BY <2>8
  <1>5. ASSUME NEW k \in 0..n, k < n, k \in G PROVE k + 1 \in G
    <2>1. KahnGood(E, n, rank, F[k], k)
      BY <1>5
    <2> HIDE DEF G
    <2>2. k \in Nat /\ k + 1 \in 1..n /\ k + 1 \in 0..n /\ (k + 1) - 1 = k
      BY <1>5
    <2>3. PICK x, y : x = F[k] /\ y = F[k + 1]
      OBVIOUS
    <2>4. x \in KahnStates(n) /\ y = KahnStep(missing, rank, taken, x)
      BY <1>3, <2>2, <2>3 DEF KahnRuns
    <2>5. KahnGood(E, n, rank, y, k + 1)
      BY <1>5, <2>1, <2>2, <2>3, <2>4, KahnTakes
    <2> QED BY <2>2, <2>3, <2>5 DEF G
  <1>6. KahnGood(E, n, rank, F[n], n)
    <2>1. \A k \in 0..n : k \in G
      <3> HIDE DEF G
      <3> QED BY <1>4, <1>5, AllUpTo
    <2>2. n \in 0..n
      OBVIOUS
    <2> QED BY <2>1, <2>2
  <1>7. PICK q : q = F[n].order
    OBVIOUS
  <1>8. Sorted(E, n, rank, q, n)
    BY <1>6, <1>7 DEF KahnGood
  <1>9. q \in [1..n -> 1..n]
    BY <1>8 DEF Sorted
  <1>10. Len(q) = n /\ Len(missing) = n
    BY <1>1, <1>9
  <1>11. o = q
    BY <1>2, <1>7, <1>10, KahnIs, Zenon
  <1>12. q # Violation
    <2>1. Violation[1] = 0 /\ DOMAIN Violation = 1..1
      BY DEF Violation
    <2>2. q[1] # 0 \/ n # 1
      BY <1>9
    <2>3. DOMAIN q = 1..n
      BY <1>9
    <2>4. 1..n = 1..1 => n = 1
      OBVIOUS
    <2> QED BY <2>1, <2>2, <2>3, <2>4
  <1> QED BY <1>8, <1>11, <1>12

(***************************************************************************)
(* The counts that the sort starts from                                    *)
(***************************************************************************)
OnceEach(ns, n) ==
  \A i \in 1..n : \A k, m \in DOMAIN ns[i].causes : ns[i].causes[k] = ns[i].causes[m] => k = m

LEMMA IndegreesAre ==
  ASSUME NEW n \in Nat, NEW ns, Graph(ns, n), OnceEach(ns, n), NEW E, E = Succ(Links(ns)), NEW j \in 1..n
  PROVE  /\ Indegrees(ns)[j] = Cardinality(E[j]) /\ Cardinality(E[j]) \in Nat
         /\ \A p \in 1..n : Cardinality({k \in DOMAIN ns[j].causes : Links(ns)[j][k] = p}) = IF p \in E[j] THEN 1 ELSE 0
  <1>1. PICK l, r, c : l = Links(ns) /\ r = l[j] /\ c = ns[j].causes
    OBVIOUS
  <1>2. /\ l \in Seq(Seq(0..n)) /\ Len(l) = n /\ DOMAIN r = 1..Len(c)
        /\ \A y \in 1..n : \A k \in DOMAIN r : r[k] = y <=> c[k] = ns[y].id
        /\ \A y \in 1..n : y \in E[j] <=> ns[y].id \in ToSet(c)
    BY <1>1, LinksAre
  <1>3. DOMAIN ns = 1..n /\ DOMAIN c = 1..Len(c) /\ Len(c) \in Nat /\ \A k, m \in DOMAIN c : c[k] = c[m] => k = m
    <2>1. PICK U : c \in Seq(U)
      BY <1>1 DEF Graph
    <2>2. DOMAIN c = 1..Len(c) /\ Len(c) \in Nat
      BY <2>1
    <2>3. DOMAIN ns = 1..n
      BY DEF Graph
    <2>4. \A k, m \in DOMAIN c : c[k] = c[m] => k = m
      BY <1>1, Zenon DEF OnceEach
    <2> QED BY <2>2, <2>3, <2>4
  <1>4. E \in [1..n -> SUBSET (1..n)]
    BY <1>1, <1>2, SuccFacts
  <1>5. PICK S, T : S = {k \in DOMAIN c : c[k] \in IdsOf(ns)} /\ T = E[j]
    OBVIOUS
  <1>6. Indegrees(ns)[j] = Cardinality(S)
    BY <1>1, <1>3, <1>5, Zenon DEF Indegrees
  <1>7. T \in SUBSET (1..n)
    BY <1>4, <1>5
  <1>8. IsFiniteSet(S)
    <2>1. PICK A : A = 1..Len(c)
      OBVIOUS
    <2>2. IsFiniteSet(A)
      BY <1>3, <2>1, FS_Interval
    <2>3. S \in SUBSET A
      BY <1>3, <1>5, <2>1
    <2> QED BY <2>2, <2>3, FS_Subset
  <1>9. ASSUME NEW k \in S PROVE r[k] \in T /\ c[k] = ns[r[k]].id
    <2>1. k \in DOMAIN r /\ k \in DOMAIN c
      BY <1>2, <1>3, <1>5
    <2>2. PICK y \in 1..n : ns[y].id = c[k]
      BY <1>3, <1>5, Zenon DEF IdsOf
    <2>3. r[k] = y
      BY <1>2, <2>1, <2>2
    <2>4. ns[y].id \in ToSet(c)
      BY <2>1, <2>2, Zenon DEF ToSet
    <2>5. y \in T
      BY <1>2, <1>5, <2>4
    <2> QED BY <2>2, <2>3, <2>5
  <1>10. ASSUME NEW y \in T PROVE \E k \in S : r[k] = y
    <2>1. y \in 1..n /\ ns[y].id \in ToSet(c)
      BY <1>2, <1>5, <1>7
    <2>2. PICK k \in DOMAIN c : c[k] = ns[y].id
      BY <2>1, Zenon DEF ToSet
    <2>3. k \in S
      BY <1>3, <1>5, <2>1, <2>2, IdxIs
    <2>4. r[k] = y
      BY <1>2, <1>3, <2>1, <2>2
    <2> QED BY <2>3, <2>4
  <1>11. PICK f : f = [k \in S |-> r[k]]
    OBVIOUS
  <1>12. f \in Bijection(S, T)
    <2>1. f \in [S -> T]
      BY <1>9, <1>11
    <2>2. \A a, b \in S : f[a] = f[b] => a = b
      <3> SUFFICES ASSUME NEW a \in S, NEW b \in S, f[a] = f[b] PROVE a = b
        OBVIOUS
      <3>1. r[a] = r[b]
        BY <1>11
      <3>2. c[a] = c[b]
        BY <1>9, <3>1
      <3> QED BY <1>3, <1>5, <3>2
    <2>3. \A y \in T : \E k \in S : f[k] = y
      BY <1>10, <1>11
    <2>4. f \in Injection(S, T)
      BY <2>1, <2>2 DEF Injection, IsInjective
    <2>5. f \in Surjection(S, T)
      BY <2>1, <2>3 DEF Surjection
    <2> QED BY <2>4, <2>5 DEF Bijection
  <1>13. Cardinality(T) = Cardinality(S) /\ Cardinality(S) \in Nat
    <2>1. ExistsBijection(S, T)
      BY <1>12 DEF ExistsBijection
    <2> QED BY <1>8, <2>1, FS_Bijection, FS_CardinalityType
  <1>14. ASSUME NEW p \in 1..n PROVE Cardinality({k \in DOMAIN c : r[k] = p}) = IF p \in T THEN 1 ELSE 0
    <2>1. \A k \in DOMAIN c : r[k] = p <=> c[k] = ns[p].id
      BY <1>2, <1>3
    <2>2. p \in T <=> \E k \in DOMAIN c : c[k] = ns[p].id
      <3>1. p \in T <=> ns[p].id \in ToSet(c)
        BY <1>2, <1>5
      <3>2. ns[p].id \in ToSet(c) <=> \E k \in DOMAIN c : c[k] = ns[p].id
        BY DEF ToSet
      <3> QED BY <3>1, <3>2
    <2>3. CASE p \in T
      <3>1. PICK k \in DOMAIN c : c[k] = ns[p].id
        BY <2>2, <2>3
      <3>2. {m \in DOMAIN c : r[m] = p} = {k}
        BY <1>3, <2>1, <3>1
      <3> QED BY <2>3, <3>2, FS_Singleton
    <2>4. CASE p \notin T
      <3>1. {m \in DOMAIN c : r[m] = p} = {}
        BY <2>1, <2>2, <2>4
      <3> QED BY <2>4, <3>1, FS_EmptySet
    <2> QED BY <2>3, <2>4
  <1> QED BY <1>1, <1>5, <1>6, <1>13, <1>14, Zenon

MergeTakes(ns) ==
  [p \in DOMAIN ns |-> [j \in DOMAIN ns |-> IF ns[p].id \in ToSet(ns[j].causes) THEN 1 ELSE 0]]
TopoTakes(ns) ==
  [p \in DOMAIN ns |-> [j \in DOMAIN ns |-> Cardinality({k \in DOMAIN ns[j].causes : Links(ns)[j][k] = p})]]

\* Both sorts count the same causes.
LEMMA CountsAre ==
  ASSUME NEW n \in Nat, NEW ns, Graph(ns, n), OnceEach(ns, n), NEW E, E = Succ(Links(ns))
  PROVE  /\ Counts(E, n, Indegrees(ns), MergeTakes(ns))
         /\ Counts(E, n, Indegrees(ns), TopoTakes(ns))
  <1>1. DOMAIN ns = 1..n
    BY DEF Graph
  <1>2. /\ \A j \in 1..n : Indegrees(ns)[j] = Cardinality(E[j]) /\ Cardinality(E[j]) \in Nat
        /\ \A p, j \in 1..n : Cardinality({k \in DOMAIN ns[j].causes : Links(ns)[j][k] = p}) = IF p \in E[j] THEN 1 ELSE 0
    BY IndegreesAre
  <1>3. \A p, j \in 1..n : p \in E[j] <=> ns[p].id \in ToSet(ns[j].causes)
    BY LinksAre
  <1>4. PICK D : D = Indegrees(ns)
    OBVIOUS
  <1>5. D \in [1..n -> Nat]
    <2>1. D = [j \in 1..n |-> Cardinality({k \in DOMAIN ns[j].causes : ns[j].causes[k] \in IdsOf(ns)})]
      BY <1>1, <1>4, Zenon DEF Indegrees
    <2>2. \A j \in 1..n : D[j] \in Nat
      BY <1>2, <1>4
    <2> QED BY <2>1, <2>2
  <1>6. PICK M, T : M = MergeTakes(ns) /\ T = TopoTakes(ns)
    OBVIOUS
  <1>7. \A p, j \in 1..n : M[p][j] = IF p \in E[j] THEN 1 ELSE 0
    BY <1>1, <1>3, <1>6 DEF MergeTakes
  <1>8. \A p, j \in 1..n : T[p][j] = IF p \in E[j] THEN 1 ELSE 0
    BY <1>1, <1>2, <1>6 DEF TopoTakes
  <1>9. M \in [1..n -> [1..n -> Nat]]
    <2>1. M = [p \in 1..n |-> [j \in 1..n |-> IF ns[p].id \in ToSet(ns[j].causes) THEN 1 ELSE 0]]
      BY <1>1, <1>6, Zenon DEF MergeTakes
    <2> QED BY <2>1
  <1>10. T \in [1..n -> [1..n -> Nat]]
    <2>1. T = [p \in 1..n |-> [j \in 1..n |-> Cardinality({k \in DOMAIN ns[j].causes : Links(ns)[j][k] = p})]]
      BY <1>1, <1>6, Zenon DEF TopoTakes
    <2>2. \A p, j \in 1..n : Cardinality({k \in DOMAIN ns[j].causes : Links(ns)[j][k] = p}) \in Nat
      BY <1>2
    <2> QED BY <2>1, <2>2
  <1>11. \A j \in 1..n : D[j] = Cardinality(E[j])
    BY <1>2, <1>4
  <1>12. Counts(E, n, D, M)
    BY <1>5, <1>7, <1>9, <1>11, Zenon DEF Counts
  <1>13. Counts(E, n, D, T)
    BY <1>5, <1>8, <1>10, <1>11, Zenon DEF Counts
  <1> QED BY <1>4, <1>6, <1>12, <1>13

(***************************************************************************)
(* Orders of the ids                                                       *)
(***************************************************************************)
\* An order of all ids, each once and after its causes.
IdOrder(t, B, n, o) ==
  /\ o \in [1..n -> B]
  /\ \A a, b \in 1..n : o[a] = o[b] => a = b
  /\ \A a \in 1..n : t[o[a]] \subseteq Before(o, a)

\* None is taken while a smaller one could be.
Greedy(t, B, n, o) ==
  \A a \in 1..n : \A c \in B \ Before(o, a) : t[c] \subseteq Before(o, a) => o[a] <= c

LEMMA IdsCounted ==
  ASSUME NEW n \in Nat, NEW ns, Graph(ns, n), NEW B, B = IdsOf(ns)
  PROVE  IsFiniteSet(B) /\ Cardinality(B) = n
  <1>1. PICK A, f : A = 1..n /\ f = [i \in A |-> ns[i].id]
    OBVIOUS
  <1>2. DOMAIN ns = A
    BY <1>1 DEF Graph
  <1>3. f \in [A -> B] /\ \A b \in B : \E i \in A : f[i] = b
    BY <1>1, <1>2 DEF IdsOf
  <1>4. \A i, j \in A : f[i] = f[j] => i = j
    BY <1>1 DEF Graph
  <1>5. f \in Injection(A, B)
    BY <1>3, <1>4 DEF Injection, IsInjective
  <1>6. f \in Surjection(A, B)
    BY <1>3 DEF Surjection
  <1>7. ExistsBijection(A, B)
    BY <1>5, <1>6 DEF Bijection, ExistsBijection
  <1>8. IsFiniteSet(A) /\ Cardinality(A) = n
    BY <1>1, FS_Interval
  <1> QED BY <1>7, <1>8, FS_Bijection

\* A list of all members of a set, each once.
LEMMA ListsAre ==
  ASSUME NEW n \in Nat, NEW B, IsFiniteSet(B), Cardinality(B) = n, NEW o
  PROVE  /\ o \in SetToSeqs(B) <=> o \in [1..n -> B] /\ \A a, b \in 1..n : o[a] = o[b] => a = b
         /\ o \in SetToSeqs(B) => \A c \in B : \E a \in 1..n : o[a] = c
  <1>1. o \in SetToSeqs(B) <=> o \in [1..n -> B] /\ \A a, b \in 1..n : o[a] = o[b] => a = b
    <2>1. o \in SetToSeqs(B) <=> o \in [1..n -> B] /\ \A a, b \in 1..n : a # b => o[a] # o[b]
      BY Zenon DEF SetToSeqs
    <2> QED BY <2>1, Zenon
  <1>2. ASSUME o \in SetToSeqs(B), NEW c \in B PROVE \E a \in 1..n : o[a] = c
    <2>1. PICK A : A = 1..n
      OBVIOUS
    <2>2. o \in [A -> B] /\ \A a, b \in A : o[a] = o[b] => a = b
      BY <1>1, <1>2, <2>1, Zenon
    <2>3. o \in Injection(A, B)
      BY <2>2 DEF Injection, IsInjective
    <2>4. Cardinality(A) = n
      BY <2>1, FS_Interval
    <2>5. o \in Surjection(A, B)
      BY <2>3, <2>4, FS_Injection
    <2> QED BY <2>1, <2>5 DEF Surjection
  <1> QED BY <1>1, <1>2, Zenon

LEMMA PlaceIs ==
  ASSUME NEW n \in Nat, NEW B, NEW o \in [1..n -> B], \A a, b \in 1..n : o[a] = o[b] => a = b, NEW k \in 1..n
  PROVE  Place(o, o[k]) = k
  <1>1. {m \in DOMAIN o : o[m] = o[k]} = {k}
    OBVIOUS
  <1>2. Max({k}) = k
    <2>1. PICK S : S = {k}
      OBVIOUS
    <2>2. S \in SUBSET Int /\ k \in S /\ \A y \in S : k >= y
      BY <2>1
    <2>3. Max(S) = k
      BY <2>2, MaxIs
    <2> QED BY <2>1, <2>3
  <1> QED BY <1>1, <1>2, Zenon DEF Place

LEMMA BeforeIs ==
  ASSUME NEW n \in Nat, NEW o, NEW a \in 1..n, NEW c
  PROVE  c \in Before(o, a) <=> \E b \in 1..n : b < a /\ o[b] = c
  <1>1. c \in Before(o, a) <=> \E b \in 1..(a - 1) : o[b] = c
    BY Zenon DEF Before
  <1>2. \A b : b \in 1..(a - 1) <=> b \in 1..n /\ b < a
    OBVIOUS
  <1> QED BY <1>1, <1>2, Zenon

\* The reference's linear extensions, by the causes of each id.
LEMMA ExtensionsAre ==
  ASSUME NEW n \in Nat, NEW ns, Graph(ns, n), NEW t, t = CausesOf(ns), NEW B, B = IdsOf(ns), NEW o
  PROVE  o \in Extensions(ns) <=> IdOrder(t, B, n, o)
  <1>1. IsFiniteSet(B) /\ Cardinality(B) = n
    BY IdsCounted
  <1>2. /\ o \in SetToSeqs(B) <=> o \in [1..n -> B] /\ \A a, b \in 1..n : o[a] = o[b] => a = b
        /\ o \in SetToSeqs(B) => \A c \in B : \E a \in 1..n : o[a] = c
    BY <1>1, ListsAre
  <1>3. DOMAIN ns = 1..n
    BY DEF Graph
  <1>4. \A i \in 1..n : t[ns[i].id] = ToSet(ns[i].causes) \cap B /\ ns[i].id \in B
    BY CausesAre, IdxIs
  <1>5. o \in Extensions(ns) <=>
          /\ o \in SetToSeqs(B)
          /\ \A i \in 1..n : \A c \in ToSet(ns[i].causes) \cap B : Place(o, c) < Place(o, ns[i].id)
    BY <1>3, Zenon DEF Extensions
  <1>6. ASSUME o \in Extensions(ns) PROVE IdOrder(t, B, n, o)
    <2>1. o \in [1..n -> B] /\ (\A a, b \in 1..n : o[a] = o[b] => a = b) /\ \A c \in B : \E a \in 1..n : o[a] = c
      BY <1>2, <1>5, <1>6
    <2>2. ASSUME NEW a \in 1..n, NEW c \in t[o[a]] PROVE c \in Before(o, a)
      <3>1. PICK i \in 1..n : ns[i].id = o[a]
        <4>1. o[a] \in B
          BY <2>1
        <4> QED BY <1>3, <4>1, Zenon DEF IdsOf
      <3>2. c \in ToSet(ns[i].causes) \cap B
        BY <1>4, <2>2, <3>1
      <3>3. Place(o, c) < Place(o, o[a])
        BY <1>5, <1>6, <3>1, <3>2
      <3>4. PICK b \in 1..n : o[b] = c
        BY <2>1, <3>2
      <3>5. Place(o, o[a]) = a /\ Place(o, o[b]) = b
        BY <2>1, PlaceIs
      <3> QED BY <3>3, <3>4, <3>5, BeforeIs
    <2> QED BY <2>1, <2>2 DEF IdOrder
  <1>7. ASSUME IdOrder(t, B, n, o) PROVE o \in Extensions(ns)
    <2>1. o \in [1..n -> B] /\ (\A a, b \in 1..n : o[a] = o[b] => a = b)
      BY <1>7 DEF IdOrder
    <2>2. o \in SetToSeqs(B) /\ \A c \in B : \E a \in 1..n : o[a] = c
      BY <1>2, <2>1, Zenon
    <2>3. ASSUME NEW i \in 1..n, NEW c \in ToSet(ns[i].causes) \cap B PROVE Place(o, c) < Place(o, ns[i].id)
      <3>1. PICK a \in 1..n : o[a] = ns[i].id
        BY <1>4, <2>2
      <3>2. c \in t[o[a]]
        BY <1>4, <3>1
      <3>3. c \in Before(o, a)
        BY <1>7, <3>2 DEF IdOrder
      <3>4. PICK b \in 1..n : b < a /\ o[b] = c
        BY <3>3, BeforeIs
      <3>5. Place(o, o[a]) = a /\ Place(o, o[b]) = b
        BY <2>1, PlaceIs
      <3> QED BY <3>1, <3>4, <3>5
    <2> QED BY <1>5, <2>2, <2>3
  <1> QED BY <1>6, <1>7

\* A greedy order is less than every other order at their first difference.
LessAt(o, q, k) == o[k] < q[k] /\ \A m \in 1..(k - 1) : o[m] = q[m]

LEMMA GreedyIsLess ==
  ASSUME NEW n \in Nat, NEW B \in SUBSET Nat, NEW t, NEW o, NEW q,
         IdOrder(t, B, n, o), Greedy(t, B, n, o), IdOrder(t, B, n, q), q # o
  PROVE  \E k \in 1..n : LessAt(o, q, k)
  <1>1. o \in [1..n -> B] /\ q \in [1..n -> B]
    BY DEF IdOrder
  <1>2. PICK T : T = {k \in 1..n : o[k] # q[k]}
    OBVIOUS
  <1>3. T # {}
    <2> SUFFICES ASSUME \A k \in 1..n : o[k] = q[k] PROVE FALSE
      BY <1>2
    <2> QED BY <1>1
  <1>4. T \in SUBSET Nat
    BY <1>2
  <1>5. PICK k \in T : \A y \in T : k <= y
    BY <1>3, <1>4, LeastOf
  <1>6. k \in 1..n /\ o[k] # q[k]
    BY <1>2
  <1>7. \A m \in 1..(k - 1) : o[m] = q[m]
    <2> SUFFICES ASSUME NEW m \in 1..(k - 1), o[m] # q[m] PROVE FALSE
      OBVIOUS
    <2>1. m \in 1..n /\ m < k
      BY <1>6
    <2>2. m \in T
      BY <1>2, <2>1
    <2>3. k <= m
      BY <1>5, <2>2
    <2> QED BY <1>6, <2>1, <2>3
  <1>8. Before(o, k) = Before(q, k)
    BY <1>7 DEF Before
  <1>9. q[k] \in B \ Before(q, k)
    <2> SUFFICES ASSUME q[k] \in Before(q, k) PROVE FALSE
      BY <1>1, <1>6
    <2>1. PICK b \in 1..n : b < k /\ q[b] = q[k]
      BY <1>6, BeforeIs
    <2>2. b = k
      BY <1>6, <2>1 DEF IdOrder
    <2> QED BY <1>6, <2>1, <2>2
  <1>10. t[q[k]] \subseteq Before(q, k)
    BY <1>6 DEF IdOrder
  <1>11. o[k] <= q[k]
    BY <1>6, <1>8, <1>9, <1>10 DEF Greedy
  <1>12. o[k] \in Nat /\ q[k] \in Nat
    BY <1>1, <1>6
  <1> QED BY <1>6, <1>7, <1>11, <1>12 DEF LessAt

\* So it is the least one, and there is no other least one.
LEMMA LeastIs ==
  ASSUME NEW n \in Nat, NEW B \in SUBSET Nat, NEW t, NEW orders, \A q : q \in orders <=> IdOrder(t, B, n, q),
         NEW o, IdOrder(t, B, n, o), Greedy(t, B, n, o)
  PROVE  LexLeast(orders) = o
  <1> DEFINE P(x) == \A q \in orders \ {x} : \E k \in DOMAIN x : x[k] < q[k] /\ \A m \in 1..(k - 1) : x[m] = q[m]
  <1>1. \A q \in orders : q \in [1..n -> B] /\ DOMAIN q = 1..n
    BY DEF IdOrder
  <1>2. o \in orders
    OBVIOUS
  <1>3. P(o)
    <2> SUFFICES ASSUME NEW q \in orders, q # o PROVE \E k \in 1..n : LessAt(o, q, k)
      BY <1>1, <1>2 DEF LessAt
    <2> QED BY GreedyIsLess
  <1>4. ASSUME NEW x \in orders, P(x) PROVE x = o
    <2> SUFFICES ASSUME x # o PROVE FALSE
      OBVIOUS
    <2>1. PICK k \in 1..n : x[k] < o[k] /\ \A m \in 1..(k - 1) : x[m] = o[m]
      BY <1>1, <1>2, <1>4
    <2>2. PICK j \in 1..n : o[j] < x[j] /\ \A m \in 1..(j - 1) : o[m] = x[m]
      BY <1>1, <1>2, <1>3
    <2>3. x[k] \in Nat /\ o[k] \in Nat /\ x[j] \in Nat /\ o[j] \in Nat
      BY <1>1, <1>2
    <2> HIDE DEF P
    <2>4. k \in 1..(j - 1) \/ j \in 1..(k - 1) \/ j = k
      OBVIOUS
    <2>5. CASE k \in 1..(j - 1)
      BY <2>1, <2>2, <2>3, <2>5
    <2>6. CASE j \in 1..(k - 1)
      BY <2>1, <2>2, <2>3, <2>6
    <2>7. CASE j = k
      BY <2>1, <2>2, <2>3, <2>7
    <2> QED BY <2>4, <2>5, <2>6, <2>7
  <1>5. LexLeast(orders) = CHOOSE x \in orders : P(x)
    BY Zenon DEF LexLeast
  <1> HIDE DEF P
  <1> QED BY <1>2, <1>3, <1>4, <1>5, Zenon

\* An order of places is an order of the ids at those places.
LEMMA AlongIs ==
  ASSUME NEW n \in Nat, NEW ns, Graph(ns, n), NEW t, t = CausesOf(ns), NEW B, B = IdsOf(ns),
         NEW E, E = Succ(Links(ns)), NEW rank, NEW o, Sorted(E, n, rank, o, n), o # Violation,
         NEW q, q = IdsAlong(ns, o)
  PROVE  /\ IdOrder(t, B, n, q)
         /\ (\A j \in 1..n : rank[j] = ns[j].id) => Greedy(t, B, n, q)
  <1>1. o \in [1..n -> 1..n] /\ \A a, b \in 1..n : o[a] = o[b] => a = b
    BY DEF Sorted
  <1>2. DOMAIN o = 1..n
    BY <1>1
  <1>3. q = [k \in 1..n |-> ns[o[k]].id]
    BY <1>2, Zenon DEF IdsAlong
  <1>4. \A k \in 1..n : q[k] = ns[o[k]].id
    BY <1>3
  <1>5. \A i \in 1..n : t[ns[i].id] = ToSet(ns[i].causes) \cap B /\ ns[i].id \in B
    BY CausesAre, IdxIs
  <1>6. \A i, y \in 1..n : y \in E[i] <=> ns[y].id \in ToSet(ns[i].causes)
    BY LinksAre
  <1>7. \A c \in B : \E y \in 1..n : ns[y].id = c
    BY DEF IdsOf, Graph
  <1>8. q \in [1..n -> B]
    BY <1>1, <1>3, <1>5
  <1>9. \A a, b \in 1..n : q[a] = q[b] => a = b
    <2> SUFFICES ASSUME NEW a \in 1..n, NEW b \in 1..n, q[a] = q[b] PROVE a = b
      OBVIOUS
    <2>1. o[a] \in 1..n /\ o[b] \in 1..n /\ ns[o[a]].id = ns[o[b]].id
      BY <1>1, <1>4
    <2>2. o[a] = o[b]
      BY <2>1 DEF Graph
    <2> QED BY <1>1, <2>2
  <1>10. ASSUME NEW a \in 1..n, NEW y \in 1..n PROVE ns[y].id \in Before(q, a) <=> y \in Before(o, a)
    <2>1. ns[y].id \in Before(q, a) <=> \E b \in 1..n : b < a /\ q[b] = ns[y].id
      BY BeforeIs
    <2>2. y \in Before(o, a) <=> \E b \in 1..n : b < a /\ o[b] = y
      BY BeforeIs
    <2>3. ASSUME NEW b \in 1..n PROVE q[b] = ns[y].id <=> o[b] = y
      <3>1. q[b] = ns[o[b]].id /\ o[b] \in 1..n
        BY <1>1, <1>4
      <3> QED BY <3>1 DEF Graph
    <2> QED BY <2>1, <2>2, <2>3, Zenon
  <1>11. ASSUME NEW a \in 1..n, NEW i \in 1..n
         PROVE  t[ns[i].id] \subseteq Before(q, a) <=> (\A y \in E[i] \cap 1..n : y \in Before(o, a))
    <2>1. ASSUME \A y \in E[i] \cap 1..n : y \in Before(o, a), NEW c \in t[ns[i].id] PROVE c \in Before(q, a)
      <3>1. c \in ToSet(ns[i].causes) /\ c \in B
        BY <1>5
      <3>2. PICK y \in 1..n : ns[y].id = c
        BY <1>7, <3>1
      <3>3. y \in E[i]
        BY <1>6, <3>1, <3>2
      <3> QED BY <1>10, <2>1, <3>2, <3>3
    <2>2. ASSUME t[ns[i].id] \subseteq Before(q, a), NEW y \in E[i] \cap 1..n PROVE y \in Before(o, a)
      <3>1. ns[y].id \in t[ns[i].id]
        BY <1>5, <1>6
      <3>2. ns[y].id \in Before(q, a)
        BY <2>2, <3>1
      <3> QED BY <1>10, <3>2
    <2> QED BY <2>1, <2>2
  <1>12. ASSUME NEW a \in 1..n PROVE t[q[a]] \subseteq Before(q, a)
    <2>1. q[a] = ns[o[a]].id /\ o[a] \in 1..n
      BY <1>1, <1>4
    <2>2. E[o[a]] \subseteq Before(o, a)
      BY DEF Sorted
    <2> QED BY <1>11, <2>1, <2>2
  <1>13. ASSUME \A j \in 1..n : rank[j] = ns[j].id, NEW a \in 1..n, NEW c \in B \ Before(q, a), t[c] \subseteq Before(q, a)
         PROVE  q[a] <= c
    <2>1. PICK y \in 1..n : ns[y].id = c
      BY <1>7
    <2>2. y \notin Before(o, a)
      BY <1>10, <2>1
    <2>3. E[y] \subseteq Before(o, a)
      <3>1. \A z \in E[y] \cap 1..n : z \in Before(o, a)
        BY <1>11, <1>13, <2>1
      <3>2. E \in [1..n -> SUBSET (1..n)]
        BY LinksAre, SuccFacts
      <3> QED BY <3>1, <3>2
    <2>4. rank[o[a]] <= rank[y]
      BY <2>2, <2>3 DEF Sorted
    <2>5. rank[o[a]] = q[a] /\ rank[y] = c
      BY <1>1, <1>4, <1>13, <2>1
    <2> QED BY <2>4, <2>5
  <1> QED BY <1>8, <1>9, <1>12, <1>13 DEF IdOrder, Greedy

LEMMA OrderIsValid ==
  ASSUME NEW n \in Nat, NEW ns, Graph(ns, n), NEW o, IdOrder(CausesOf(ns), IdsOf(ns), n, o)
  PROVE  CausallyValid(o, ns)
  <1>1. PICK t, B : t = CausesOf(ns) /\ B = IdsOf(ns)
    OBVIOUS
  <1>2. IdOrder(t, B, n, o)
    BY <1>1
  <1>3. o \in [1..n -> B] /\ DOMAIN o = 1..n /\ \A a, b \in 1..n : o[a] = o[b] => a = b
    BY <1>2 DEF IdOrder
  <1>4. DOMAIN ns = 1..n
    BY DEF Graph
  <1>5. ASSUME NEW i \in 1..n, NEW c \in ToSet(ns[i].causes), ns[i].id \in ToSet(o), c \in ToSet(o)
        PROVE  Place(o, c) <= Place(o, ns[i].id)
    <2>1. PICK a \in 1..n : o[a] = ns[i].id
      BY <1>3, <1>5, Zenon DEF ToSet
    <2>2. c \in B
      BY <1>3, <1>5 DEF ToSet
    <2>3. c \in t[o[a]]
      BY <1>1, <2>1, <2>2, CausesAre
    <2>4. c \in Before(o, a)
      BY <1>2, <2>3 DEF IdOrder
    <2>5. PICK b \in 1..n : b < a /\ o[b] = c
      BY <2>4, BeforeIs
    <2>6. Place(o, o[a]) = a /\ Place(o, o[b]) = b
      BY <1>3, PlaceIs
    <2> QED BY <2>1, <2>5, <2>6
  <1> QED BY <1>4, <1>5 DEF CausallyValid

\* The lists of objects that the program holds.
Listed(ns, n) == Graph(ns, n) /\ OnceEach(ns, n) /\ IdsOf(ns) \subseteq Nat \ {0}

\* The merge completes and is the least order.
LEMMA MergeExact ==
  ASSUME NEW n \in Nat, NEW ns, Listed(ns, n), Acyclic(CausesOf(ns)), NEW q, q = Merge(ns)
  PROVE  q \in Extensions(ns) /\ q = LexLeast(Extensions(ns)) /\ q # Violation /\ CausallyValid(q, ns)
  <1>1. Graph(ns, n) /\ OnceEach(ns, n)
    BY DEF Listed
  <1>2. PICK t, B, E, rank : t = CausesOf(ns) /\ B = IdsOf(ns) /\ E = Succ(Links(ns)) /\ rank = [j \in DOMAIN ns |-> ns[j].id]
    OBVIOUS
  <1>3. B \in SUBSET Nat /\ 0 \notin B
    BY <1>2 DEF Listed
  <1>4. DOMAIN ns = 1..n
    BY <1>1 DEF Graph
  <1>5. rank \in [1..n -> Nat] /\ \A j \in 1..n : rank[j] = ns[j].id
    <2>1. \A j \in 1..n : ns[j].id \in B
      BY <1>1, <1>2, IdxIs
    <2> QED BY <1>2, <1>3, <1>4, <2>1
  <1>6. E \in [1..n -> SUBSET (1..n)] /\ Acyclic(E)
    <2>1. E \in [1..n -> SUBSET (1..n)]
      BY <1>1, <1>2, LinksAre, SuccFacts
    <2>2. Acyclic(E)
      BY <1>1, <1>2, CyclicExact
    <2> QED BY <2>1, <2>2
  <1>7. PICK o : o = Kahn(Indegrees(ns), rank, MergeTakes(ns))
    OBVIOUS
  <1>8. Counts(E, n, Indegrees(ns), MergeTakes(ns))
    BY <1>1, <1>2, CountsAre
  <1>9. Sorted(E, n, rank, o, n) /\ o # Violation
    BY <1>5, <1>6, <1>7, <1>8, KahnExact
  <1>10. q = IdsAlong(ns, o)
    BY <1>2, <1>7, Zenon DEF Merge, MergeTakes
  <1>11. IdOrder(t, B, n, q) /\ Greedy(t, B, n, q)
    BY <1>1, <1>2, <1>5, <1>9, <1>10, AlongIs
  <1>12. PICK X : X = Extensions(ns)
    OBVIOUS
  <1>13. \A x : x \in X <=> IdOrder(t, B, n, x)
    BY <1>1, <1>2, <1>12, ExtensionsAre
  <1>14. LexLeast(X) = q
    BY <1>3, <1>11, <1>13, LeastIs
  <1>15. q # Violation
    <2>1. Violation[1] = 0 /\ DOMAIN Violation = 1..1
      BY DEF Violation
    <2>2. q \in [1..n -> B]
      BY <1>11 DEF IdOrder
    <2>3. DOMAIN q = 1..n
      BY <2>2
    <2>4. 1 \in 1..n => q[1] # 0
      BY <1>3, <2>2
    <2>5. 1..n = 1..1 => 1 \in 1..n
      OBVIOUS
    <2> QED BY <2>1, <2>3, <2>4, <2>5
  <1>16. CausallyValid(q, ns)
    BY <1>1, <1>2, <1>11, OrderIsValid
  <1> QED BY <1>11, <1>12, <1>13, <1>14, <1>15, <1>16

\* So does the order of an audit log.
LEMMA TopoExact ==
  ASSUME NEW n \in Nat, NEW ns, Listed(ns, n), Acyclic(CausesOf(ns)), VerifyCausal(ns),
         \A i \in 1..n : ns[i].position \in Nat, NEW q, q = TopoOrder(ns)
  PROVE  q \in Extensions(ns) /\ CausallyValid(q, ns)
  <1>1. Graph(ns, n) /\ OnceEach(ns, n)
    BY DEF Listed
  <1>2. PICK t, B, E, rank :
          t = CausesOf(ns) /\ B = IdsOf(ns) /\ E = Succ(Links(ns)) /\ rank = [j \in DOMAIN ns |-> ns[j].position]
    OBVIOUS
  <1>3. DOMAIN ns = 1..n
    BY <1>1 DEF Graph
  <1>4. rank \in [1..n -> Nat]
    BY <1>2, <1>3
  <1>5. E \in [1..n -> SUBSET (1..n)] /\ Acyclic(E)
    <2>1. E \in [1..n -> SUBSET (1..n)]
      BY <1>1, <1>2, LinksAre, SuccFacts
    <2>2. Acyclic(E)
      BY <1>1, <1>2, CyclicExact
    <2> QED BY <2>1, <2>2
  <1>6. PICK o : o = Kahn(Indegrees(ns), rank, TopoTakes(ns))
    OBVIOUS
  <1>7. Counts(E, n, Indegrees(ns), TopoTakes(ns))
    BY <1>1, <1>2, CountsAre
  <1>8. Sorted(E, n, rank, o, n) /\ o # Violation
    BY <1>4, <1>5, <1>6, <1>7, KahnExact
  <1>9. q = IdsAlong(ns, o)
    BY <1>2, <1>6, Zenon DEF TopoOrder, TopoTakes
  <1>10. IdOrder(t, B, n, q)
    BY <1>1, <1>2, <1>8, <1>9, AlongIs
  <1>11. q \in Extensions(ns)
    BY <1>1, <1>2, <1>10, ExtensionsAre
  <1>12. CausallyValid(q, ns)
    BY <1>1, <1>2, <1>10, OrderIsValid
  <1> QED BY <1>11, <1>12

(***************************************************************************)
(* Rearranged lists                                                        *)
(***************************************************************************)
\* Two lists of the same ids with the same causes.
Alike(ns, ms, n) ==
  /\ \A i \in 1..n : \E j \in 1..n : ns[i].id = ms[j].id /\ ns[i].causes = ms[j].causes
  /\ \A j \in 1..n : \E i \in 1..n : ns[i].id = ms[j].id /\ ns[i].causes = ms[j].causes

LEMMA AlikeIs ==
  ASSUME NEW n \in Nat, NEW ns, Graph(ns, n), NEW ms, Graph(ms, n), Alike(ns, ms, n)
  PROVE  IdsOf(ns) = IdsOf(ms) /\ CausesOf(ns) = CausesOf(ms) /\ Extensions(ns) = Extensions(ms)
  <1>1. PICK B, C, s, t : B = IdsOf(ns) /\ C = IdsOf(ms) /\ s = CausesOf(ns) /\ t = CausesOf(ms)
    OBVIOUS
  <1>2. DOMAIN ns = 1..n /\ DOMAIN ms = 1..n
    BY DEF Graph
  <1>3. B = C
    <2>1. \A b : b \in B <=> \E i \in 1..n : ns[i].id = b
      BY <1>1, <1>2, Zenon DEF IdsOf
    <2>2. \A b : b \in C <=> \E j \in 1..n : ms[j].id = b
      BY <1>1, <1>2, Zenon DEF IdsOf
    <2>3. \A b : b \in B => b \in C
      BY <2>1, <2>2, Zenon DEF Alike
    <2>4. \A b : b \in C => b \in B
      BY <2>1, <2>2, Zenon DEF Alike
    <2> QED BY <2>3, <2>4
  <1>4. s \in [B -> SUBSET B] /\ \A i \in 1..n : s[ns[i].id] = ToSet(ns[i].causes) \cap B
    BY <1>1, CausesAre
  <1>5. t \in [C -> SUBSET C] /\ \A i \in 1..n : t[ms[i].id] = ToSet(ms[i].causes) \cap C
    BY <1>1, CausesAre
  <1>6. ASSUME NEW b \in B PROVE s[b] = t[b]
    <2>1. PICK i \in 1..n : ns[i].id = b
      BY <1>1, <1>2 DEF IdsOf
    <2>2. PICK j \in 1..n : ns[i].id = ms[j].id /\ ns[i].causes = ms[j].causes
      BY DEF Alike
    <2>3. s[ns[i].id] = ToSet(ns[i].causes) \cap B
      BY <1>4
    <2>4. t[ms[j].id] = ToSet(ms[j].causes) \cap C
      BY <1>5
    <2> QED BY <1>3, <2>1, <2>2, <2>3, <2>4, Zenon
  <1>7. s = t
    BY <1>3, <1>4, <1>5, <1>6
  <1>8. \A x : x \in Extensions(ns) <=> IdOrder(s, B, n, x)
    BY <1>1, ExtensionsAre
  <1>9. \A x : x \in Extensions(ms) <=> IdOrder(t, C, n, x)
    BY <1>1, ExtensionsAre
  <1>10. Extensions(ns) = Extensions(ms)
    BY <1>3, <1>7, <1>8, <1>9, Zenon
  <1> QED BY <1>1, <1>3, <1>7, <1>10

\* A rearranged list.
LEMMA ArrangedIs ==
  ASSUME NEW n \in Nat, NEW ns, Listed(ns, n), NEW ms \in SetToSeqs(ToSet(ns))
  PROVE  Listed(ms, n) /\ Alike(ns, ms, n) /\ \A i \in 1..n : \E j \in 1..n : ms[i] = ns[j]
  <1>1. Graph(ns, n) /\ OnceEach(ns, n) /\ IdsOf(ns) \subseteq Nat \ {0}
    BY DEF Listed
  <1>2. DOMAIN ns = 1..n
    BY <1>1 DEF Graph
  <1>3. PICK S, A : S = ToSet(ns) /\ A = 1..n
    OBVIOUS
  <1>4. S = {ns[i] : i \in A}
    BY <1>2, <1>3 DEF ToSet
  <1>5. IsFiniteSet(S) /\ Cardinality(S) = n
    <2>1. PICK f : f = [i \in A |-> ns[i]]
      OBVIOUS
    <2>2. f \in [A -> S] /\ \A b \in S : \E i \in A : f[i] = b
      BY <1>4, <2>1
    <2>3. \A i, j \in A : f[i] = f[j] => i = j
      BY <1>1, <1>3, <2>1 DEF Graph
    <2>4. f \in Injection(A, S)
      BY <2>2, <2>3 DEF Injection, IsInjective
    <2>5. f \in Surjection(A, S)
      BY <2>2 DEF Surjection
    <2>6. ExistsBijection(A, S)
      BY <2>4, <2>5 DEF Bijection, ExistsBijection
    <2>7. IsFiniteSet(A) /\ Cardinality(A) = n
      BY <1>3, FS_Interval
    <2> QED BY <2>6, <2>7, FS_Bijection
  <1>6. /\ ms \in [1..n -> S] /\ \A a, b \in 1..n : ms[a] = ms[b] => a = b
        /\ \A c \in S : \E a \in 1..n : ms[a] = c
    BY <1>3, <1>5, ListsAre
  <1>7. \A i \in 1..n : \E j \in 1..n : ms[i] = ns[j]
    BY <1>3, <1>4, <1>6
  <1>8. \A j \in 1..n : \E i \in 1..n : ms[i] = ns[j]
    BY <1>3, <1>4, <1>6
  <1>9. Alike(ns, ms, n)
    <2>1. \A i \in 1..n : \E j \in 1..n : ns[i].id = ms[j].id /\ ns[i].causes = ms[j].causes
      BY <1>8, Zenon
    <2>2. \A j \in 1..n : \E i \in 1..n : ns[i].id = ms[j].id /\ ns[i].causes = ms[j].causes
      BY <1>7, Zenon
    <2> QED BY <2>1, <2>2, Zenon DEF Alike
  <1>10. Graph(ms, n)
    <2>1. DOMAIN ms = 1..n /\ Len(ms) = n
      BY <1>6
    <2>2. ASSUME NEW i \in 1..n PROVE \E U : ms[i].causes \in Seq(U)
      <3>1. PICK j \in 1..n : ms[i] = ns[j]
        BY <1>7
      <3> QED BY <1>1, <3>1 DEF Graph
    <2>3. ASSUME NEW i \in 1..n, NEW j \in 1..n, ms[i].id = ms[j].id PROVE i = j
      <3>1. PICK a \in 1..n : ms[i] = ns[a]
        BY <1>7
      <3>2. PICK b \in 1..n : ms[j] = ns[b]
        BY <1>7
      <3>3. a = b
        BY <1>1, <2>3, <3>1, <3>2 DEF Graph
      <3> QED BY <1>6, <3>1, <3>2, <3>3
    <2> QED BY <2>1, <2>2, <2>3 DEF Graph
  <1>11. OnceEach(ms, n)
    BY <1>1, <1>7 DEF OnceEach
  <1>12. IdsOf(ms) = IdsOf(ns)
    BY <1>1, <1>9, <1>10, AlikeIs
  <1> QED BY <1>1, <1>7, <1>9, <1>10, <1>11, <1>12 DEF Listed

LEMMA VerdictExact ==
  ASSUME NEW n \in Nat, NEW ns, Graph(ns, n)
  PROVE  VerifyCausal(ns) <=> Acyclic(CausesOf(ns)) /\ ~FutureCause(ns)
  BY CyclicExact DEF VerifyCausal

\* Without positions, only a cycle can make a merge fail.
LEMMA ReconcileIs ==
  ASSUME NEW n \in Nat, NEW ns, Graph(ns, n), NEW I, NEW C, NEW P,
         \A i \in 1..n : ns[i] \in [id : I, causes : C, position : P]
  PROVE  Reconcile(ns) = IF Acyclic(CausesOf(ns)) THEN Merge(ns) ELSE Violation
  <1>1. DOMAIN ns = 1..n
    BY DEF Graph
  <1>2. PICK z : z = [i \in DOMAIN ns |-> [ns[i] EXCEPT !.position = 0]]
    OBVIOUS
  <1>3. z = [i \in 1..n |-> [ns[i] EXCEPT !.position = 0]]
    BY <1>1, <1>2, Zenon
  <1>4. ASSUME NEW i \in 1..n PROVE z[i].id = ns[i].id /\ z[i].causes = ns[i].causes /\ z[i].position = 0
    <2>1. PICK r \in [id : I, causes : C, position : P] : r = ns[i]
      OBVIOUS
    <2>2. z[i] = [r EXCEPT !.position = 0]
      BY <1>3, <2>1, Zenon
    <2>3. [r EXCEPT !.position = 0].id = r.id /\ [r EXCEPT !.position = 0].causes = r.causes /\ [r EXCEPT !.position = 0].position = 0
      BY <2>1
    <2> QED BY <2>1, <2>2, <2>3, Zenon
  <1>5. Graph(z, n)
    <2>1. DOMAIN z = 1..n /\ Len(z) = n
      BY <1>3
    <2>2. \A i \in 1..n : \E U : z[i].causes \in Seq(U)
      BY <1>4 DEF Graph
    <2>3. \A i, j \in 1..n : z[i].id = z[j].id => i = j
      BY <1>4 DEF Graph
    <2> QED BY <2>1, <2>2, <2>3, Zenon DEF Graph
  <1>6. Alike(ns, z, n)
    BY <1>4, Zenon DEF Alike
  <1>7. CausesOf(z) = CausesOf(ns)
    BY <1>5, <1>6, AlikeIs
  <1>8. ~FutureCause(z)
    <2> SUFFICES ASSUME NEW i \in DOMAIN z, NEW c \in ToSet(z[i].causes) \cap IdsOf(z),
                        z[Idx(z, c)].position > z[i].position
                 PROVE  FALSE
      BY DEF FutureCause
    <2>1. DOMAIN z = 1..n
      BY <1>3
    <2>2. PICK y \in 1..n : z[y].id = c
      BY <2>1 DEF IdsOf
    <2>3. Idx(z, c) = y
      BY <1>5, <2>2, IdxIs
    <2>4. z[y].position = 0 /\ z[i].position = 0
      BY <1>4, <2>1
    <2> QED BY <2>3, <2>4
  <1>9. VerifyCausal(z) <=> Acyclic(CausesOf(ns))
    BY <1>5, <1>7, <1>8, VerdictExact
  <1> QED BY <1>2, <1>9, Zenon DEF Reconcile

LEMMA ReconcileExact ==
  ASSUME NEW n \in Nat, NEW ns, Listed(ns, n), \A i \in 1..n : ns[i] \in Node, Acyclic(CausesOf(ns)),
         NEW q, q = Reconcile(ns)
  PROVE  q = LexLeast(Extensions(ns)) /\ q # Violation
  <1>1. q = Merge(ns)
    BY ReconcileIs, Zenon DEF Listed, Node
  <1> QED BY <1>1, MergeExact

(***************************************************************************)
(* Frames                                                                  *)
(***************************************************************************)
AllFrames(names, N) ==
  /\ names \in [1..N -> Frames] /\ \A i, j \in 1..N : names[i] = names[j] => i = j
  /\ \A f \in Frames : \E i \in 1..N : names[i] = f

LEMMA FramesListed ==
  ASSUME NEW N, N = Cardinality(Frames), NEW names, names = SetToSeq(Frames)
  PROVE  N \in Nat /\ AllFrames(names, N)
  <1>1. IsFiniteSet(Frames)
    BY CausalConstants, Zenon
  <1>2. N \in Nat /\ ExistsBijection(1..N, Frames)
    BY <1>1, FS_CardinalityType
  <1>3. PICK g : g \in Bijection(1..N, Frames)
    BY <1>2 DEF ExistsBijection
  <1>4. g \in [1..N -> Frames] /\ IsInjective(g)
    BY <1>3 DEF Bijection, Injection
  <1>5. names \in [1..N -> Frames] /\ IsInjective(names)
    BY <1>4, Zenon DEF SetToSeq
  <1>6. PICK A : A = 1..N
    OBVIOUS
  <1>7. names \in Injection(A, Frames)
    BY <1>5, <1>6 DEF Injection
  <1>8. Cardinality(A) = N
    BY <1>2, <1>6, FS_Interval
  <1>9. names \in Surjection(A, Frames)
    BY <1>1, <1>7, <1>8, FS_Injection
  <1>10. \A f \in Frames : \E i \in 1..N : names[i] = f
    BY <1>6, <1>9 DEF Surjection
  <1>11. \A i, j \in 1..N : names[i] = names[j] => i = j
    BY <1>5 DEF IsInjective
  <1> QED BY <1>2, <1>5, <1>10, <1>11, Zenon DEF AllFrames

FrameList(ns, N, names, p, none) ==
  ns = [i \in 1..N |-> [id |-> names[i], causes |-> IF p[names[i]] = none THEN << >> ELSE <<p[names[i]]>>]]

LEMMA FrameNodesAre ==
  ASSUME NEW none, none \notin Frames, NEW p \in [Frames -> Frames \cup {none}],
         NEW N \in Nat, NEW names, AllFrames(names, N), NEW ns, FrameList(ns, N, names, p, none)
  PROVE  Graph(ns, N) /\ CausesOf(ns) = ParentOf(p)
  <1>1. /\ names \in [1..N -> Frames] /\ \A i, j \in 1..N : names[i] = names[j] => i = j
        /\ \A f \in Frames : \E i \in 1..N : names[i] = f
    BY Zenon DEF AllFrames
  <1>2. ns = [i \in 1..N |-> [id |-> names[i], causes |-> IF p[names[i]] = none THEN << >> ELSE <<p[names[i]]>>]]
    BY Zenon DEF FrameList
  <1>5. \A i \in 1..N : ns[i].id = names[i]
    BY <1>2
  <1>6. \A i \in 1..N : ns[i].id = names[i] /\ ns[i].causes = IF p[names[i]] = none THEN << >> ELSE <<p[names[i]]>>
    BY <1>2
  <1>7. Graph(ns, N)
    <2>1. DOMAIN ns = 1..N /\ Len(ns) = N
      BY <1>2
    <2>2. ASSUME NEW i \in 1..N PROVE ns[i].causes \in Seq({p[names[i]]})
      <3>1. PICK x : x = p[names[i]]
        OBVIOUS
      <3>2. << >> \in Seq({x}) /\ <<x>> \in Seq({x})
        OBVIOUS
      <3> QED BY <1>6, <3>1, <3>2, Zenon
    <2>3. \A i, j \in 1..N : ns[i].id = ns[j].id => i = j
      <3> SUFFICES ASSUME NEW i \in 1..N, NEW j \in 1..N, ns[i].id = ns[j].id PROVE i = j
        BY Zenon
      <3>1. names[i] = names[j]
        BY <1>5, Zenon
      <3> QED BY <1>1, <3>1
    <2> QED BY <2>1, <2>2, <2>3, Zenon DEF Graph
  <1>8. IdsOf(ns) = Frames
    <2>1. DOMAIN ns = 1..N
      BY <1>2
    <2>2. \A f : f \in IdsOf(ns) <=> \E i \in 1..N : ns[i].id = f
      BY <2>1, Zenon DEF IdsOf
    <2>3. \A f : f \in IdsOf(ns) => f \in Frames
      <3> SUFFICES ASSUME NEW f, f \in IdsOf(ns) PROVE f \in Frames
        OBVIOUS
      <3>1. PICK i \in 1..N : ns[i].id = f
        BY <2>2
      <3>2. names[i] \in Frames
        BY <1>1
      <3> QED BY <1>5, <3>1, <3>2
    <2>4. \A f : f \in Frames => f \in IdsOf(ns)
      <3> SUFFICES ASSUME NEW f \in Frames PROVE f \in IdsOf(ns)
        OBVIOUS
      <3>1. PICK i \in 1..N : names[i] = f
        BY <1>1
      <3> QED BY <1>6, <2>2, <3>1
    <2> QED BY <2>3, <2>4
  <1>9. PICK t : t = CausesOf(ns)
    OBVIOUS
  <1>10. t \in [Frames -> SUBSET Frames] /\ \A i \in 1..N : t[ns[i].id] = ToSet(ns[i].causes) \cap Frames
    <2>1. t \in [IdsOf(ns) -> SUBSET IdsOf(ns)] /\ \A i \in 1..N : t[ns[i].id] = ToSet(ns[i].causes) \cap IdsOf(ns)
      BY <1>7, <1>9, CausesAre
    <2> QED BY <1>8, <2>1, Zenon
  <1>11. ASSUME NEW f \in Frames PROVE t[f] = {p[f]} \cap Frames
    <2>1. PICK i \in 1..N : names[i] = f
      BY <1>1
    <2>2. t[f] = ToSet(ns[i].causes) \cap Frames
      BY <1>6, <1>10, <2>1
    <2>3. CASE p[f] = none
      <3>1. ns[i].causes = << >>
        BY <1>6, <2>1, <2>3
      <3>2. ToSet(<< >>) = {}
        BY DEF ToSet
      <3> QED BY <2>2, <2>3, <3>1, <3>2
    <2>4. CASE p[f] # none
      <3>1. ns[i].causes = <<p[f]>>
        BY <1>6, <2>1, <2>4
      <3>2. \A x : ToSet(<<x>>) = {x}
        BY DEF ToSet
      <3> QED BY <2>2, <3>1, <3>2
    <2> QED BY <2>3, <2>4
  <1>12. t = ParentOf(p)
    <2>1. t \in [Frames -> SUBSET Frames]
      BY <1>10
    <2> QED BY <1>11, <2>1 DEF ParentOf
  <1> QED BY <1>7, <1>9, <1>12

ParentsTyped == parent \in [Frames -> Frames \cup {""}]

LEMMA FramesExact ==
  ASSUME ParentsTyped
  PROVE  CheckFrameTree(parent) <=> Acyclic(ParentOf(parent))
  <1>1. PICK names : names = SetToSeq(Frames)
    OBVIOUS
  <1>2. PICK N : N = Cardinality(Frames)
    OBVIOUS
  <1>3. N \in Nat /\ AllFrames(names, N)
    BY <1>1, <1>2, FramesListed
  <1>4. PICK ns : ns = FrameNodes(parent)
    OBVIOUS
  <1>5. PICK none : none = ""
    BY Zenon
  <1>6. none \notin Frames /\ parent \in [Frames -> Frames \cup {none}]
    BY <1>5, CausalConstants, Zenon DEF ParentsTyped
  <1>7. FrameList(ns, N, names, parent, none)
    <2>1. DOMAIN names = 1..N
      BY <1>3 DEF AllFrames
    <2> QED BY <1>1, <1>4, <1>5, <2>1, Zenon DEF FrameNodes, FrameList
  <1>8. Graph(ns, N) /\ CausesOf(ns) = ParentOf(parent)
    BY <1>3, <1>6, <1>7, FrameNodesAre
  <1>9. Cyclic(Links(ns)) <=> ~Acyclic(CausesOf(ns))
    BY <1>3, <1>8, CyclicExact
  <1> QED BY <1>4, <1>8, <1>9, Zenon DEF CheckFrameTree

(***************************************************************************)
(* The states of the graph and of the frames                               *)
(***************************************************************************)
\* Scopes that do not overlap: each object came once, and names each cause once.
NodesTyped ==
  /\ nodes \in Seq(Node)
  /\ \A i, j \in 1..Len(nodes) : nodes[i].id = nodes[j].id => i = j
  /\ \A i \in 1..Len(nodes) : nodes[i].causes \in CauseLists

CausalInv == NodesTyped /\ ParentsTyped

LEMMA CauseListIs ==
  ASSUME NEW s \in CauseLists
  PROVE  s \in Seq(NodeIds) /\ \A k, m \in DOMAIN s : s[k] = s[m] => k = m
  <1>1. PICK U : U = NodeIds /\ U \subseteq Nat
    BY CausalConstants, Zenon
  <1>2. s \in SeqOf(NodeIds, Cardinality(NodeIds)) /\ \A k, m \in DOMAIN s : k < m => s[k] < s[m]
    BY Zenon DEF CauseLists
  <1>3. PICK j \in 0..Cardinality(NodeIds) : s \in [1..j -> NodeIds]
    BY <1>2, Zenon DEF SeqOf
  <1>4. j \in Nat
    BY <1>3, FS_CardinalityType
  <1>5. s \in Seq(NodeIds) /\ DOMAIN s = 1..j
    BY <1>3, <1>4
  <1>6. ASSUME NEW k \in DOMAIN s, NEW m \in DOMAIN s, s[k] = s[m] PROVE k = m
    <2>1. k \in Nat /\ m \in Nat
      BY <1>4, <1>5
    <2>2. s[k] \in Nat
      BY <1>1, <1>3, <1>5
    <2>3. ~(k < m)
      BY <1>2, <1>6, <2>2
    <2>4. ~(m < k)
      BY <1>2, <1>6, <2>2
    <2> QED BY <2>1, <2>3, <2>4
  <1> QED BY <1>5, <1>6

LEMMA NodesAreListed ==
  ASSUME NodesTyped, NEW n, n = Len(nodes)
  PROVE  n \in Nat /\ Listed(nodes, n) /\ \A i \in 1..n : nodes[i] \in Node /\ nodes[i].position \in Nat
  <1>1. nodes \in Seq(Node)
    BY DEF NodesTyped
  <1>2. n \in Nat /\ DOMAIN nodes = 1..n /\ \A i \in 1..n : nodes[i] \in Node
    BY <1>1
  <1>3. \A x \in Node : x.id \in NodeIds /\ x.position \in 0..MaxPosition /\ x.causes \in Seq(NodeIds)
    BY DEF Node
  <1>4. MaxPosition \in Nat /\ NodeIds \subseteq Nat \ {0}
    BY CausalConstants, Zenon
  <1>5. \A y \in 0..MaxPosition : y \in Nat
    BY <1>4
  <1>6. \A i \in 1..n : nodes[i].position \in Nat
    BY <1>2, <1>3, <1>5, Zenon
  <1>7. Graph(nodes, n)
    <2>1. \A i \in 1..n : \E U : nodes[i].causes \in Seq(U)
      BY <1>2, <1>3, Zenon
    <2>2. \A i, j \in 1..n : nodes[i].id = nodes[j].id => i = j
      BY Zenon DEF NodesTyped
    <2> QED BY <1>2, <2>1, <2>2, Zenon DEF Graph
  <1>8. OnceEach(nodes, n)
    BY CauseListIs, Zenon DEF OnceEach, NodesTyped
  <1>9. IdsOf(nodes) \subseteq Nat \ {0}
    <2>1. \A i \in 1..n : nodes[i].id \in Nat \ {0}
      BY <1>2, <1>3, <1>4
    <2> QED BY <1>2, <2>1 DEF IdsOf
  <1> QED BY <1>2, <1>6, <1>7, <1>8, <1>9, Zenon DEF Listed

LEMMA CausalInvExact == ASSUME CausalInv PROVE CausalOrderExact
  <1>1. NodesTyped /\ ParentsTyped
    BY DEF CausalInv
  <1>2. PICK n : n = Len(nodes)
    OBVIOUS
  <1>3. n \in Nat /\ Listed(nodes, n) /\ \A i \in 1..n : nodes[i] \in Node /\ nodes[i].position \in Nat
    BY <1>1, <1>2, NodesAreListed
  <1>4. Graph(nodes, n)
    BY <1>3 DEF Listed
  <1>5. VerdictIsReachability
    BY <1>3, <1>4, VerdictExact DEF VerdictIsReachability
  <1>6. FrameTreeIsForest
    BY <1>1, FramesExact, Zenon DEF FrameTreeIsForest
  <1>7. ASSUME Acyclic(CausesOf(nodes)), NEW least, least = LexLeast(Extensions(nodes))
        PROVE  /\ \A arranged \in SetToSeqs(ToSet(nodes)) : Reconcile(arranged) = least
               /\ \A claimed \in SetToSeqs(IdsOf(nodes)) : VerifyReconcileOrder(claimed, nodes) = "verified" <=> claimed = least
    <2>1. ASSUME NEW ms \in SetToSeqs(ToSet(nodes)) PROVE Reconcile(ms) = least
      <3>1. Listed(ms, n) /\ Alike(nodes, ms, n) /\ \A i \in 1..n : \E j \in 1..n : ms[i] = nodes[j]
        BY <1>3, ArrangedIs
      <3>2. Graph(ms, n)
        BY <3>1 DEF Listed
      <3>3. CausesOf(nodes) = CausesOf(ms) /\ Extensions(nodes) = Extensions(ms)
        BY <1>3, <1>4, <3>1, <3>2, AlikeIs
      <3>4. \A i \in 1..n : ms[i] \in Node
        BY <1>3, <3>1, Zenon
      <3>5. Acyclic(CausesOf(ms))
        BY <1>7, <3>3
      <3>6. Reconcile(ms) = LexLeast(Extensions(ms))
        BY <1>3, <3>1, <3>4, <3>5, ReconcileExact
      <3> QED BY <1>7, <3>3, <3>6, Zenon
    <2>2. PICK q : q = Reconcile(nodes)
      OBVIOUS
    <2>3. q = least /\ q # Violation
      BY <1>3, <1>7, <2>2, ReconcileExact
    <2>4. ASSUME NEW claimed PROVE VerifyReconcileOrder(claimed, nodes) = "verified" <=> claimed = least
      <3>1. VerifyReconcileOrder(claimed, nodes) = IF q = claimed THEN "verified" ELSE "ReconcileMismatch"
        BY <2>2, <2>3, Zenon DEF VerifyReconcileOrder
      <3> QED BY <2>3, <3>1
    <2> QED BY <2>1, <2>4
  <1>8. ScopeIndependent
    BY <1>7, Zenon DEF ScopeIndependent
  <1>9. OrdersAreExtensions
    <2> SUFFICES ASSUME VerifyCausal(nodes), NEW order, order = TopoOrder(nodes) \/ order = GraphReconcile(nodes)
                 PROVE  order \in Extensions(nodes) /\ CausallyValid(order, nodes)
      BY Zenon DEF OrdersAreExtensions
    <2>1. Acyclic(CausesOf(nodes))
      BY <1>3, <1>4, VerdictExact
    <2>2. CASE order = TopoOrder(nodes)
      BY <1>3, <2>1, <2>2, TopoExact
    <2>3. CASE order = GraphReconcile(nodes)
      <3>1. order = Merge(nodes)
        BY <2>3, Zenon DEF GraphReconcile
      <3> QED BY <1>3, <2>1, <3>1, MergeExact
    <2> QED BY <2>2, <2>3
  <1> QED BY <1>5, <1>6, <1>8, <1>9, Zenon DEF CausalOrderExact

LEMMA AcceptKeepsNodes ==
  ASSUME NodesTyped, Overlap = FALSE, NEW id \in NodeIds, NEW causes \in CauseLists, NEW position \in 0..MaxPosition,
         Accept(id, causes, position)
  PROVE  NodesTyped'
  <1>1. PICK r : r = [id |-> id, causes |-> causes, position |-> position]
    OBVIOUS
  <1>2. nodes' = Append(nodes, r) /\ id \notin IdsOf(nodes)
    BY <1>1, Zenon DEF Accept
  <1>3. causes \in Seq(NodeIds)
    BY CauseListIs
  <1>4. r \in Node /\ r.id = id /\ r.causes = causes
    BY <1>1, <1>3 DEF Node
  <1>5. nodes \in Seq(Node)
    BY DEF NodesTyped
  <1>6. PICK n : n = Len(nodes) /\ n \in Nat /\ nodes \in [1..n -> Node]
    BY <1>5
  <1>7. PICK q, S : q = nodes' /\ S = Node
    OBVIOUS
  <1>8. q = Append(nodes, r) /\ nodes \in [1..n -> S] /\ r \in S
    BY <1>2, <1>4, <1>6, <1>7
  <1>9. Appended(S, n, nodes, r, q)
    BY <1>6, <1>8, AppendIs
  <1>10. q \in [1..(n + 1) -> S] /\ q[n + 1] = r /\ \A a \in 1..n : q[a] = nodes[a]
    BY <1>9 DEF Appended
  <1>11. q \in Seq(S) /\ Len(q) = n + 1
    <2> HIDE <1>8
    <2> QED BY <1>6, <1>10
  <1>12. \A a \in 1..(n + 1) : a = n + 1 \/ a \in 1..n
    BY <1>6
  <1>13. \A a \in 1..n : nodes[a].id # id
    BY <1>2, <1>6 DEF IdsOf
  <1>14. ASSUME NEW i \in 1..(n + 1), NEW j \in 1..(n + 1), q[i].id = q[j].id PROVE i = j
    <2>1. CASE i = n + 1 /\ j \in 1..n
      BY <1>4, <1>10, <1>13, <1>14, <2>1
    <2>2. CASE j = n + 1 /\ i \in 1..n
      BY <1>4, <1>10, <1>13, <1>14, <2>2
    <2>3. CASE i \in 1..n /\ j \in 1..n
      BY <1>6, <1>10, <1>14, <2>3 DEF NodesTyped
    <2> QED BY <1>12, <2>1, <2>2, <2>3
  <1>15. ASSUME NEW i \in 1..(n + 1) PROVE q[i].causes \in CauseLists
    <2>1. CASE i = n + 1
      BY <1>4, <1>10, <2>1
    <2>2. CASE i \in 1..n
      BY <1>6, <1>10, <2>2 DEF NodesTyped
    <2> QED BY <1>12, <2>1, <2>2
  <1>16. /\ q \in Seq(Node) /\ \A i, j \in 1..Len(q) : q[i].id = q[j].id => i = j
         /\ \A i \in 1..Len(q) : q[i].causes \in CauseLists
    BY <1>7, <1>11, <1>14, <1>15, Zenon
  <1> QED BY <1>7, <1>16, Zenon DEF NodesTyped, CauseLists, Node

LEMMA SetParentKeepsFrames ==
  ASSUME ParentsTyped, NEW f \in Frames, NEW p \in Frames, SetParent(f, p)
  PROVE  ParentsTyped'
  <1>1. PICK none : none = ""
    BY Zenon
  <1>2. parent \in [Frames -> Frames \cup {none}] /\ parent' = [parent EXCEPT ![f] = p]
    BY <1>1, Zenon DEF ParentsTyped, SetParent
  <1>3. parent' \in [Frames -> Frames \cup {none}]
    BY <1>2
  <1> QED BY <1>1, <1>3, Zenon DEF ParentsTyped

(***************************************************************************)
(* While scopes do not overlap, order is causal order: verify_causal and   *)
(* check_frame_tree accept exactly what has no cycle, topo_order and both  *)
(* reconciles put every object once and after its causes, and every        *)
(* verifier of the same objects computes the same order, the least by      *)
(* content id, however they were split into scopes.                        *)
(***************************************************************************)
THEOREM CausalOrderTheorem ==
  ASSUME Overlap = FALSE
  PROVE  CausalSpec => []CausalOrderExact
  <1>1. CausalInit => CausalInv
    <2> SUFFICES ASSUME CausalInit PROVE CausalInv
      OBVIOUS
    <2>1. nodes = << >> /\ parent = [f \in Frames |-> ""]
      BY Zenon DEF CausalInit
    <2>2. NodesTyped
      <3>1. nodes = << >>
        BY <2>1, Zenon
      <3> QED BY <3>1 DEF NodesTyped
    <2>3. ParentsTyped
      BY <2>1, Zenon DEF ParentsTyped
    <2> QED BY <2>2, <2>3 DEF CausalInv
  <1>2. CausalInv /\ [CausalNext]_causalvars => CausalInv'
    <2> SUFFICES ASSUME NodesTyped, ParentsTyped, [CausalNext]_causalvars PROVE NodesTyped' /\ ParentsTyped'
      BY Zenon DEF CausalInv
    <2>1. ASSUME NEW id \in NodeIds, NEW causes \in CauseLists, NEW position \in 0..MaxPosition, Accept(id, causes, position)
          PROVE  NodesTyped' /\ ParentsTyped'
      <3>1. NodesTyped'
        BY <2>1, AcceptKeepsNodes
      <3>2. parent' = parent
        BY <2>1, Zenon DEF Accept
      <3> QED BY <3>1, <3>2, Zenon DEF ParentsTyped
    <2>2. ASSUME NEW f \in Frames, NEW p \in Frames, SetParent(f, p) PROVE NodesTyped' /\ ParentsTyped'
      <3>1. ParentsTyped'
        BY <2>2, SetParentKeepsFrames
      <3>2. nodes' = nodes
        BY <2>2, Zenon DEF SetParent
      <3> QED BY <3>1, <3>2, Zenon DEF NodesTyped, CauseLists, Node
    <2>3. CASE UNCHANGED causalvars
      <3>1. nodes' = nodes /\ parent' = parent
        BY <2>3, Zenon DEF causalvars
      <3> QED BY <3>1, Zenon DEF NodesTyped, ParentsTyped, CauseLists, Node
    <2> QED BY <2>1, <2>2, <2>3, Zenon DEF CausalNext
  <1>3. CausalInv => CausalOrderExact
    BY CausalInvExact
  <1> QED BY <1>1, <1>2, <1>3, PTL DEF CausalSpec

------------------------------------------------------------------------------
(***************************************************************************)
(* Conformance: recursions over a script, an order or a buffer             *)
(***************************************************************************)
\* A function that keeps the recursion wherever its values are typed solves it.
LEMMA RunsFrom ==
  ASSUME NEW N \in Nat, NEW X, NEW b \in X, NEW st \in [(1..N) \X X -> X], NEW F,
         F = [k \in 0..N |-> F[k]], F[0] = b,
         \A k \in 1..N : F[k - 1] \in X => F[k] = st[<<k, F[k - 1]>>]
  PROVE  Solves(F, N, X, b, st)
  <1> DEFINE G == {k \in 0..N : F[k] \in X}
  <1>1. 0 \in G
    OBVIOUS
  <1>2. \A k \in 0..N : k < N /\ k \in G => k + 1 \in G
    <2> SUFFICES ASSUME NEW k \in 0..N, k < N, k \in G PROVE k + 1 \in G
      BY Zenon
    <2>0. F[k] \in X /\ k + 1 \in 0..N
      OBVIOUS
    <2>1. k + 1 \in 1..N /\ (k + 1) - 1 = k
      OBVIOUS
    <2>2. F[k + 1] = st[<<k + 1, F[k]>>] /\ <<k + 1, F[k]>> \in (1..N) \X X
      BY <2>0, <2>1
    <2>3. F[k + 1] \in X
      BY <2>2
    <2> QED BY <2>0, <2>3
  <1>3. \A k \in 0..N : F[k] \in X
    <2>1. \A k \in 0..N : k \in G
      <3> HIDE DEF G
      <3> QED BY <1>1, <1>2, AllUpTo
    <2> QED BY <2>1
  <1>4. F \in [0..N -> X]
    BY <1>3
  <1>5. \A k \in 1..N : F[k] = st[<<k, F[k - 1]>>]
    <2> SUFFICES ASSUME NEW k \in 1..N PROVE F[k] = st[<<k, F[k - 1]>>]
      OBVIOUS
    <2>1. k - 1 \in 0..N
      OBVIOUS
    <2> QED BY <1>3, <2>1
  <1> QED BY <1>4, <1>5 DEF Solves

\* The buffer that _read squeezes is as long as the read needs.
GrowBody(len, need, f, k) ==
  IF k = 0 THEN len ELSE IF f[k - 1] < need THEN 2 * f[k - 1] ELSE f[k - 1]
GrowFn(len, need) == CHOOSE f : f = [k \in 0..need |-> GrowBody(len, need, f, k)]

LEMMA DoubledIs ==
  ASSUME NEW len \in Nat \ {0}, NEW need \in Nat
  PROVE  Doubled(len, need) \in Nat \ {0} /\ Doubled(len, need) >= need
  <1> DEFINE F == GrowFn(len, need)
             X == Nat \ {0}
             st == [p \in (1..need) \X X |-> IF p[2] < need THEN 2 * p[2] ELSE p[2]]
  <1>1. Doubled(len, need) = F[need]
    BY Zenon DEF Doubled, GrowFn, GrowBody
  <1>2. st \in [(1..need) \X X -> X]
    OBVIOUS
  <1>3. \A k \in 1..need, x \in X : st[<<k, x>>] = IF x < need THEN 2 * x ELSE x
    OBVIOUS
  <1> HIDE DEF st
  <1>4. PICK g : Solves(g, need, X, len, st)
    BY <1>2, Iterated, Zenon
  <1>5. g = [k \in 0..need |-> GrowBody(len, need, g, k)]
    <2>1. ASSUME NEW k \in 0..need PROVE g[k] = GrowBody(len, need, g, k)
      <3>1. CASE k = 0
        BY <1>4, <3>1 DEF Solves, GrowBody
      <3>2. CASE k # 0
        <4>1. k \in 1..need /\ k - 1 \in 0..need
          BY <3>2
        <4>2. g[k - 1] \in X /\ g[k] = st[<<k, g[k - 1]>>]
          BY <1>4, <4>1 DEF Solves
        <4> QED BY <1>3, <3>2, <4>1, <4>2 DEF GrowBody
      <3> QED BY <3>1, <3>2
    <2> QED BY <1>4, <2>1 DEF Solves
  <1>6. F = [k \in 0..need |-> GrowBody(len, need, F, k)]
    BY <1>5, Zenon DEF GrowFn
  <1> HIDE DEF F
  <1>7. F = [k \in 0..need |-> F[k]] /\ \A k \in 0..need : F[k] = GrowBody(len, need, F, k)
    BY <1>6
  <1>8. F[0] = len
    BY <1>7 DEF GrowBody
  <1>9. ASSUME NEW k \in 1..need, F[k - 1] \in X PROVE F[k] = st[<<k, F[k - 1]>>]
    <2>1. k \in 0..need /\ k # 0
      BY <1>9
    <2>2. F[k] = IF F[k - 1] < need THEN 2 * F[k - 1] ELSE F[k - 1]
      BY <1>7, <2>1, Zenon DEF GrowBody
    <2>3. st[<<k, F[k - 1]>>] = IF F[k - 1] < need THEN 2 * F[k - 1] ELSE F[k - 1]
      BY <1>3, <1>9, Zenon
    <2> QED BY <2>2, <2>3
  <1>10. Solves(F, need, X, len, st)
    BY <1>2, <1>7, <1>8, <1>9, RunsFrom
  <1>11. \A k \in 0..need : F[k] \in X
    BY <1>10 DEF Solves
  <1> DEFINE G == {k \in 0..need : F[k] >= need \/ F[k] > k}
  <1>12. 0 \in G
    BY <1>8
  <1>13. \A k \in 0..need : k < need /\ k \in G => k + 1 \in G
    <2> SUFFICES ASSUME NEW k \in 0..need, k < need, F[k] >= need \/ F[k] > k PROVE F[k + 1] >= need \/ F[k + 1] > k + 1
      OBVIOUS
    <2>1. k + 1 \in 0..need /\ (k + 1) - 1 = k /\ k + 1 # 0
      OBVIOUS
    <2>2. F[k + 1] = IF F[k] < need THEN 2 * F[k] ELSE F[k]
      BY <1>7, <2>1 DEF GrowBody
    <2> QED BY <1>11, <2>1, <2>2
  <1>14. \A k \in 0..need : k \in G
    <2> HIDE DEF G
    <2> QED BY <1>12, <1>13, AllUpTo
  <1> QED BY <1>1, <1>11, <1>14

(***************************************************************************)
(* Conformance: the hash of a thread, the case in three frameworks         *)
(***************************************************************************)
\* A thread's cursor stands behind what the thread has drawn from its own seed.
CursorOf(c, d) ==
  /\ c \in [seed : Nat, index : Nat, len : Nat] /\ d \in [seed : Nat, octets : Seq(Nat \X Nat)]
  /\ c.seed = d.seed /\ c.index = Len(d.octets) /\ (c.seed # 0 => c.len # 0)
  /\ d.octets = Squeeze(d.seed, Len(d.octets))

ShakeInv ==
  /\ cursor = [t \in Pools |-> cursor[t]] /\ drawn = [t \in Pools |-> drawn[t]]
  /\ \A t \in Pools : CursorOf(cursor[t], drawn[t])

LEMMA ShakeInit == ConfInit => ShakeInv
  <1> SUFFICES ASSUME ConfInit PROVE ShakeInv
    OBVIOUS
  <1>1. cursor = [t \in Pools |-> FreshCursor] /\ drawn = [t \in Pools |-> [seed |-> 0, octets |-> << >>]]
    BY DEF ConfInit
  <1>2. CursorOf(FreshCursor, [seed |-> 0, octets |-> << >>])
    <2>1. << >> = Squeeze(0, Len(<< >>)) /\ << >> \in Seq(Nat \X Nat)
      BY DEF Squeeze
    <2> QED BY <2>1 DEF CursorOf, FreshCursor
  <1> QED BY <1>1, <1>2 DEF ShakeInv

LEMMA AbsorbKeeps ==
  ASSUME ShakeInv, NEW t \in Pools, NEW seed \in Seeds, Absorb(t, seed)
  PROVE  ShakeInv'
  <1> DEFINE c == [seed |-> seed, index |-> 0, len |-> BLOCKS]
             d == [seed |-> seed, octets |-> << >>]
  <1>1. CursorOf(c, d)
    <2>1. << >> = Squeeze(seed, Len(<< >>)) /\ << >> \in Seq(Nat \X Nat)
      BY DEF Squeeze
    <2>2. seed \in Nat /\ BLOCKS \in Nat \ {0}
      BY ConformanceConstants
    <2> QED BY <2>1, <2>2 DEF CursorOf
  <1>2. cursor' = [cursor EXCEPT ![t] = c] /\ drawn' = [drawn EXCEPT ![t] = d]
    BY DEF Absorb
  <1> HIDE DEF c, d
  <1>3. \A u \in Pools : /\ cursor'[u] = IF u = t THEN c ELSE cursor[u]
                         /\ drawn'[u] = IF u = t THEN d ELSE drawn[u]
    BY <1>2 DEF ShakeInv
  <1>4. cursor' = [u \in Pools |-> cursor'[u]] /\ drawn' = [u \in Pools |-> drawn'[u]]
    BY <1>2 DEF ShakeInv
  <1>5. \A u \in Pools : CursorOf(cursor[u], drawn[u])
    BY DEF ShakeInv
  <1>6. \A u \in Pools : CursorOf(cursor'[u], drawn'[u])
    BY <1>1, <1>3, <1>5
  <1> QED BY <1>4, <1>6 DEF ShakeInv

\* Reading on from where one stands gives a longer part of the same output.
LEMMA SqueezeFurther ==
  ASSUME NEW s \in Nat, NEW i \in Nat, NEW n \in Nat, NEW len \in Nat, i + n <= len
  PROVE  /\ Squeeze(s, i) \o SubSeq(Squeeze(s, len), i + 1, i + n) = Squeeze(s, i + n)
         /\ Squeeze(s, i + n) \in Seq(Nat \X Nat) /\ Len(Squeeze(s, i + n)) = i + n
  <1> DEFINE S == Nat \X Nat
             z == Squeeze(s, len)
  <1>1. \A j \in Nat : Squeeze(s, j) \in Seq(S) /\ Len(Squeeze(s, j)) = j /\ \A k \in 1..j : Squeeze(s, j)[k] = <<s, k>>
    BY DEF Squeeze
  <1>2. ASSUME NEW j \in 0..len PROVE SubSeq(z, 1, j) = Squeeze(s, j)
    <2>1. z \in Seq(S) /\ Len(z) = len /\ \A k \in 1..len : z[k] = <<s, k>> /\ z[k] \in S
      BY <1>1
    <2>2. PICK y : y = SubSeq(z, 1, j)
      OBVIOUS
    <2> HIDE DEF z, S
    <2>3. \A k \in 1..j : z[k] \in S
      BY <2>1
    <2>4. y \in Seq(S) /\ Len(y) = j /\ \A k \in 1..j : y[k] = z[k]
      <3>1. /\ SubSeq(z, 1, j) \in Seq(S) /\ Len(SubSeq(z, 1, j)) = IF 1 <= j THEN j - 1 + 1 ELSE 0
            /\ \A k \in 1..(j - 1 + 1) : SubSeq(z, 1, j)[k] = z[1 + k - 1]
        BY <2>3, SubSeqProperties
      <3> QED BY <2>2, <3>1
    <2>5. \A k \in 1..j : y[k] = <<s, k>>
      BY <2>1, <2>4
    <2>6. PICK x : x = Squeeze(s, j)
      OBVIOUS
    <2>7. x \in Seq(S) /\ Len(x) = j /\ \A k \in 1..j : x[k] = <<s, k>>
      BY <1>1, <2>6
    <2>8. x = y
      BY <2>4, <2>5, <2>7, SeqEqual
    <2> QED BY <2>2, <2>6, <2>8
  <1>3. z \in Seq(S) /\ Len(z) = len
    BY <1>1
  <1> HIDE DEF z, S
  <1>4. SubSeq(z, 1, i) \o SubSeq(z, i + 1, i + n) = SubSeq(z, 1, i + n)
    <2>1. 1 \in 1..(Len(z) + 1) /\ i \in (1 - 1)..Len(z) /\ i + n \in i..Len(z)
      BY <1>3
    <2> QED BY <1>3, <2>1, ConcatAdjacentSubSeq
  <1>5. i \in 0..len /\ i + n \in 0..len /\ i + n \in Nat
    OBVIOUS
  <1>6. SubSeq(z, 1, i) = Squeeze(s, i) /\ SubSeq(z, 1, i + n) = Squeeze(s, i + n)
    BY <1>2, <1>5
  <1>7. Squeeze(s, i + n) \in Seq(S) /\ Len(Squeeze(s, i + n)) = i + n
    BY <1>1, <1>5, Zenon
  <1> QED BY <1>4, <1>6, <1>7, Zenon DEF z, S

LEMMA MovedOn ==
  ASSUME NEW c \in [seed : Nat, index : Nat, len : Nat], NEW n \in Nat, NEW len \in Nat \ {0}, NEW cc,
         cc = [c EXCEPT !.index = @ + n, !.len = len]
  PROVE  cc \in [seed : Nat, index : Nat, len : Nat] /\ cc.seed = c.seed /\ cc.index = c.index + n /\ cc.len = len
  <1>1. PICK m : m = c.index + n
    OBVIOUS
  <1>2. m \in Nat /\ cc = [[c EXCEPT !.index = m] EXCEPT !.len = len]
    BY <1>1
  <1>3. PICK d : d = [c EXCEPT !.index = m]
    OBVIOUS
  <1>4. d \in [seed : Nat, index : Nat, len : Nat] /\ d.seed = c.seed /\ d.index = m
    BY <1>2, <1>3
  <1> QED BY <1>1, <1>2, <1>3, <1>4

LEMMA ReadOne ==
  ASSUME NEW c, NEW d, CursorOf(c, d), c.seed # 0, NEW n \in Nat, NEW len \in Nat \ {0}, len >= c.index + n,
         NEW e, e = d.octets \o SubSeq(Squeeze(c.seed, len), c.index + 1, c.index + n)
  PROVE  CursorOf([c EXCEPT !.index = @ + n, !.len = len], [d EXCEPT !.octets = e])
  <1>1. PICK s, i : s = c.seed /\ i = c.index
    OBVIOUS
  <1>2. s \in Nat \ {0} /\ i \in Nat /\ d.seed = s /\ d.octets = Squeeze(s, i) /\ i + n <= len
    BY <1>1 DEF CursorOf
  <1>3. e = Squeeze(s, i) \o SubSeq(Squeeze(s, len), i + 1, i + n)
    BY <1>1, <1>2, Zenon
  <1>4. e = Squeeze(s, i + n) /\ e \in Seq(Nat \X Nat) /\ Len(e) = i + n
    <2>1. s \in Nat /\ i \in Nat /\ n \in Nat /\ len \in Nat /\ i + n <= len
      BY <1>2
    <2>2. /\ Squeeze(s, i) \o SubSeq(Squeeze(s, len), i + 1, i + n) = Squeeze(s, i + n)
          /\ Squeeze(s, i + n) \in Seq(Nat \X Nat) /\ Len(Squeeze(s, i + n)) = i + n
      BY <2>1, SqueezeFurther, Zenon
    <2> QED BY <1>3, <2>2, Zenon
  <1>5. PICK cc : cc = [c EXCEPT !.index = @ + n, !.len = len]
    OBVIOUS
  <1>6. cc \in [seed : Nat, index : Nat, len : Nat] /\ cc.seed = s /\ cc.index = i + n /\ cc.len = len
    <2>1. c \in [seed : Nat, index : Nat, len : Nat]
      BY DEF CursorOf
    <2> QED BY <1>1, <1>5, <2>1, MovedOn, Zenon
  <1>7. PICK dd : dd = [d EXCEPT !.octets = e]
    OBVIOUS
  <1>8. dd \in [seed : Nat, octets : Seq(Nat \X Nat)] /\ dd.seed = s /\ dd.octets = e
    <2>1. d \in [seed : Nat, octets : Seq(Nat \X Nat)]
      BY DEF CursorOf
    <2>2. PICK Q : Q = Seq(Nat \X Nat)
      OBVIOUS
    <2>3. d \in [seed : Nat, octets : Q] /\ e \in Q
      BY <1>4, <2>1, <2>2, Zenon
    <2>4. dd \in [seed : Nat, octets : Q] /\ dd.seed = d.seed /\ dd.octets = e
      BY <1>7, <2>3
    <2> QED BY <1>2, <2>2, <2>4, Zenon
  <1>9. CursorOf(cc, dd)
    BY <1>2, <1>4, <1>6, <1>8 DEF CursorOf
  <1> QED BY <1>5, <1>7, <1>9, Zenon

LEMMA ReadKeeps ==
  ASSUME ShakeInv, NEW t \in Pools, NEW n \in 1..MaxRead, Read(t, n)
  PROVE  ShakeInv'
  <1>0. n \in Nat /\ CursorOf(cursor[t], drawn[t]) /\ cursor[t].seed # 0
    BY ConformanceConstants DEF ShakeInv, Read
  <1>1. PICK c, d : c = cursor[t] /\ d = drawn[t]
    OBVIOUS
  <1>2. PICK len : len = Doubled(c.len, c.index + n)
    OBVIOUS
  <1>3. len \in Nat \ {0} /\ len >= c.index + n
    <2>1. c.len \in Nat \ {0} /\ c.index + n \in Nat
      BY <1>0, <1>1 DEF CursorOf
    <2> QED BY <1>2, <2>1, DoubledIs
  <1>4. PICK e : e = d.octets \o SubSeq(Squeeze(c.seed, len), c.index + 1, c.index + n)
    OBVIOUS
  <1>5. PICK cc, dd : cc = [c EXCEPT !.index = @ + n, !.len = len] /\ dd = [d EXCEPT !.octets = e]
    OBVIOUS
  <1>6. CursorOf(cc, dd)
    BY <1>0, <1>1, <1>3, <1>4, <1>5, ReadOne
  <1>7. cursor' = [cursor EXCEPT ![t] = cc]
    BY <1>1, <1>2, <1>5, Zenon DEF Read
  <1>8. drawn' = [drawn EXCEPT ![t] = dd]
    <2>1. drawn' = [drawn EXCEPT ![t].octets = @ \o SubSeq(Squeeze(c.seed, len), c.index + 1, c.index + n)]
      BY <1>1, <1>2, Zenon DEF Read
    <2>2. PICK w : w = SubSeq(Squeeze(c.seed, len), c.index + 1, c.index + n)
      OBVIOUS
    <2>3. drawn' = [drawn EXCEPT ![t].octets = @ \o w]
      BY <2>1, <2>2, Zenon
    <2>4. [drawn EXCEPT ![t].octets = @ \o w] = [drawn EXCEPT ![t] = [drawn[t] EXCEPT !.octets = drawn[t].octets \o w]]
      OBVIOUS
    <2> QED BY <1>1, <1>4, <1>5, <2>2, <2>3, <2>4, Zenon
  <1>9. \A u \in Pools : /\ cursor'[u] = IF u = t THEN cc ELSE cursor[u]
                         /\ drawn'[u] = IF u = t THEN dd ELSE drawn[u]
    BY <1>7, <1>8 DEF ShakeInv
  <1>10. cursor' = [u \in Pools |-> cursor'[u]] /\ drawn' = [u \in Pools |-> drawn'[u]]
    BY <1>7, <1>8 DEF ShakeInv
  <1>11. \A u \in Pools : CursorOf(cursor[u], drawn[u])
    BY DEF ShakeInv
  <1>12. \A u \in Pools : CursorOf(cursor'[u], drawn'[u])
    BY <1>6, <1>9, <1>11
  <1> QED BY <1>10, <1>12 DEF ShakeInv

LEMMA PairIs == ASSUME NEW r, NEW q PROVE Append(<<r>>, q) = <<r, q>>
  <1>1. <<r>> \in Seq({r, q}) /\ <<r, q>> \in Seq({r, q}) /\ Len(<<r>>) = 1 /\ Len(<<r, q>>) = 2
    OBVIOUS
  <1>2. PICK x : x = Append(<<r>>, q)
    OBVIOUS
  <1>3. x \in Seq({r, q}) /\ Len(x) = 2 /\ x[1] = r /\ x[2] = q
    BY <1>1, <1>2, AppendProperties
  <1>4. \A i \in 1..2 : x[i] = <<r, q>>[i]
    BY <1>3
  <1>5. x = <<r, q>>
    BY <1>1, <1>3, <1>4, SeqEqual
  <1> QED BY <1>2, <1>5

\* Each hook gives the outcome of the corpus.
LEMMA HooksAgree ==
  ASSUME NEW c \in GovernanceCases
  PROVE  RunK1(c) = ExpectedOutcome(c) /\ RunK2(c) = ExpectedOutcome(c) /\ RunK3(c) = ExpectedOutcome(c)
  <1>1. c.declared \in -1..3 /\ c.grant \in -1..3 /\ c.broken \in BOOLEAN
    BY DEF GovernanceCases, NoClass
  <1>2. PICK v : v = KitEffect(c.declared)
    OBVIOUS
  <1>3. v \in 0..3 /\ v = (IF c.declared = NoClass THEN 3 ELSE c.declared)
    BY <1>1, <1>2 DEF KitEffect, NoClass
  <1>4. PICK one : one = Recorded(c)
    OBVIOUS
  <1>5. one # << >> /\ one[1].effect = v
    <2>1. one = <<[effect |-> v, causes |-> << >>]>>
      BY <1>2, <1>4 DEF Recorded, CaptureAndRecord, RecordEntry
    <2> QED BY <2>1
  <1>6. PICK two : two = CaptureAndRecord(Recorded(c), KitEffect(c.declared))
    OBVIOUS
  <1>7. two # << >> /\ two[1].effect = v
    <2>1. one = <<[effect |-> v, causes |-> << >>]>>
      BY <1>2, <1>4 DEF Recorded, CaptureAndRecord, RecordEntry
    <2>2. PICK r : r = [effect |-> v, causes |-> << >>]
      OBVIOUS
    <2>3. PICK q : two = Append(one, q)
      BY <1>4, <1>6 DEF CaptureAndRecord
    <2>4. one = <<r>>
      BY <2>1, <2>2, Zenon
    <2>5. two = <<r, q>>
      BY <2>3, <2>4, PairIs, Zenon
    <2> QED BY <2>2, <2>5
  <1>8. Uncovered(c) <=> c.grant # NoClass /\ c.grant < v
    BY <1>1, <1>2, <1>3 DEF Uncovered, NoClass
  <1>9. CASE c.broken
    BY <1>9 DEF RunK1, RunK2, RunK3, AdkHook, A2aHook, McpHook, Shown, NormalizedOutcome, UnwrapTaskGroupError, ExpectedOutcome
  <1>10. CASE ~c.broken /\ Uncovered(c)
    BY <1>3, <1>4, <1>5, <1>8, <1>10 DEF RunK1, RunK2, RunK3, AdkHook, A2aHook, McpHook, Shown, NormalizedOutcome, ExpectedOutcome, GateVerdict
  <1>11. CASE ~c.broken /\ ~Uncovered(c)
    BY <1>3, <1>4, <1>5, <1>6, <1>7, <1>8, <1>11 DEF RunK1, RunK2, RunK3, AdkHook, A2aHook, McpHook, Shown, NormalizedOutcome, ExpectedOutcome, GateVerdict
  <1> QED BY <1>1, <1>9, <1>10, <1>11

LEMMA ChainsAgree ==
  RunK1Chain = RunK2Chain /\ RunK2Chain = RunK3Chain /\ Last(RunK3Chain).causes = <<1>>
  <1>1. ~Uncovered(Ungated) /\ ~Ungated.broken /\ KitEffect(Ungated.declared) = KitEffect(NoClass)
    BY DEF Uncovered, Ungated, NoClass
  <1>2. PICK one : one = Recorded(Ungated)
    OBVIOUS
  <1>3. AdkHook(Ungated).records = one /\ A2aHook(Ungated).records = one
    BY <1>1, <1>2 DEF AdkHook, A2aHook, Shown
  <1>4. McpHook(Ungated).records = CaptureAndRecord(one, KitEffect(NoClass))
    BY <1>1, <1>2 DEF McpHook, Shown
  <1>5. RunK1Chain = RunK2Chain /\ RunK2Chain = RunK3Chain
    BY <1>3, <1>4, Zenon DEF RunK1Chain, RunK2Chain, RunK3Chain
  <1>6. PICK r : one = <<r>>
    BY <1>2 DEF Recorded, CaptureAndRecord
  <1>7. PICK q : q = [effect |-> KitEffect(NoClass), causes |-> <<1>>]
    OBVIOUS
  <1>8. one # << >> /\ Len(one) = 1 /\ Append(one, q) = <<r, q>>
    <2>1. <<r>> # << >> /\ Len(<<r>>) = 1
      OBVIOUS
    <2> QED BY <1>6, <2>1, PairIs, Zenon
  <1>9. RunK3Chain = <<r, q>>
    BY <1>4, <1>7, <1>8, Zenon DEF RunK3Chain, CaptureAndRecord, RecordEntry
  <1> QED BY <1>5, <1>7, <1>9 DEF Last

\* The hooks that ran made of the case what the corpus says.
PortInv == kcase \in GovernanceCases /\ \A h \in DOMAIN outcomes : outcomes[h] = ExpectedOutcome(kcase)

LEMMA PortKeeps ==
  ASSUME PortInv, NEW h \in Hooks, RunCase(h)
  PROVE  PortInv'
  <1>1. kcase' = kcase /\ kcase \in GovernanceCases
    BY DEF RunCase, PortInv
  <1>2. DOMAIN outcomes' = DOMAIN outcomes \cup {h}
    BY DEF RunCase
  <1>3. \A k \in DOMAIN outcomes : k # h /\ outcomes'[k] = outcomes[k]
    BY DEF RunCase
  <1>4. outcomes'[h] = ExpectedOutcome(kcase)
    <2>1. outcomes'[h] = CASE h = "adk" -> RunK1(kcase) [] h = "a2a" -> RunK2(kcase) [] h = "mcp" -> RunK3(kcase)
      BY DEF RunCase
    <2> QED BY <1>1, <2>1, HooksAgree DEF Hooks
  <1> QED BY <1>1, <1>2, <1>3, <1>4 DEF PortInv

(***************************************************************************)
(* Conformance: scripts and tables                                         *)
(***************************************************************************)
Machines == {"stream", "delivery", "approval"}
StatesOf(machine) ==
  IF machine = "stream" THEN {"idle", "open", "committed", "abandoned"}
  ELSE IF machine = "delivery" THEN -1..3 ELSE 0..1

\* The subject under test, and what it holds for one object.
SubjectSpace(machine) == IF machine = "approval" THEN 0..1 ELSE [CaseObjects -> StatesOf(machine)]
Cell(machine, x, o) == IF machine = "approval" THEN x ELSE x[o]

\* What one row of the table makes of a state.
StepOf(machine, s, e) ==
  LET r == Row(Table[machine], s, EventName(e)) IN <<r[3], r[4]>>

LEMMA RowFound ==
  ASSUME NEW T, NEW s, NEW ev, NEW x, x = Row(T, s, ev), \E r \in T : r[1] = s /\ r[2] = ev
  PROVE  x \in T /\ x[1] = s /\ x[2] = ev
  <1>1. PICK rows : rows = {r \in T : r[1] = s /\ r[2] = ev}
    OBVIOUS
  <1>2. rows # {}
    BY <1>1, Zenon
  <1>3. x = CHOOSE r \in rows : TRUE
    BY <1>1, <1>2 DEF Row
  <1>4. x \in rows
    BY <1>2, <1>3, Zenon
  <1> QED BY <1>1, <1>4, Zenon

LEMMA RowMissing ==
  ASSUME NEW T, NEW s, NEW ev, NEW x, x = Row(T, s, ev), ~\E r \in T : r[1] = s /\ r[2] = ev
  PROVE  x[3] = "StreamStateError" /\ x[4] = s
  <1>1. {r \in T : r[1] = s /\ r[2] = ev} = {}
    BY Zenon
  <1>2. x = <<s, ev, "StreamStateError", s>>
    BY <1>1 DEF Row
  <1> QED BY <1>2

\* The error and the next state that the tables have for a state and an event.
StreamError(s, ev) ==
  IF s # (IF ev \in {"open", "open_refused"} THEN "idle" ELSE "open") THEN "StreamStateError"
  ELSE IF ev = "open_refused" THEN "EffectNotAuthorized"
  ELSE IF ev = "commit_other" THEN "StreamDigestMismatch" ELSE ""
StreamTo(s, ev) ==
  IF StreamError(s, ev) # "" THEN s
  ELSE IF ev = "open" THEN "open" ELSE IF ev = "commit" THEN "committed"
  ELSE IF ev = "expire" THEN "abandoned" ELSE s

StreamEventNames == {"open", "open_refused", "chunk", "checkpoint", "commit", "commit_other", "expire"}

LEMMA StreamRow ==
  ASSUME NEW s \in StatesOf("stream"), NEW ev \in StreamEventNames
  PROVE  Row(StreamTable, s, ev)[3] = StreamError(s, ev) /\ Row(StreamTable, s, ev)[4] = StreamTo(s, ev)
  <1>1. \A r \in StreamTable : r[3] = StreamError(r[1], r[2]) /\ r[4] = StreamTo(r[1], r[2])
    <2> SUFFICES ASSUME NEW r \in StreamTable PROVE r[3] = StreamError(r[1], r[2]) /\ r[4] = StreamTo(r[1], r[2])
      OBVIOUS
    <2>1. \/ \/ r = <<"idle", "open", "", "open">>
             \/ r = <<"idle", "open_refused", "EffectNotAuthorized", "idle">>
             \/ r = <<"open", "chunk", "", "open">>
             \/ r = <<"open", "checkpoint", "", "open">>
             \/ r = <<"open", "commit", "", "committed">>
             \/ r = <<"open", "commit_other", "StreamDigestMismatch", "open">>
             \/ r = <<"open", "expire", "", "abandoned">>
             \/ r = <<"open", "open", "StreamStateError", "open">>
          \/ \E x \in {"committed", "abandoned"} \X {"open", "chunk", "checkpoint", "commit", "expire"} :
               r = <<x[1], x[2], "StreamStateError", x[1]>>
          \/ \E e \in {"chunk", "checkpoint", "commit", "expire"} : r = <<"idle", e, "StreamStateError", "idle">>
      BY Zenon DEF StreamTable
    <2>2. CASE r = <<"idle", "open", "", "open">>
      BY <2>2 DEF StreamError, StreamTo
    <2>3. CASE r = <<"idle", "open_refused", "EffectNotAuthorized", "idle">>
      BY <2>3 DEF StreamError, StreamTo
    <2>4. CASE r = <<"open", "chunk", "", "open">>
      BY <2>4 DEF StreamError, StreamTo
    <2>5. CASE r = <<"open", "checkpoint", "", "open">>
      BY <2>5 DEF StreamError, StreamTo
    <2>6. CASE r = <<"open", "commit", "", "committed">>
      BY <2>6 DEF StreamError, StreamTo
    <2>7. CASE r = <<"open", "commit_other", "StreamDigestMismatch", "open">>
      BY <2>7 DEF StreamError, StreamTo
    <2>8. CASE r = <<"open", "expire", "", "abandoned">>
      BY <2>8 DEF StreamError, StreamTo
    <2>9. CASE r = <<"open", "open", "StreamStateError", "open">>
      BY <2>9 DEF StreamError, StreamTo
    <2>10. CASE \E x \in {"committed", "abandoned"} \X {"open", "chunk", "checkpoint", "commit", "expire"} :
                   r = <<x[1], x[2], "StreamStateError", x[1]>>
      <3>1. PICK x \in {"committed", "abandoned"} \X {"open", "chunk", "checkpoint", "commit", "expire"} :
                   r = <<x[1], x[2], "StreamStateError", x[1]>>
        BY <2>10
      <3>2. PICK z, e : z = x[1] /\ e = x[2]
        OBVIOUS
      <3>3. z \in {"committed", "abandoned"} /\ r = <<z, e, "StreamStateError", z>>
        BY <3>1, <3>2
      <3> QED BY <3>3 DEF StreamError, StreamTo
    <2>11. CASE \E e \in {"chunk", "checkpoint", "commit", "expire"} : r = <<"idle", e, "StreamStateError", "idle">>
      BY <2>11 DEF StreamError, StreamTo
    <2> QED BY <2>1, <2>2, <2>3, <2>4, <2>5, <2>6, <2>7, <2>8, <2>9, <2>10, <2>11, Zenon
  <1>2. \/ <<s, ev, StreamError(s, ev), StreamTo(s, ev)>> \in StreamTable
        \/ StreamError(s, ev) = "StreamStateError" /\ StreamTo(s, ev) = s
    BY DEF StreamTable, StreamError, StreamTo, StatesOf, StreamEventNames
  <1>3. PICK err, to : err = StreamError(s, ev) /\ to = StreamTo(s, ev)
    OBVIOUS
  <1>4. \A r \in StreamTable : r[1] = s /\ r[2] = ev => r[3] = err /\ r[4] = to
    BY <1>1, <1>3, Zenon
  <1>5. CASE \E r \in StreamTable : r[1] = s /\ r[2] = ev
    <2>1. PICK x : x = Row(StreamTable, s, ev)
      OBVIOUS
    <2>2. x \in StreamTable /\ x[1] = s /\ x[2] = ev
      BY <1>5, <2>1, RowFound
    <2> QED BY <1>3, <1>4, <2>1, <2>2, Zenon
  <1>6. CASE ~\E r \in StreamTable : r[1] = s /\ r[2] = ev
    <2>1. <<s, ev, err, to>>[1] = s /\ <<s, ev, err, to>>[2] = ev
      OBVIOUS
    <2>2. err = "StreamStateError" /\ to = s
      BY <1>2, <1>3, <1>6, <2>1, Zenon
    <2>3. PICK x : x = Row(StreamTable, s, ev)
      OBVIOUS
    <2>4. x[3] = "StreamStateError" /\ x[4] = s
      BY <1>6, <2>3, RowMissing
    <2> QED BY <1>3, <2>2, <2>3, <2>4, Zenon
  <1> QED BY <1>5, <1>6

LEMMA DeliveryRow ==
  ASSUME NEW s \in StatesOf("delivery"), NEW ev \in 0..3
  PROVE  /\ Row(DeliveryTable, s, ev)[3] = (IF ev < s THEN "StageOutOfOrder" ELSE "")
         /\ Row(DeliveryTable, s, ev)[4] = (IF ev < s THEN s ELSE ev)
  <1>0. s \in -1..3
    BY DEF StatesOf
  <1>1. PICK err, to : err = (IF ev < s THEN "StageOutOfOrder" ELSE "") /\ to = (IF ev < s THEN s ELSE ev)
    OBVIOUS
  <1>2. \A r \in DeliveryTable : r[1] = s /\ r[2] = ev => r[3] = err /\ r[4] = to
    <2> SUFFICES ASSUME NEW r \in DeliveryTable, r[1] = s, r[2] = ev PROVE r[3] = err /\ r[4] = to
      OBVIOUS
    <2>1. \/ \E n \in 0..3 : r = <<Unseen, n, "", n>>
          \/ \E x \in (0..3) \X (0..3) :
               r = <<x[1], x[2], IF x[2] < x[1] THEN "StageOutOfOrder" ELSE "", IF x[2] < x[1] THEN x[1] ELSE x[2]>>
      BY Zenon DEF DeliveryTable
    <2>2. CASE \E n \in 0..3 : r = <<Unseen, n, "", n>>
      <3>1. PICK n \in 0..3 : r = <<Unseen, n, "", n>>
        BY <2>2
      <3>2. s = -1 /\ n = ev /\ r[3] = "" /\ r[4] = n
        BY <3>1 DEF Unseen
      <3>3. ~(ev < s)
        <4>1. s = -1
          BY <3>2
        <4> QED BY <4>1
      <3> QED BY <1>1, <3>2, <3>3, Zenon
    <2>3. CASE \E x \in (0..3) \X (0..3) :
                 r = <<x[1], x[2], IF x[2] < x[1] THEN "StageOutOfOrder" ELSE "", IF x[2] < x[1] THEN x[1] ELSE x[2]>>
      <3>0. PICK d \in (0..3) \X (0..3) :
                 r = <<d[1], d[2], IF d[2] < d[1] THEN "StageOutOfOrder" ELSE "", IF d[2] < d[1] THEN d[1] ELSE d[2]>>
        BY <2>3
      <3>9. PICK p, n : p = d[1] /\ n = d[2]
        OBVIOUS
      <3>1. r = <<p, n, IF n < p THEN "StageOutOfOrder" ELSE "", IF n < p THEN p ELSE n>>
        BY <3>0, <3>9, Zenon
      <3>2. PICK x, y : x = (IF n < p THEN "StageOutOfOrder" ELSE "") /\ y = (IF n < p THEN p ELSE n)
        OBVIOUS
      <3>3. r = <<p, n, x, y>>
        BY <3>1, <3>2, Zenon
      <3>4. p = s /\ n = ev /\ r[3] = x /\ r[4] = y
        BY <3>3
      <3> QED BY <1>1, <3>2, <3>4, Zenon
    <2> QED BY <2>1, <2>2, <2>3
  <1>3. <<s, ev, err, to>> \in DeliveryTable
    <2>1. CASE s = -1
      <3>0. ~(ev < s) /\ s = Unseen
        BY <2>1 DEF Unseen
      <3>1. err = "" /\ to = ev /\ s = Unseen
        BY <1>1, <3>0, Zenon
      <3> QED BY <3>1, Zenon DEF DeliveryTable
    <2>2. CASE s # -1
      <3>1. s \in 0..3
        BY <1>0, <2>2
      <3>2. PICK x : x = <<s, ev>>
        OBVIOUS
      <3>3. x \in (0..3) \X (0..3) /\ x[1] = s /\ x[2] = ev
        BY <3>1, <3>2
      <3>4. <<s, ev, err, to>> = <<x[1], x[2], IF x[2] < x[1] THEN "StageOutOfOrder" ELSE "", IF x[2] < x[1] THEN x[1] ELSE x[2]>>
        BY <1>1, <3>3, Zenon
      <3> QED BY <3>3, <3>4, Zenon DEF DeliveryTable
    <2> QED BY <2>1, <2>2
  <1>4. (\E r \in DeliveryTable : r[1] = s /\ r[2] = ev)
    <2>1. <<s, ev, err, to>>[1] = s /\ <<s, ev, err, to>>[2] = ev
      OBVIOUS
    <2> QED BY <1>3, <2>1, Zenon
  <1>5. Row(DeliveryTable, s, ev)[3] = err /\ Row(DeliveryTable, s, ev)[4] = to
    <2>1. PICK x : x = Row(DeliveryTable, s, ev)
      OBVIOUS
    <2>2. x \in DeliveryTable /\ x[1] = s /\ x[2] = ev
      BY <1>4, <2>1, RowFound
    <2> QED BY <1>2, <2>1, <2>2, Zenon
  <1> QED BY <1>1, <1>5, Zenon

ApprovalError(s, ev) ==
  IF ev \in {"other", "other_late"} THEN "ApprovalMismatch"
  ELSE IF ev = "bound_late" THEN "ApprovalExpired" ELSE IF s = 0 THEN "" ELSE "AlreadyConsumed"

LEMMA ApprovalRows ==
  ASSUME NEW r \in ApprovalTable
  PROVE  r[3] = ApprovalError(r[1], r[2]) /\ r[4] = (IF ApprovalError(r[1], r[2]) = "" THEN 1 ELSE r[1])
  <1>1. \/ r = <<0, "bound", "", 1>>
        \/ r = <<1, "bound", "AlreadyConsumed", 1>>
        \/ r = <<0, "bound_late", "ApprovalExpired", 0>>
        \/ r = <<1, "bound_late", "ApprovalExpired", 1>>
        \/ r = <<0, "other", "ApprovalMismatch", 0>>
        \/ r = <<1, "other", "ApprovalMismatch", 1>>
        \/ r = <<0, "other_late", "ApprovalMismatch", 0>>
        \/ r = <<1, "other_late", "ApprovalMismatch", 1>>
    BY Zenon DEF ApprovalTable
  <1>2. CASE r = <<0, "bound", "", 1>>
    <2>1. r[1] = 0 /\ r[2] = "bound" /\ r[3] = "" /\ r[4] = 1
      BY <1>2
    <2>2. ApprovalError(0, "bound") = ""
      BY DEF ApprovalError
    <2> QED BY <2>1, <2>2
  <1>3. CASE r = <<1, "bound", "AlreadyConsumed", 1>>
    <2>1. r[1] = 1 /\ r[2] = "bound" /\ r[3] = "AlreadyConsumed" /\ r[4] = 1
      BY <1>3
    <2>2. ApprovalError(1, "bound") = "AlreadyConsumed"
      BY DEF ApprovalError
    <2> QED BY <2>1, <2>2
  <1>4. CASE r = <<0, "bound_late", "ApprovalExpired", 0>>
    <2>1. r[1] = 0 /\ r[2] = "bound_late" /\ r[3] = "ApprovalExpired" /\ r[4] = 0
      BY <1>4
    <2>2. ApprovalError(0, "bound_late") = "ApprovalExpired"
      BY DEF ApprovalError
    <2> QED BY <2>1, <2>2
  <1>5. CASE r = <<1, "bound_late", "ApprovalExpired", 1>>
    <2>1. r[1] = 1 /\ r[2] = "bound_late" /\ r[3] = "ApprovalExpired" /\ r[4] = 1
      BY <1>5
    <2>2. ApprovalError(1, "bound_late") = "ApprovalExpired"
      BY DEF ApprovalError
    <2> QED BY <2>1, <2>2
  <1>6. CASE r = <<0, "other", "ApprovalMismatch", 0>>
    <2>1. r[1] = 0 /\ r[2] = "other" /\ r[3] = "ApprovalMismatch" /\ r[4] = 0
      BY <1>6
    <2>2. ApprovalError(0, "other") = "ApprovalMismatch"
      BY DEF ApprovalError
    <2> QED BY <2>1, <2>2
  <1>7. CASE r = <<1, "other", "ApprovalMismatch", 1>>
    <2>1. r[1] = 1 /\ r[2] = "other" /\ r[3] = "ApprovalMismatch" /\ r[4] = 1
      BY <1>7
    <2>2. ApprovalError(1, "other") = "ApprovalMismatch"
      BY DEF ApprovalError
    <2> QED BY <2>1, <2>2
  <1>8. CASE r = <<0, "other_late", "ApprovalMismatch", 0>>
    <2>1. r[1] = 0 /\ r[2] = "other_late" /\ r[3] = "ApprovalMismatch" /\ r[4] = 0
      BY <1>8
    <2>2. ApprovalError(0, "other_late") = "ApprovalMismatch"
      BY DEF ApprovalError
    <2> QED BY <2>1, <2>2
  <1>9. CASE r = <<1, "other_late", "ApprovalMismatch", 1>>
    <2>1. r[1] = 1 /\ r[2] = "other_late" /\ r[3] = "ApprovalMismatch" /\ r[4] = 1
      BY <1>9
    <2>2. ApprovalError(1, "other_late") = "ApprovalMismatch"
      BY DEF ApprovalError
    <2> QED BY <2>1, <2>2
  <1> QED BY <1>1, <1>2, <1>3, <1>4, <1>5, <1>6, <1>7, <1>8, <1>9, Zenon

LEMMA ApprovalListed ==
  ASSUME NEW s \in 0..1, NEW ev \in {"bound", "bound_late", "other", "other_late"}
  PROVE  \E r \in ApprovalTable : r[1] = s /\ r[2] = ev
  <1>1. s = 0 \/ s = 1
    <2>1. \A i \in 0..1 : i = 0 \/ i = 1
      OBVIOUS
    <2> QED BY <2>1, Zenon
  <1>2. CASE s = 0 /\ ev = "bound"
    <2>1. <<0, "bound", "", 1>>[1] = 0 /\ <<0, "bound", "", 1>>[2] = "bound"
      OBVIOUS
    <2>2. <<0, "bound", "", 1>> \in ApprovalTable
      BY Zenon DEF ApprovalTable
    <2> QED BY <1>2, <2>1, <2>2, Zenon
  <1>3. CASE s = 1 /\ ev = "bound"
    <2>1. <<1, "bound", "AlreadyConsumed", 1>>[1] = 1 /\ <<1, "bound", "AlreadyConsumed", 1>>[2] = "bound"
      OBVIOUS
    <2>2. <<1, "bound", "AlreadyConsumed", 1>> \in ApprovalTable
      BY Zenon DEF ApprovalTable
    <2> QED BY <1>3, <2>1, <2>2, Zenon
  <1>4. CASE s = 0 /\ ev = "bound_late"
    <2>1. <<0, "bound_late", "ApprovalExpired", 0>>[1] = 0 /\ <<0, "bound_late", "ApprovalExpired", 0>>[2] = "bound_late"
      OBVIOUS
    <2>2. <<0, "bound_late", "ApprovalExpired", 0>> \in ApprovalTable
      BY Zenon DEF ApprovalTable
    <2> QED BY <1>4, <2>1, <2>2, Zenon
  <1>5. CASE s = 1 /\ ev = "bound_late"
    <2>1. <<1, "bound_late", "ApprovalExpired", 1>>[1] = 1 /\ <<1, "bound_late", "ApprovalExpired", 1>>[2] = "bound_late"
      OBVIOUS
    <2>2. <<1, "bound_late", "ApprovalExpired", 1>> \in ApprovalTable
      BY Zenon DEF ApprovalTable
    <2> QED BY <1>5, <2>1, <2>2, Zenon
  <1>6. CASE s = 0 /\ ev = "other"
    <2>1. <<0, "other", "ApprovalMismatch", 0>>[1] = 0 /\ <<0, "other", "ApprovalMismatch", 0>>[2] = "other"
      OBVIOUS
    <2>2. <<0, "other", "ApprovalMismatch", 0>> \in ApprovalTable
      BY Zenon DEF ApprovalTable
    <2> QED BY <1>6, <2>1, <2>2, Zenon
  <1>7. CASE s = 1 /\ ev = "other"
    <2>1. <<1, "other", "ApprovalMismatch", 1>>[1] = 1 /\ <<1, "other", "ApprovalMismatch", 1>>[2] = "other"
      OBVIOUS
    <2>2. <<1, "other", "ApprovalMismatch", 1>> \in ApprovalTable
      BY Zenon DEF ApprovalTable
    <2> QED BY <1>7, <2>1, <2>2, Zenon
  <1>8. CASE s = 0 /\ ev = "other_late"
    <2>1. <<0, "other_late", "ApprovalMismatch", 0>>[1] = 0 /\ <<0, "other_late", "ApprovalMismatch", 0>>[2] = "other_late"
      OBVIOUS
    <2>2. <<0, "other_late", "ApprovalMismatch", 0>> \in ApprovalTable
      BY Zenon DEF ApprovalTable
    <2> QED BY <1>8, <2>1, <2>2, Zenon
  <1>9. CASE s = 1 /\ ev = "other_late"
    <2>1. <<1, "other_late", "ApprovalMismatch", 1>>[1] = 1 /\ <<1, "other_late", "ApprovalMismatch", 1>>[2] = "other_late"
      OBVIOUS
    <2>2. <<1, "other_late", "ApprovalMismatch", 1>> \in ApprovalTable
      BY Zenon DEF ApprovalTable
    <2> QED BY <1>9, <2>1, <2>2, Zenon
  <1> QED BY <1>1, <1>2, <1>3, <1>4, <1>5, <1>6, <1>7, <1>8, <1>9, Zenon

LEMMA ApprovalRow ==
  ASSUME NEW s \in 0..1, NEW ev \in {"bound", "bound_late", "other", "other_late"}
  PROVE  /\ Row(ApprovalTable, s, ev)[3] = ApprovalError(s, ev)
         /\ Row(ApprovalTable, s, ev)[4] = (IF ApprovalError(s, ev) = "" THEN 1 ELSE s)
  <1>1. PICK err, to : err = ApprovalError(s, ev) /\ to = (IF ApprovalError(s, ev) = "" THEN 1 ELSE s)
    OBVIOUS
  <1>2. PICK x : x = Row(ApprovalTable, s, ev)
    OBVIOUS
  <1>3. \E r \in ApprovalTable : r[1] = s /\ r[2] = ev
    BY ApprovalListed
  <1>4. x \in ApprovalTable /\ x[1] = s /\ x[2] = ev
    BY <1>2, <1>3, RowFound
  <1>5. x[3] = ApprovalError(x[1], x[2]) /\ x[4] = (IF ApprovalError(x[1], x[2]) = "" THEN 1 ELSE x[1])
    BY <1>4, ApprovalRows
  <1> QED BY <1>2, <1>4, <1>5, Zenon

\* One event, as the table has it.
Handled(machine, x, e, r) ==
  /\ r.after \in SubjectSpace(machine)
  /\ LET o == SubjectOf(machine, e)
         t == StepOf(machine, Cell(machine, x, o), e)
     IN r.error = t[1] /\ Cell(machine, r.after, o) = t[2]
  /\ machine # "approval" => e.obj \in CaseObjects /\ \A o \in CaseObjects : o # e.obj => r.after[o] = x[o]

GuardOn(x, s, ev, o) ==
  IF s # (IF ev \in {"open", "open_refused"} THEN "idle" ELSE "open") THEN Result("StreamStateError", x)
  ELSE CASE ev = "open"                    -> Result("", [x EXCEPT ![o] = "open"])
         [] ev = "open_refused"            -> Result("EffectNotAuthorized", x)
         [] ev \in {"chunk", "checkpoint"} -> Result("", x)
         [] ev = "commit"                  -> Result("", [x EXCEPT ![o] = "committed"])
         [] ev = "commit_other"            -> Result("StreamDigestMismatch", x)
         [] ev = "expire"                  -> Result("", [x EXCEPT ![o] = "abandoned"])

LEMMA StreamHandled ==
  ASSUME NEW x \in [CaseObjects -> StatesOf("stream")], NEW e \in StreamEvents, NEW r, r = GuardEvent(x, e)
  PROVE  Handled("stream", x, e, r)
  <1>1. PICK s, ev, o : s = x[e.obj] /\ ev = e.ev /\ o = e.obj
    OBVIOUS
  <1>2. o \in CaseObjects /\ ev \in StreamEventNames /\ s \in StatesOf("stream")
    BY <1>1 DEF StreamEvents, StreamEventNames
  <1>3. EventName(e) = ev /\ SubjectOf("stream", e) = o /\ Table["stream"] = StreamTable
    BY <1>1, <1>2 DEF EventName, SubjectOf, Table, StreamEventNames
  <1>4. StepOf("stream", s, e) = <<StreamError(s, ev), StreamTo(s, ev)>>
    <2>1. StepOf("stream", s, e) = <<Row(StreamTable, s, ev)[3], Row(StreamTable, s, ev)[4]>>
      BY <1>3, Zenon DEF StepOf
    <2> QED BY <1>2, <2>1, StreamRow, Zenon
  <1>5. r = [error |-> StreamError(s, ev), after |-> [x EXCEPT ![o] = StreamTo(s, ev)]]
    <2>1. [x EXCEPT ![o] = s] = x
      BY <1>1, <1>2
    <2>2. r = IF s # (IF ev \in {"open", "open_refused"} THEN "idle" ELSE "open") THEN [error |-> "StreamStateError", after |-> x]
              ELSE CASE ev = "open" -> [error |-> "", after |-> [x EXCEPT ![o] = "open"]]
                     [] ev = "open_refused" -> [error |-> "EffectNotAuthorized", after |-> x]
                     [] ev \in {"chunk", "checkpoint"} -> [error |-> "", after |-> x]
                     [] ev = "commit" -> [error |-> "", after |-> [x EXCEPT ![o] = "committed"]]
                     [] ev = "commit_other" -> [error |-> "StreamDigestMismatch", after |-> x]
                     [] ev = "expire" -> [error |-> "", after |-> [x EXCEPT ![o] = "abandoned"]]
      <3>1. r = GuardOn(x, s, ev, o)
        <4>1. GuardEvent(x, e) = GuardOn(x, x[e.obj], e.ev, e.obj)
          BY DEF GuardEvent, GuardOn
        <4> QED BY <1>1, <4>1, Zenon
      <3> QED BY <3>1 DEF GuardOn, Result
    <2>3. CASE s # (IF ev \in {"open", "open_refused"} THEN "idle" ELSE "open")
      <3>1. StreamError(s, ev) = "StreamStateError" /\ StreamTo(s, ev) = s
        BY <2>3 DEF StreamError, StreamTo
      <3> QED BY <2>1, <2>2, <2>3, <3>1
    <2>4. CASE ~(s # (IF ev \in {"open", "open_refused"} THEN "idle" ELSE "open"))
      <3>1. CASE ev = "open"
        BY <2>2, <2>4, <3>1 DEF StreamError, StreamTo
      <3>2. CASE ev = "open_refused"
        BY <2>1, <2>2, <2>4, <3>2 DEF StreamError, StreamTo
      <3>3. CASE ev \in {"chunk", "checkpoint"}
        BY <2>1, <2>2, <2>4, <3>3 DEF StreamError, StreamTo
      <3>4. CASE ev = "commit"
        BY <2>2, <2>4, <3>4 DEF StreamError, StreamTo
      <3>5. CASE ev = "commit_other"
        BY <2>1, <2>2, <2>4, <3>5 DEF StreamError, StreamTo
      <3>6. CASE ev = "expire"
        BY <2>2, <2>4, <3>6 DEF StreamError, StreamTo
      <3> QED BY <1>2, <3>1, <3>2, <3>3, <3>4, <3>5, <3>6 DEF StreamEventNames
    <2> QED BY <2>3, <2>4
  <1>6. StreamTo(s, ev) \in StatesOf("stream")
    BY <1>2 DEF StreamTo, StatesOf
  <1>7. PICK err, to : err = StreamError(s, ev) /\ to = StreamTo(s, ev)
    OBVIOUS
  <1>8. /\ r.error = err /\ r.after \in [CaseObjects -> StatesOf("stream")] /\ r.after[o] = to
        /\ \A p \in CaseObjects : p # o => r.after[p] = x[p]
    <2>1. PICK S : S = StatesOf("stream")
      OBVIOUS
    <2>2. x \in [CaseObjects -> S] /\ to \in S
      BY <1>6, <1>7, <2>1, Zenon
    <2>3. r = [error |-> err, after |-> [x EXCEPT ![o] = to]]
      BY <1>5, <1>7, Zenon
    <2>4. r.error = err /\ r.after \in [CaseObjects -> S] /\ r.after[o] = to /\ \A p \in CaseObjects : p # o => r.after[p] = x[p]
      BY <1>2, <2>2, <2>3
    <2> QED BY <2>1, <2>4, Zenon
  <1>9. StepOf("stream", s, e)[1] = err /\ StepOf("stream", s, e)[2] = to
    BY <1>4, <1>7
  <1>10. SubjectSpace("stream") = [CaseObjects -> StatesOf("stream")]
    BY DEF SubjectSpace
  <1>11. Cell("stream", x, o) = s /\ Cell("stream", r.after, o) = to
    BY <1>1, <1>8 DEF Cell
  <1> QED BY <1>1, <1>2, <1>3, <1>8, <1>9, <1>10, <1>11, Zenon DEF Handled

LEMMA DeliveryHandled ==
  ASSUME NEW x \in [CaseObjects -> StatesOf("delivery")], NEW e \in DeliveryEvents, NEW r, r = AdvanceEvent(x, e)
  PROVE  Handled("delivery", x, e, r)
  <1>1. PICK s, ev, o : s = x[e.obj] /\ ev = e.stage /\ o = e.obj
    OBVIOUS
  <1>2. o \in CaseObjects /\ ev \in 0..3 /\ s \in StatesOf("delivery") /\ e.ev = "update"
    BY <1>1 DEF DeliveryEvents
  <1>3. EventName(e) = ev /\ SubjectOf("delivery", e) = o /\ Table["delivery"] = DeliveryTable
    BY <1>1, <1>2 DEF EventName, SubjectOf, Table
  <1>4. PICK err, to : err = (IF ev < s THEN "StageOutOfOrder" ELSE "") /\ to = (IF ev < s THEN s ELSE ev)
    OBVIOUS
  <1>5. StepOf("delivery", s, e) = <<err, to>>
    <2>1. StepOf("delivery", s, e) = <<Row(DeliveryTable, s, ev)[3], Row(DeliveryTable, s, ev)[4]>>
      BY <1>3, Zenon DEF StepOf
    <2>2. Row(DeliveryTable, s, ev)[3] = err /\ Row(DeliveryTable, s, ev)[4] = to
      BY <1>2, <1>4, DeliveryRow, Zenon
    <2> QED BY <2>1, <2>2, Zenon
  <1>6. s \in -1..3 /\ to \in StatesOf("delivery")
    <2>1. StatesOf("delivery") = -1..3
      BY DEF StatesOf
    <2>2. s \in -1..3
      BY <1>2, <2>1, Zenon
    <2>3. to \in -1..3
      <3>1. ev \in 0..3 /\ to = IF ev < s THEN s ELSE ev
        BY <1>2, <1>4, Zenon
      <3>2. CASE ev < s
        BY <2>2, <3>1, <3>2
      <3>3. CASE ~(ev < s)
        BY <2>2, <3>1, <3>3
      <3> QED BY <3>2, <3>3
    <2> QED BY <2>1, <2>2, <2>3, Zenon
  <1>7. r = [error |-> err, after |-> [x EXCEPT ![o] = to]]
    <2>1. [x EXCEPT ![o] = s] = x
      BY <1>1, <1>2
    <2>2. r = IF ev < s THEN [error |-> "StageOutOfOrder", after |-> x] ELSE [error |-> "", after |-> [x EXCEPT ![o] = ev]]
      BY <1>1, Zenon DEF AdvanceEvent, Result
    <2>3. CASE ev < s
      BY <1>4, <2>1, <2>2, <2>3
    <2>4. CASE ~(ev < s)
      BY <1>4, <2>2, <2>4
    <2> QED BY <2>3, <2>4
  <1>8. /\ r.error = err /\ r.after \in [CaseObjects -> StatesOf("delivery")] /\ r.after[o] = to
        /\ \A p \in CaseObjects : p # o => r.after[p] = x[p]
    <2>1. PICK S : S = StatesOf("delivery")
      OBVIOUS
    <2>2. x \in [CaseObjects -> S] /\ to \in S
      BY <1>6, <2>1, Zenon
    <2>4. r.error = err /\ r.after \in [CaseObjects -> S] /\ r.after[o] = to /\ \A p \in CaseObjects : p # o => r.after[p] = x[p]
      BY <1>2, <2>2, <1>7
    <2> QED BY <2>1, <2>4, Zenon
  <1>9. StepOf("delivery", s, e)[1] = err /\ StepOf("delivery", s, e)[2] = to
    BY <1>5
  <1>10. SubjectSpace("delivery") = [CaseObjects -> StatesOf("delivery")]
    BY DEF SubjectSpace
  <1>11. Cell("delivery", x, o) = s /\ Cell("delivery", r.after, o) = to
    BY <1>1, <1>8 DEF Cell
  <1> QED BY <1>1, <1>2, <1>3, <1>8, <1>9, <1>10, <1>11, Zenon DEF Handled

LEMMA ResultIs ==
  ASSUME NEW e, NEW a PROVE [error |-> e, after |-> a].error = e /\ [error |-> e, after |-> a].after = a
  OBVIOUS

LEMMA ConsumeHandled ==
  ASSUME NEW x \in 0..1, NEW e \in ConsumeEvents, NEW r, r = ConsumeEvent(x, e)
  PROVE  Handled("approval", x, e, r)
  <1>1. e.ev = "consume" /\ e.bound \in BOOLEAN /\ e.late \in BOOLEAN
    BY DEF ConsumeEvents
  <1>2. PICK ev : ev = EventName(e)
    OBVIOUS
  <1>3. ev = (IF e.late THEN (IF e.bound THEN "bound_late" ELSE "other_late") ELSE IF e.bound THEN "bound" ELSE "other")
    BY <1>1, <1>2 DEF EventName
  <1>4. PICK err, to : err = ApprovalError(x, ev) /\ to = (IF ApprovalError(x, ev) = "" THEN 1 ELSE x)
    OBVIOUS
  <1>5. StepOf("approval", x, e) = <<err, to>>
    <2>1. Table["approval"] = ApprovalTable
      BY DEF Table
    <2>2. StepOf("approval", x, e) = <<Row(ApprovalTable, x, ev)[3], Row(ApprovalTable, x, ev)[4]>>
      BY <1>2, <2>1, Zenon DEF StepOf
    <2>3. ev \in {"bound", "bound_late", "other", "other_late"}
      BY <1>3
    <2>4. Row(ApprovalTable, x, ev)[3] = err /\ Row(ApprovalTable, x, ev)[4] = to
      BY <1>4, <2>3, ApprovalRow, Zenon
    <2> QED BY <2>2, <2>4, Zenon
  <1>6. r.error = err /\ r.after = to /\ to \in 0..1
    <2>1. CASE e.bound /\ ~e.late /\ x = 0
      <3>1. ev = "bound"
        BY <1>3, <2>1
      <3>2. err = "" /\ to = 1
        BY <1>4, <2>1, <3>1 DEF ApprovalError
      <3>0. ~(x > 0) /\ x + 1 = 1
        BY <2>1
      <3>3. r = [error |-> "", after |-> 1]
        BY <2>1, <3>0, Zenon DEF ConsumeEvent, Result
      <3>4. r.error = "" /\ r.after = 1 /\ 1 \in 0..1
        <4>1. 1 \in 0..1
          OBVIOUS
        <4>2. [error |-> "", after |-> 1].error = "" /\ [error |-> "", after |-> 1].after = 1
          BY ResultIs
        <4>3. r.error = ""
          BY <3>3, <4>2, Zenon
        <4>4. r.after = 1
          BY <3>3, <4>2, Zenon
        <4> QED BY <4>1, <4>3, <4>4, Zenon
      <3> QED BY <3>2, <3>4, Zenon
    <2>2. CASE e.bound /\ ~e.late /\ x # 0
      <3>1. ev = "bound"
        BY <1>3, <2>2
      <3>2. err = "AlreadyConsumed" /\ to = x
        BY <1>4, <2>2, <3>1 DEF ApprovalError
      <3>0. x > 0
        BY <2>2
      <3>3. r = [error |-> "AlreadyConsumed", after |-> x]
        BY <2>2, <3>0, Zenon DEF ConsumeEvent, Result
      <3> QED BY <2>2, <3>2, <3>3
    <2>3. CASE e.bound /\ e.late
      BY <1>3, <1>4, <2>3 DEF ConsumeEvent, Result, ApprovalError
    <2>4. CASE ~e.bound
      BY <1>3, <1>4, <2>4 DEF ConsumeEvent, Result, ApprovalError
    <2> QED BY <1>1, <2>1, <2>2, <2>3, <2>4
  <1>7. StepOf("approval", x, e)[1] = err /\ StepOf("approval", x, e)[2] = to
    BY <1>5
  <1>8. \A o : Cell("approval", x, o) = x /\ Cell("approval", r.after, o) = r.after
    BY DEF Cell
  <1>9. SubjectSpace("approval") = 0..1
    BY DEF SubjectSpace
  <1> QED BY <1>6, <1>7, <1>8, <1>9, Zenon DEF Handled

LEMMA EventHandled ==
  ASSUME NEW machine \in Machines, NEW x \in SubjectSpace(machine), NEW e \in EventsOf[machine],
         NEW r, r = HandleEvent(machine, x, e)
  PROVE  Handled(machine, x, e, r)
  <1>1. CASE machine = "stream"
    <2>1. EventsOf[machine] = StreamEvents /\ r = GuardEvent(x, e) /\ SubjectSpace(machine) = [CaseObjects -> StatesOf("stream")]
      BY <1>1 DEF EventsOf, HandleEvent, SubjectSpace
    <2> QED BY <1>1, <2>1, StreamHandled
  <1>2. CASE machine = "delivery"
    <2>1. EventsOf[machine] = DeliveryEvents /\ r = AdvanceEvent(x, e) /\ SubjectSpace(machine) = [CaseObjects -> StatesOf("delivery")]
      BY <1>2 DEF EventsOf, HandleEvent, SubjectSpace
    <2> QED BY <1>2, <2>1, DeliveryHandled
  <1>3. CASE machine = "approval"
    <2>1. EventsOf[machine] = ConsumeEvents /\ r = ConsumeEvent(x, e) /\ SubjectSpace(machine) = 0..1
      BY <1>3 DEF EventsOf, HandleEvent, SubjectSpace
    <2> QED BY <1>3, <2>1, ConsumeHandled
  <1> QED BY <1>1, <1>2, <1>3 DEF Machines

\* The rows of a script, one event after another.
Pass(machine, o, e, x) == IF machine # "approval" /\ e.obj # o THEN x ELSE StepOf(machine, x[2], e)
FollowedBody(machine, o, events, f, i) ==
  IF i = 0 THEN <<"", StartOf(machine)>> ELSE Pass(machine, o, events[i], f[i - 1])
FollowedFn(machine, o, events) ==
  CHOOSE f : f = [i \in 0..Len(events) |-> FollowedBody(machine, o, events, f, i)]

Errors == {"", "StreamStateError", "EffectNotAuthorized", "StreamDigestMismatch", "StageOutOfOrder",
           "ApprovalMismatch", "ApprovalExpired", "AlreadyConsumed"}

LEMMA FollowedFnIs ==
  ASSUME NEW machine, NEW o, NEW events
  PROVE  Followed(machine, StartOf(machine), o, events) = FollowedFn(machine, o, events)[Len(events)]
  BY Zenon DEF Followed, FollowedFn, FollowedBody, Pass, StepOf

LEMMA StepTyped ==
  ASSUME NEW machine \in Machines, NEW s \in StatesOf(machine), NEW e \in EventsOf[machine]
  PROVE  StepOf(machine, s, e) \in Errors \X StatesOf(machine)
  <1>1. PICK err, to : err = Row(Table[machine], s, EventName(e))[3] /\ to = Row(Table[machine], s, EventName(e))[4]
    OBVIOUS
  <1>2. StepOf(machine, s, e) = <<err, to>>
    BY <1>1, Zenon DEF StepOf
  <1>3. err \in Errors /\ to \in StatesOf(machine)
    <2>1. CASE machine = "stream"
      <3>1. PICK ev : ev = e.ev
        OBVIOUS
      <3>2. ev \in StreamEventNames
        BY <2>1, <3>1 DEF EventsOf, StreamEvents, StreamEventNames
      <3>3. EventName(e) = ev /\ Table[machine] = StreamTable
        BY <2>1, <3>1, <3>2 DEF EventName, Table, StreamEventNames
      <3>4. err = StreamError(s, ev) /\ to = StreamTo(s, ev)
        BY <1>1, <2>1, <3>2, <3>3, StreamRow
      <3> QED BY <2>1, <3>4 DEF StreamError, StreamTo, Errors, StatesOf
    <2>2. CASE machine = "delivery"
      <3>1. PICK ev : ev = e.stage
        OBVIOUS
      <3>2. ev \in 0..3 /\ e.ev = "update"
        BY <2>2, <3>1 DEF EventsOf, DeliveryEvents
      <3>3. EventName(e) = ev /\ Table[machine] = DeliveryTable
        BY <2>2, <3>1, <3>2 DEF EventName, Table
      <3>4. err = (IF ev < s THEN "StageOutOfOrder" ELSE "") /\ to = (IF ev < s THEN s ELSE ev)
        BY <1>1, <2>2, <3>2, <3>3, DeliveryRow
      <3>5. StatesOf(machine) = -1..3
        BY <2>2 DEF StatesOf
      <3>6. s \in -1..3
        BY <3>5, Zenon
      <3>7. to \in -1..3
        <4>1. CASE ev < s
          BY <3>4, <3>6, <4>1, Zenon
        <4>2. CASE ~(ev < s)
          <5>1. to = ev
            BY <3>4, <4>2, Zenon
          <5>2. \A i \in 0..3 : i \in -1..3
            OBVIOUS
          <5> QED BY <3>2, <5>1, <5>2, Zenon
        <4> QED BY <4>1, <4>2
      <3>8. err \in Errors
        BY <3>4 DEF Errors
      <3> QED BY <3>5, <3>7, <3>8, Zenon
    <2>3. CASE machine = "approval"
      <3>1. PICK ev : ev = EventName(e)
        OBVIOUS
      <3>2. e.ev = "consume"
        BY <2>3 DEF EventsOf, ConsumeEvents
      <3>3. ev \in {"bound", "bound_late", "other", "other_late"}
        BY <3>1, <3>2 DEF EventName
      <3>4. Table[machine] = ApprovalTable /\ StatesOf(machine) = 0..1
        BY <2>3 DEF Table, StatesOf
      <3>5. s \in 0..1
        BY <3>4, Zenon
      <3>6. err = ApprovalError(s, ev) /\ to = (IF ApprovalError(s, ev) = "" THEN 1 ELSE s)
        BY <1>1, <3>1, <3>3, <3>4, <3>5, ApprovalRow, Zenon
      <3>7. to \in 0..1
        <4>1. to = 1 \/ to = s
          BY <3>6, Zenon
        <4>2. 1 \in 0..1
          OBVIOUS
        <4> QED BY <3>5, <4>1, <4>2, Zenon
      <3>8. err \in Errors
        BY <3>6, Zenon DEF ApprovalError, Errors
      <3> QED BY <3>4, <3>7, <3>8, Zenon
    <2> QED BY <2>1, <2>2, <2>3 DEF Machines
  <1> QED BY <1>2, <1>3

FollowedRuns(machine, o, events, n, F) ==
  /\ F \in [0..n -> Errors \X StatesOf(machine)]
  /\ F[0] = <<"", StartOf(machine)>>
  /\ \A k \in 1..n : F[k] = Pass(machine, o, events[k], F[k - 1])

LEMMA StartTyped == ASSUME NEW machine \in Machines PROVE StartOf(machine) \in StatesOf(machine)
  <1>1. CASE machine = "stream"
    BY <1>1 DEF StartOf, StatesOf
  <1>2. CASE machine = "delivery"
    <2>1. StartOf(machine) = -1 /\ StatesOf(machine) = -1..3
      BY <1>2 DEF StartOf, StatesOf, Unseen
    <2>2. -1 \in -1..3
      OBVIOUS
    <2> QED BY <2>1, <2>2, Zenon
  <1>3. CASE machine = "approval"
    <2>1. StartOf(machine) = 0 /\ StatesOf(machine) = 0..1
      BY <1>3 DEF StartOf, StatesOf
    <2>2. 0 \in 0..1
      OBVIOUS
    <2> QED BY <2>1, <2>2, Zenon
  <1> QED BY <1>1, <1>2, <1>3 DEF Machines

LEMMA FollowedRun ==
  ASSUME NEW machine \in Machines, NEW o, NEW events \in Seq(EventsOf[machine]), NEW n, n = Len(events),
         NEW F, F = FollowedFn(machine, o, events)
  PROVE  FollowedRuns(machine, o, events, n, F)
  <1> DEFINE X == Errors \X StatesOf(machine)
             b == <<"", StartOf(machine)>>
             st == [p \in (1..n) \X X |-> Pass(machine, o, events[p[1]], p[2])]
  <1>0. n \in Nat /\ \A k \in 1..n : events[k] \in EventsOf[machine]
    OBVIOUS
  <1>1. b \in X
    BY StartTyped DEF Errors
  <1>2. \A k \in 1..n, x \in X : Pass(machine, o, events[k], x) \in X
    <2> SUFFICES ASSUME NEW k \in 1..n, NEW x \in X PROVE Pass(machine, o, events[k], x) \in X
      OBVIOUS
    <2>1. x[2] \in StatesOf(machine)
      OBVIOUS
    <2>2. StepOf(machine, x[2], events[k]) \in X
      BY <1>0, <2>1, StepTyped
    <2> HIDE DEF X
    <2> QED BY <2>2, Zenon DEF Pass
  <1>3. st \in [(1..n) \X X -> X] /\ \A k \in 1..n, x \in X : st[<<k, x>>] = Pass(machine, o, events[k], x)
    <2> HIDE DEF X
    <2> QED BY <1>2
  <1> HIDE DEF X, b, st
  <1>4. PICK g : Solves(g, n, X, b, st)
    BY <1>0, <1>1, <1>3, Iterated, Zenon
  <1>5. ASSUME NEW k \in 0..n PROVE g[k] = FollowedBody(machine, o, events, g, k)
    <2>1. CASE k = 0
      BY <1>4, <2>1, Zenon DEF Solves, FollowedBody, b
    <2>2. CASE k # 0
      <3>1. k \in 1..n /\ k - 1 \in 0..n
        BY <1>0, <2>2
      <3>2. g[k - 1] \in X /\ g[k] = st[<<k, g[k - 1]>>]
        BY <1>4, <3>1 DEF Solves
      <3> QED BY <1>3, <2>2, <3>1, <3>2, Zenon DEF FollowedBody
    <2> QED BY <2>1, <2>2
  <1>6. g = [k \in 0..Len(events) |-> FollowedBody(machine, o, events, g, k)]
    BY <1>4, <1>5 DEF Solves
  <1>7. F = [k \in 0..Len(events) |-> FollowedBody(machine, o, events, F, k)]
    BY <1>6, Zenon DEF FollowedFn
  <1>8. F = [k \in 0..n |-> F[k]] /\ \A k \in 0..n : F[k] = FollowedBody(machine, o, events, F, k)
    BY <1>7
  <1>9. F[0] = b
    <2>1. 0 \in 0..n
      BY <1>0
    <2> QED BY <1>8, <2>1, Zenon DEF FollowedBody, b
  <1>10. ASSUME NEW k \in 1..n PROVE F[k] = Pass(machine, o, events[k], F[k - 1])
    <2>1. k \in 0..n /\ k # 0
      BY <1>0
    <2> QED BY <1>8, <2>1, Zenon DEF FollowedBody
  <1>11. Solves(F, n, X, b, st)
    <2>1. \A k \in 1..n : F[k - 1] \in X => F[k] = st[<<k, F[k - 1]>>]
      BY <1>3, <1>10, Zenon
    <2> QED BY <1>0, <1>1, <1>3, <1>8, <1>9, <2>1, RunsFrom, Zenon
  <1> QED BY <1>9, <1>10, <1>11, Zenon DEF Solves, FollowedRuns, X, b

\* One more event takes the rows one further.
LEMMA FollowedNext ==
  ASSUME NEW machine \in Machines, NEW o, NEW events \in Seq(EventsOf[machine]), NEW e \in EventsOf[machine],
         NEW a, a = Followed(machine, StartOf(machine), o, events),
         NEW z, z = Followed(machine, StartOf(machine), o, Append(events, e))
  PROVE  a \in Errors \X StatesOf(machine) /\ z = Pass(machine, o, e, a)
  <1>1. PICK n \in Nat : n = Len(events)
    OBVIOUS
  <1>2. PICK more : more = Append(events, e)
    OBVIOUS
  <1>3. more \in Seq(EventsOf[machine]) /\ Len(more) = n + 1 /\ more[n + 1] = e /\ \A k \in 1..n : more[k] = events[k]
    BY <1>1, <1>2
  <1>4. PICK F, H : F = FollowedFn(machine, o, events) /\ H = FollowedFn(machine, o, more)
    OBVIOUS
  <1>5. FollowedRuns(machine, o, events, n, F) /\ FollowedRuns(machine, o, more, n + 1, H)
    <2>1. FollowedRuns(machine, o, events, n, F)
      BY <1>1, <1>4, FollowedRun
    <2>2. FollowedRuns(machine, o, more, n + 1, H)
      BY <1>3, <1>4, FollowedRun
    <2> QED BY <2>1, <2>2
  <1> DEFINE G == {k \in 0..n : F[k] = H[k]}
  <1>6. 0 \in G
    <2>1. F[0] = H[0]
      BY <1>5, Zenon DEF FollowedRuns
    <2>2. 0 \in 0..n
      OBVIOUS
    <2> QED BY <2>1, <2>2, Zenon
  <1>7. \A k \in 0..n : k < n /\ k \in G => k + 1 \in G
    <2> SUFFICES ASSUME NEW k \in 0..n, k < n, k \in G PROVE k + 1 \in G
      OBVIOUS
    <2>1. k + 1 \in 1..n /\ k + 1 \in 1..(n + 1) /\ (k + 1) - 1 = k /\ k + 1 \in 0..n /\ F[k] = H[k]
      OBVIOUS
    <2>2. F[k + 1] = Pass(machine, o, events[k + 1], F[k])
      BY <1>5, <2>1 DEF FollowedRuns
    <2>3. H[k + 1] = Pass(machine, o, more[k + 1], H[k])
      BY <1>5, <2>1 DEF FollowedRuns
    <2>4. F[k + 1] = H[k + 1]
      BY <1>3, <2>1, <2>2, <2>3
    <2> QED BY <2>1, <2>4
  <1>8. \A k \in 0..n : k \in G
    <2> HIDE DEF G
    <2> QED BY <1>6, <1>7, AllUpTo
  <1>9. F[n] = H[n] /\ n \in 0..n
    BY <1>8
  <1>10. a = F[n]
    BY <1>1, <1>4, FollowedFnIs, Zenon
  <1>11. z = H[n + 1]
    <2>1. z = FollowedFn(machine, o, more)[Len(more)]
      BY <1>2, FollowedFnIs, Zenon
    <2> QED BY <1>3, <1>4, <2>1, Zenon
  <1>12. H[n + 1] = Pass(machine, o, e, H[n])
    <2>1. n + 1 \in 1..(n + 1) /\ (n + 1) - 1 = n
      OBVIOUS
    <2>2. H[n + 1] = Pass(machine, o, more[n + 1], H[(n + 1) - 1])
      BY <1>5, <2>1, Zenon DEF FollowedRuns
    <2> QED BY <1>3, <2>1, <2>2, Zenon
  <1>13. F[n] \in Errors \X StatesOf(machine)
    BY <1>5, <1>9 DEF FollowedRuns
  <1> QED BY <1>9, <1>10, <1>11, <1>12, <1>13, Zenon

LEMMA FollowedNone ==
  ASSUME NEW machine \in Machines, NEW o
  PROVE  Followed(machine, StartOf(machine), o, << >>) = <<"", StartOf(machine)>>
  <1>1. << >> \in Seq(EventsOf[machine]) /\ Len(<< >>) = 0
    OBVIOUS
  <1>2. PICK F : F = FollowedFn(machine, o, << >>)
    OBVIOUS
  <1>3. FollowedRuns(machine, o, << >>, 0, F)
    BY <1>1, <1>2, FollowedRun
  <1>4. F[0] = <<"", StartOf(machine)>>
    BY <1>3, Zenon DEF FollowedRuns
  <1> QED BY <1>1, <1>2, <1>4, FollowedFnIs, Zenon

(***************************************************************************)
(* Conformance: what a request in work has come to                         *)
(***************************************************************************)
SubjectsOf(machine) == IF machine = "approval" THEN {"approval"} ELSE CaseObjects

\* The subject holds what the rows of its script have left, object by object.
DrivenTo(machine, x, events, v) ==
  /\ events \in Seq(EventsOf[machine]) /\ x \in SubjectSpace(machine)
  /\ \A o \in SubjectsOf(machine) :
       Cell(machine, x, o) = Followed(machine, StartOf(machine), o, events)[2]
  /\ events # << >> => v = Graded(machine, events)[1] /\ SubjectOf(machine, Last(events)) \in SubjectsOf(machine)

GradedInv ==
  /\ op \in Machines \cup {"idle"}
  /\ op # "idle" => DrivenTo(op, subject, script, verdict)
  /\ AnswersFollowTheTables

LEMMA FreshIsDriven ==
  ASSUME NEW machine \in Machines, NEW v
  PROVE  DrivenTo(machine, FreshSubject[machine], << >>, v)
  <1>1. << >> \in Seq(EventsOf[machine])
    OBVIOUS
  <1>2. FreshSubject[machine] \in SubjectSpace(machine)
        /\ \A o \in SubjectsOf(machine) : Cell(machine, FreshSubject[machine], o) = StartOf(machine)
    <2>1. CASE machine = "stream"
      BY <2>1 DEF FreshSubject, SubjectSpace, SubjectsOf, Cell, StartOf, StatesOf
    <2>2. CASE machine = "delivery"
      <3>1. FreshSubject[machine] = [o \in CaseObjects |-> -1]
        BY <2>2 DEF FreshSubject, Unseen
      <3>2. SubjectSpace(machine) = [CaseObjects -> -1..3]
        BY <2>2 DEF SubjectSpace, StatesOf
      <3>3. [o \in CaseObjects |-> -1] \in [CaseObjects -> -1..3]
        OBVIOUS
      <3>4. SubjectsOf(machine) = CaseObjects /\ StartOf(machine) = -1 /\ \A x, o : Cell(machine, x, o) = x[o]
        BY <2>2 DEF SubjectsOf, StartOf, Unseen, Cell
      <3>5. \A o \in CaseObjects : [p \in CaseObjects |-> -1][o] = -1
        OBVIOUS
      <3> QED BY <3>1, <3>2, <3>3, <3>4, <3>5, Zenon
    <2>3. CASE machine = "approval"
      <3>1. FreshSubject[machine] = 0 /\ SubjectSpace(machine) = 0..1 /\ StartOf(machine) = 0 /\ \A x, o : Cell(machine, x, o) = x
        BY <2>3 DEF FreshSubject, SubjectSpace, StartOf, Cell
      <3>2. 0 \in 0..1
        OBVIOUS
      <3> QED BY <3>1, <3>2, Zenon
    <2> QED BY <2>1, <2>2, <2>3 DEF Machines
  <1>3. \A o : Followed(machine, StartOf(machine), o, << >>)[2] = StartOf(machine)
    <2>1. \A s : <<"", s>>[2] = s
      OBVIOUS
    <2> QED BY <2>1, FollowedNone, Zenon
  <1> QED BY <1>1, <1>2, <1>3, Zenon DEF DrivenTo

LEMMA DrivenOn ==
  ASSUME NEW machine \in Machines, NEW x, NEW events, NEW v, DrivenTo(machine, x, events, v),
         NEW e \in EventsOf[machine], NEW r, r = HandleEvent(machine, x, e)
  PROVE  DrivenTo(machine, r.after, Append(events, e), r.error)
  <1>1. events \in Seq(EventsOf[machine]) /\ x \in SubjectSpace(machine)
    BY DEF DrivenTo
  <1>2. Handled(machine, x, e, r)
    BY <1>1, EventHandled
  <1>3. PICK more : more = Append(events, e)
    OBVIOUS
  <1>4. more \in Seq(EventsOf[machine]) /\ more # << >> /\ Last(more) = e
    BY <1>1, <1>3 DEF Last
  <1>5. PICK p : p = SubjectOf(machine, e)
    OBVIOUS
  <1>6. p \in SubjectsOf(machine) /\ \A o \in SubjectsOf(machine) : (machine # "approval" /\ e.obj # o) <=> o # p
    <2>1. CASE machine = "approval"
      BY <1>5, <2>1 DEF SubjectOf, SubjectsOf
    <2>2. CASE machine # "approval"
      BY <1>2, <1>5, <2>2 DEF SubjectOf, SubjectsOf, Handled
    <2> QED BY <2>1, <2>2
  <1>7. \A o \in SubjectsOf(machine) :
          /\ Followed(machine, StartOf(machine), o, events) \in Errors \X StatesOf(machine)
          /\ Cell(machine, x, o) = Followed(machine, StartOf(machine), o, events)[2]
          /\ Followed(machine, StartOf(machine), o, more) = Pass(machine, o, e, Followed(machine, StartOf(machine), o, events))
    BY <1>1, <1>3, FollowedNext DEF DrivenTo
  <1>8. PICK t : t = StepOf(machine, Cell(machine, x, p), e)
    OBVIOUS
  <1>9. Followed(machine, StartOf(machine), p, more) = t
    BY <1>6, <1>7, <1>8, Zenon DEF Pass
  <1>10. r.error = t[1] /\ Cell(machine, r.after, p) = t[2] /\ r.after \in SubjectSpace(machine)
    BY <1>2, <1>5, <1>8, Zenon DEF Handled
  <1>11. ASSUME NEW o \in SubjectsOf(machine)
         PROVE  Cell(machine, r.after, o) = Followed(machine, StartOf(machine), o, more)[2]
    <2>1. CASE o = p
      BY <1>9, <1>10, <2>1, Zenon
    <2>2. CASE o # p
      <3>1. machine # "approval" /\ e.obj # o
        BY <1>6, <2>2, Zenon
      <3>2. Followed(machine, StartOf(machine), o, more) = Followed(machine, StartOf(machine), o, events)
        BY <1>7, <3>1, Zenon DEF Pass
      <3>3. o \in CaseObjects
        BY <3>1, Zenon DEF SubjectsOf
      <3>4. Cell(machine, r.after, o) = Cell(machine, x, o)
        BY <1>2, <3>1, <3>3, Zenon DEF Handled, Cell
      <3> QED BY <1>7, <3>2, <3>4, Zenon
    <2> QED BY <2>1, <2>2
  <1>12. Graded(machine, more) = t
    BY <1>4, <1>5, <1>9, Zenon DEF Graded
  <1>13. DrivenTo(machine, r.after, more, r.error)
    BY <1>4, <1>5, <1>6, <1>10, <1>11, <1>12, Zenon DEF DrivenTo
  <1> QED BY <1>3, <1>13, Zenon

LEMMA ReportIsGraded ==
  ASSUME NEW machine \in Machines, NEW x, NEW events, NEW v, DrivenTo(machine, x, events, v), events # << >>
  PROVE  <<v, Report(machine, x, events)>> = Graded(machine, events)
  <1>1. PICK p : p = SubjectOf(machine, Last(events))
    OBVIOUS
  <1>2. PICK g : g = Graded(machine, events)
    OBVIOUS
  <1>3. g = Followed(machine, StartOf(machine), p, events)
    BY <1>1, <1>2, Zenon DEF Graded
  <1>4. v = g[1] /\ Cell(machine, x, p) = g[2] /\ events \in Seq(EventsOf[machine])
    BY <1>1, <1>2, <1>3, Zenon DEF DrivenTo
  <1>5. g \in Errors \X StatesOf(machine)
    <2>1. PICK n \in Nat : n = Len(events)
      BY <1>4
    <2>2. PICK F : F = FollowedFn(machine, p, events)
      OBVIOUS
    <2>3. FollowedRuns(machine, p, events, n, F)
      BY <1>4, <2>1, <2>2, FollowedRun
    <2>4. n \in 0..n
      OBVIOUS
    <2>5. F[n] \in Errors \X StatesOf(machine)
      BY <2>3, <2>4, Zenon DEF FollowedRuns
    <2> QED BY <1>3, <2>1, <2>2, <2>5, FollowedFnIs, Zenon
  <1>6. g = <<g[1], g[2]>>
    BY <1>5
  <1>7. Report(machine, x, events) = Cell(machine, x, p)
    BY <1>1, Zenon DEF Report, Cell, SubjectOf
  <1> QED BY <1>2, <1>4, <1>6, <1>7, Zenon

(***************************************************************************)
(* Conformance: the chain of a reconcile request                           *)
(***************************************************************************)
LEMMA ChainIs ==
  ASSUME NEW links \in Chains
  PROVE  \E U : links \in Seq(U)
  <1>1. CASE links \in {<<r>> : r \in Firsts}
    <2>1. PICK r : links = <<r>>
      BY <1>1, Zenon
    <2>2. <<r>> \in Seq({r})
      OBVIOUS
    <2> QED BY <2>1, <2>2, Zenon
  <1>2. CASE links \in UNION {{<<r, s>> : s \in Seconds(r)} : r \in Firsts}
    <2>1. PICK r, s : links = <<r, s>>
      BY <1>2, Zenon
    <2>2. <<r, s>> \in Seq({r, s})
      OBVIOUS
    <2> QED BY <2>1, <2>2, Zenon
  <1> QED BY <1>1, <1>2, Zenon DEF Chains

Apart(x, y) == x.seq = y.seq /\ x.obj # y.obj
Told(links, extra) == links \o (IF extra = NoExtra THEN << >> ELSE <<extra>>)

\* In a chain whose receipts are numbered one after another, two receipts of one
\* position can only be one of the chain and the extra one.
LEMMA ForkIs ==
  ASSUME NEW links \in Chains, \A i \in DOMAIN links : links[i].seq = i - 1,
         NEW extra \in Extras \cup {NoExtra}, NEW shown, shown = Told(links, extra)
  PROVE  (\E i, j \in DOMAIN shown : Apart(shown[i], shown[j]))
           <=> \E i \in DOMAIN links : extra \in Extras /\ Apart(links[i], extra)
  <1>1. PICK U : links \in Seq(U)
    BY ChainIs
  <1>2. PICK n \in Nat : n = Len(links) /\ DOMAIN links = 1..n
    BY <1>1
  <1>3. ASSUME NEW i \in 1..n, NEW j \in 1..n, Apart(links[i], links[j]) PROVE FALSE
    <2>1. links[i].seq = i - 1 /\ links[j].seq = j - 1
      BY <1>2
    <2>2. i = j
      <3>1. i - 1 = j - 1
        BY <1>3, <2>1, Zenon DEF Apart
      <3> QED BY <3>1
    <2> QED BY <1>3, <2>2, Zenon DEF Apart
  <1>4. extra \in Extras <=> extra # NoExtra
    BY DEF Extras, NoExtra, GradedReceipts
  <1>5. CASE extra = NoExtra
    <2>1. shown = links
      BY <1>1, <1>5 DEF Told
    <2> QED BY <1>2, <1>3, <1>4, <1>5, <2>1, Zenon
  <1>6. CASE extra # NoExtra
    <2>1. PICK V : V = U \cup {extra}
      OBVIOUS
    <2>2. links \in Seq(V) /\ <<extra>> \in Seq(V) /\ Len(<<extra>>) = 1 /\ <<extra>>[1] = extra
      BY <1>1, <2>1
    <2>3. shown = links \o <<extra>>
      BY <1>6, Zenon DEF Told
    <2>4. DOMAIN shown = 1..(n + 1) /\ shown[n + 1] = extra /\ \A i \in 1..n : shown[i] = links[i]
      <3>1. shown \in Seq(V) /\ Len(shown) = n + 1
        BY <1>2, <2>2, <2>3
      <3>2. DOMAIN shown = 1..(n + 1)
        BY <3>1
      <3>3. \A i \in 1..n : shown[i] = links[i]
        BY <1>2, <2>2, <2>3
      <3>4. shown[n + 1] = <<extra>>[(n + 1) - n]
        BY <1>2, <2>2, <2>3
      <3>5. (n + 1) - n = 1
        OBVIOUS
      <3> QED BY <2>2, <3>2, <3>3, <3>4, <3>5, Zenon
    <2>5. \A i : i \in 1..(n + 1) <=> i \in 1..n \/ i = n + 1
      OBVIOUS
    <2>6. ~Apart(extra, extra)
      BY Zenon DEF Apart
    <2>7. \A i \in 1..n : Apart(extra, links[i]) <=> Apart(links[i], extra)
      BY Zenon DEF Apart
    <2>8. ASSUME NEW i \in DOMAIN shown, NEW j \in DOMAIN shown, Apart(shown[i], shown[j])
          PROVE  \E k \in 1..n : Apart(links[k], extra)
      <3>1. (i \in 1..n \/ i = n + 1) /\ (j \in 1..n \/ j = n + 1)
        BY <2>4, <2>5, Zenon
      <3>2. CASE i \in 1..n /\ j \in 1..n
        BY <1>3, <2>4, <2>8, <3>2, Zenon
      <3>3. CASE i \in 1..n /\ j = n + 1
        BY <2>4, <2>8, <3>3, Zenon
      <3>4. CASE i = n + 1 /\ j \in 1..n
        BY <2>4, <2>7, <2>8, <3>4, Zenon
      <3>5. CASE i = n + 1 /\ j = n + 1
        BY <2>4, <2>6, <2>8, <3>5, Zenon
      <3> QED BY <3>1, <3>2, <3>3, <3>4, <3>5, Zenon
    <2>9. ASSUME NEW k \in 1..n, Apart(links[k], extra)
          PROVE  \E i, j \in DOMAIN shown : Apart(shown[i], shown[j])
      <3>1. k \in DOMAIN shown /\ n + 1 \in DOMAIN shown
        BY <2>4, <2>5, Zenon
      <3>2. Apart(shown[k], shown[n + 1])
        BY <2>4, <2>9, Zenon
      <3> QED BY <3>1, <3>2, Zenon
    <2> QED BY <1>2, <1>4, <1>6, <2>8, <2>9, Zenon
  <1> QED BY <1>5, <1>6

Faults(links, corrupt, extra) ==
  {f \in {"ChainBroken", "ReceiptUnsigned", "Equivocation"} :
     \/ f = "ChainBroken" /\ \E i \in DOMAIN links : ~Linked(links, i)
     \/ f = "ReceiptUnsigned" /\ corrupt # 0
     \/ f = "Equivocation" /\ \E i \in DOMAIN links : extra \in Extras /\ Apart(links[i], extra)}

RefusedBy(out, faults) == (out = "" <=> faults = {}) /\ (faults # {} => out \in faults)

\* A chain is refused by one of its faults, and only by those.
LEMMA AddChainExact ==
  ASSUME NEW links \in Chains, NEW corrupt \in 0..2, corrupt <= Len(links), NEW extra \in Extras \cup {NoExtra},
         NEW out, out = AddChain(links, corrupt, extra), NEW faults, faults = Faults(links, corrupt, extra)
  PROVE  RefusedBy(out, faults)
  <1> SUFFICES (out = "" <=> faults = {}) /\ (faults # {} => out \in faults)
    BY Zenon DEF RefusedBy
  <1>1. PICK U : links \in Seq(U)
    BY ChainIs
  <1>2. PICK n \in Nat : n = Len(links) /\ DOMAIN links = 1..n
    BY <1>1
  <1>3. PICK bad : bad = {i \in DOMAIN links : ~Linked(links, i) \/ i = corrupt}
    OBVIOUS
  <1>4. "" \notin faults
    BY DEF Faults
  <1>5. CASE bad # {}
    <2>1. PICK first : first = CHOOSE k \in bad : \A l \in bad : k <= l
      OBVIOUS
    <2>2. first \in bad
      <3>1. bad \in SUBSET Nat
        BY <1>2, <1>3
      <3>2. \E k \in bad : \A l \in bad : k <= l
        BY <1>5, <3>1, LeastOf
      <3> QED BY <2>1, <3>2, Zenon
    <2>3. out = IF ~Linked(links, first) THEN "ChainBroken" ELSE "ReceiptUnsigned"
      BY <1>3, <1>5, <2>1, Zenon DEF AddChain
    <2>4. out \in faults
      <3>1. CASE ~Linked(links, first)
        BY <1>3, <2>2, <2>3, <3>1, Zenon DEF Faults
      <3>2. CASE Linked(links, first)
        <4>1. first = corrupt /\ first \in 1..n
          BY <1>2, <1>3, <2>2, <3>2, Zenon
        <4>2. corrupt # 0
          BY <4>1
        <4> QED BY <2>3, <3>2, <4>2, Zenon DEF Faults
      <3> QED BY <3>1, <3>2
    <2> QED BY <1>4, <2>4, Zenon
  <1>6. CASE bad = {}
    <2>1. \A i \in 1..n : Linked(links, i) /\ i # corrupt
      BY <1>2, <1>3, <1>6, Zenon
    <2>2. corrupt = 0
      BY <1>2, <2>1
    <2>3. \A i \in DOMAIN links : links[i].seq = i - 1
      BY <1>2, <2>1, Zenon DEF Linked
    <2>4. PICK shown, fork : shown = Told(links, extra) /\ fork = \E i, j \in DOMAIN shown : Apart(shown[i], shown[j])
      OBVIOUS
    <2>5. fork <=> \E i \in DOMAIN links : extra \in Extras /\ Apart(links[i], extra)
      BY <2>3, <2>4, ForkIs
    <2>6. out = IF fork THEN "Equivocation" ELSE ""
      BY <1>3, <1>6, <2>4, Zenon DEF AddChain, Told, Apart
    <2>7. \A f : f \in faults <=> f = "Equivocation" /\ fork
      <3>1. \A f : f \in faults => f = "Equivocation" /\ fork
        BY <1>2, <2>1, <2>2, <2>5, Zenon DEF Faults
      <3>2. fork => "Equivocation" \in faults
        BY <2>5, Zenon DEF Faults
      <3> QED BY <3>1, <3>2, Zenon
    <2>8. "Equivocation" # ""
      OBVIOUS
    <2>9. CASE fork
      BY <2>6, <2>7, <2>8, <2>9, Zenon
    <2>10. CASE ~fork
      BY <2>6, <2>7, <2>10, Zenon
    <2> QED BY <2>9, <2>10
  <1> QED BY <1>5, <1>6

(***************************************************************************)
(* Conformance: the graph of a reconcile request                           *)
(***************************************************************************)
\* The names that the adapter's module has for the graph's operators.
LEMMA SameSearch ==
  ASSUME NEW ns
  PROVE  /\ CO!Acyclic(CO!CausesOf(ns)) = Acyclic(CausesOf(ns))
         /\ CO!Cyclic(CO!Links(ns)) = Cyclic(Links(ns))
  <1>1. CO!Links(ns) = Links(ns)
    BY Zenon DEF CO!Links, Links, CO!Idx, Idx, CO!IdsOf, IdsOf, CO!Max, Max
  <1>2. \A l : CO!HasCycle(l) = HasCycle(l)
    BY Zenon DEF CO!HasCycle, HasCycle, CO!Colorings, Colorings
  <1>3. \A l : CO!Cyclic(l) = Cyclic(l)
    BY <1>2, Zenon DEF CO!Cyclic, Cyclic
  <1>4. CO!CausesOf(ns) = CausesOf(ns)
    BY Zenon DEF CO!CausesOf, CausesOf, CO!IdsOf, IdsOf, CO!ToSet, ToSet
  <1>5. \A t : CO!Acyclic(t) = Acyclic(t)
    BY Zenon DEF CO!Acyclic, Acyclic, CO!Reached, Reached
  <1> QED BY <1>1, <1>3, <1>4, <1>5, Zenon

LEMMA SameMerge ==
  ASSUME NEW ns
  PROVE  CO!Merge(ns) = Merge(ns) /\ CO!Violation = Violation
  <1>1. \A m, r, t : CO!Kahn(m, r, t) = Kahn(m, r, t)
    BY Zenon DEF CO!Kahn, Kahn, CO!Pick, Pick, CO!Violation, Violation, CO!ToSet, ToSet
  <1>2. CO!Indegrees(ns) = Indegrees(ns)
    BY Zenon DEF CO!Indegrees, Indegrees, CO!IdsOf, IdsOf, CO!Cardinality, Cardinality
  <1>3. \A o : CO!IdsAlong(ns, o) = IdsAlong(ns, o)
    BY Zenon DEF CO!IdsAlong, IdsAlong, CO!Violation, Violation
  <1>4. CO!Merge(ns) = Merge(ns)
    BY <1>1, <1>2, <1>3, Zenon DEF CO!Merge, Merge, CO!ToSet, ToSet
  <1> QED BY <1>4, Zenon DEF CO!Violation, Violation

LEMMA SameReconcile ==
  ASSUME NEW ns
  PROVE  CO!Reconcile(ns) = Reconcile(ns)
  <1>1. \A z : CO!FutureCause(z) = FutureCause(z)
    BY Zenon DEF CO!FutureCause, FutureCause, CO!Idx, Idx, CO!IdsOf, IdsOf, CO!Max, Max, CO!ToSet, ToSet
  <1>2. \A z : CO!VerifyCausal(z) = VerifyCausal(z)
    BY <1>1, SameSearch, Zenon DEF CO!VerifyCausal, VerifyCausal
  <1> QED BY <1>2, SameMerge, Zenon DEF CO!Reconcile, Reconcile

\* A finite set as a list that names each member once.
LEMMA SetListed ==
  ASSUME NEW S, IsFiniteSet(S), NEW s, s = SetToSeq(S)
  PROVE  s \in Seq(S) /\ ToSet(s) = S /\ \A k, m \in DOMAIN s : s[k] = s[m] => k = m
  <1>1. PICK N : N = Cardinality(S)
    OBVIOUS
  <1>2. N \in Nat /\ ExistsBijection(1..N, S)
    BY <1>1, FS_CardinalityType
  <1>3. PICK g : g \in Bijection(1..N, S)
    BY <1>2 DEF ExistsBijection
  <1>4. g \in [1..N -> S] /\ IsInjective(g)
    BY <1>3 DEF Bijection, Injection
  <1>5. s \in [1..N -> S] /\ IsInjective(s)
    BY <1>1, <1>4, Zenon DEF SetToSeq
  <1>6. PICK A : A = 1..N
    OBVIOUS
  <1>7. s \in Injection(A, S)
    BY <1>5, <1>6 DEF Injection
  <1>8. Cardinality(A) = N
    BY <1>2, <1>6, FS_Interval
  <1>9. s \in Surjection(A, S)
    BY <1>1, <1>7, <1>8, FS_Injection
  <1>10. \A f \in S : \E i \in 1..N : s[i] = f
    BY <1>6, <1>9 DEF Surjection
  <1>11. \A i, j \in 1..N : s[i] = s[j] => i = j
    BY <1>5 DEF IsInjective
  <1>12. DOMAIN s = 1..N /\ s \in Seq(S)
    BY <1>2, <1>5
  <1>13. ToSet(s) = S
    <2>1. \A x : x \in ToSet(s) <=> \E i \in 1..N : s[i] = x
      BY <1>12, Zenon DEF ToSet
    <2>2. \A i \in 1..N : s[i] \in S
      BY <1>5
    <2> QED BY <1>10, <2>1, <2>2
  <1> QED BY <1>11, <1>12, <1>13, Zenon

\* A graph to linearise: node i has id i and names each of its causes once.
Numbered(ns, n) ==
  /\ Listed(ns, n) /\ IdsOf(ns) = 1..n
  /\ \A i \in 1..n : ns[i].id = i /\ ToSet(ns[i].causes) \subseteq 1..n
  /\ \A i \in 1..n : ns[i] \in [id : 1..n, causes : Seq(1..n), position : {0}]

LEMMA GradedGraphIs ==
  ASSUME NEW ns \in GradedGraphs, NEW n, n = GraphSize
  PROVE  n \in Nat /\ Numbered(ns, n)
  <1>0. n \in Nat
    BY ConformanceConstants
  <1>1. PICK f \in [1..n -> SUBSET (1..n)] : ns = [i \in 1..n |-> [id |-> i, causes |-> SetToSeq(f[i]), position |-> 0]]
    BY Zenon DEF GradedGraphs
  <1>2. ASSUME NEW i \in 1..n
        PROVE  /\ ns[i].id = i /\ ns[i].position = 0
               /\ ns[i].causes \in Seq(1..n) /\ ToSet(ns[i].causes) \subseteq 1..n
               /\ \A k, m \in DOMAIN ns[i].causes : ns[i].causes[k] = ns[i].causes[m] => k = m
               /\ ns[i] \in [id : 1..n, causes : Seq(1..n), position : {0}]
    <2>1. PICK A, c : A = f[i] /\ c = SetToSeq(f[i])
      OBVIOUS
    <2>2. A \subseteq 1..n /\ IsFiniteSet(A)
      <3>1. A \subseteq 1..n
        BY <2>1
      <3>2. IsFiniteSet(1..n)
        BY <1>0, FS_Interval
      <3> QED BY <3>1, <3>2, FS_Subset, Zenon
    <2>3. c \in Seq(A) /\ ToSet(c) = A /\ \A k, m \in DOMAIN c : c[k] = c[m] => k = m
      BY <2>1, <2>2, SetListed, Zenon
    <2>4. c \in Seq(1..n)
      <3>1. PICK S : S = 1..n
        OBVIOUS
      <3>2. PICK N \in Nat : c \in [1..N -> A]
        BY <2>3
      <3>3. c \in [1..N -> S]
        BY <2>2, <3>1, <3>2
      <3>4. c \in Seq(S)
        BY <3>3
      <3> QED BY <3>1, <3>4, Zenon
    <2>5. ns[i] = [id |-> i, causes |-> c, position |-> 0]
      BY <1>1, <2>1, Zenon
    <2>6. ns[i].id = i /\ ns[i].causes = c /\ ns[i].position = 0
      BY <2>5
    <2>7. ns[i] \in [id : 1..n, causes : Seq(1..n), position : {0}]
      BY <2>4, <2>5
    <2> QED BY <2>2, <2>3, <2>4, <2>6, <2>7, Zenon
  <1>3. DOMAIN ns = 1..n /\ Len(ns) = n
    BY <1>0, <1>1
  <1>4. Graph(ns, n)
    <2>1. \A i \in 1..n : \E U : ns[i].causes \in Seq(U)
      BY <1>2, Zenon
    <2>2. \A i, j \in 1..n : ns[i].id = ns[j].id => i = j
      <3>1. \A i \in 1..n : ns[i].id = i
        BY <1>2
      <3> QED BY <3>1
    <2> QED BY <1>3, <2>1, <2>2, Zenon DEF Graph
  <1>5. OnceEach(ns, n)
    BY <1>2, Zenon DEF OnceEach
  <1>6. IdsOf(ns) = 1..n
    <2>1. \A x : x \in IdsOf(ns) <=> \E i \in 1..n : x = ns[i].id
      BY <1>3, Zenon DEF IdsOf
    <2>2. \A x : x \in IdsOf(ns) <=> x \in 1..n
      <3>1. \A i \in 1..n : ns[i].id = i
        BY <1>2
      <3>2. ASSUME NEW x, x \in IdsOf(ns) PROVE x \in 1..n
        <4>1. PICK i \in 1..n : x = ns[i].id
          BY <2>1, <3>2, Zenon
        <4> QED BY <3>1, <4>1, Zenon
      <3>3. ASSUME NEW x, x \in 1..n PROVE x \in IdsOf(ns)
        BY <2>1, <3>1, <3>3, Zenon
      <3> QED BY <3>2, <3>3, Zenon
    <2> QED BY <2>2
  <1>7. Listed(ns, n)
    <2>1. 1..n \subseteq Nat \ {0}
      BY <1>0
    <2> QED BY <1>4, <1>5, <1>6, <2>1, Zenon DEF Listed
  <1> QED BY <1>0, <1>2, <1>6, <1>7, Zenon DEF Numbered

\* The oracle's search, one id after another.
OrderReady(ns, done) == {i \in DOMAIN ns : ns[i].id \notin done /\ ToSet(ns[i].causes) \subseteq done}
OrderTake(ns, x) ==
  Append(x, ns[CHOOSE i \in OrderReady(ns, ToSet(x)) : \A j \in OrderReady(ns, ToSet(x)) : ns[i].id <= ns[j].id].id)
OrderBody(ns, f, k) == IF k = 0 THEN << >> ELSE OrderTake(ns, f[k - 1])
OrderFn(ns) == CHOOSE f : f = [k \in 0..Len(ns) |-> OrderBody(ns, f, k)]

LEMMA OrderFnIs ==
  ASSUME NEW ns
  PROVE  ReconcileOrder(ns) = OrderFn(ns)[Len(ns)]
  BY Zenon DEF ReconcileOrder, OrderFn, OrderBody, OrderTake, OrderReady

\* While a node is left, one can be taken, and the search takes the least.
LEMMA OrderTakes ==
  ASSUME NEW n \in Nat, NEW ns, Numbered(ns, n), NEW E, E = Succ(Links(ns)), E \in [1..n -> SUBSET (1..n)], Acyclic(E),
         NEW rank, rank = [j \in 1..n |-> j], NEW k \in Nat, k < n, NEW o, Sorted(E, n, rank, o, k)
  PROVE  Sorted(E, n, rank, OrderTake(ns, o), k + 1)
  <1>0. Graph(ns, n) /\ DOMAIN ns = 1..n /\ \A i \in 1..n : ns[i].id = i /\ ToSet(ns[i].causes) \subseteq 1..n
    BY DEF Numbered, Listed, Graph
  <1>1. o \in [1..k -> 1..n]
    BY DEF Sorted
  <1>2. PICK D : D = Before(o, k + 1)
    OBVIOUS
  <1>3. ToSet(o) = D
    <2>1. 1..((k + 1) - 1) = 1..k /\ DOMAIN o = 1..k
      BY <1>1
    <2> QED BY <1>2, <2>1, Zenon DEF ToSet, Before
  <1>4. D # 1..n /\ D \subseteq 1..n
    BY <1>1, <1>2, BeforeIsSmall
  <1>5. \A i \in 1..n : E[i] = ToSet(ns[i].causes)
    <2> SUFFICES ASSUME NEW i \in 1..n PROVE E[i] = ToSet(ns[i].causes)
      OBVIOUS
    <2>1. \A y \in 1..n : y \in E[i] <=> ns[y].id \in ToSet(ns[i].causes)
      BY <1>0, LinksAre
    <2>2. \A y \in 1..n : y \in E[i] <=> y \in ToSet(ns[i].causes)
      BY <1>0, <2>1, Zenon
    <2>3. E[i] \subseteq 1..n /\ ToSet(ns[i].causes) \subseteq 1..n
      BY <1>0
    <2> QED BY <2>2, <2>3
  <1>6. PICK R : R = OrderReady(ns, D)
    OBVIOUS
  <1>7. \A i : i \in R <=> i \in (1..n) \ D /\ E[i] \subseteq D
    BY <1>0, <1>5, <1>6, Zenon DEF OrderReady
  <1>8. R \in SUBSET Nat /\ R # {}
    <2>1. \E j \in (1..n) \ D : E[j] \subseteq D
      BY <1>4, ReadyExists
    <2>2. \A i \in R : i \in Nat
      BY <1>7
    <2> QED BY <1>7, <2>1, <2>2
  <1>9. PICK p : p = CHOOSE i \in R : \A j \in R : ns[i].id <= ns[j].id
    OBVIOUS
  <1>10. p \in R /\ \A j \in R : p <= j
    <2>1. PICK m \in R : \A j \in R : m <= j
      BY <1>8, LeastOf
    <2>2. \A i \in R : ns[i].id = i
      BY <1>0, <1>7, Zenon
    <2>3. m \in R /\ \A j \in R : ns[m].id <= ns[j].id
      BY <2>1, <2>2, Zenon
    <2>4. p \in R /\ \A j \in R : ns[p].id <= ns[j].id
      BY <1>9, <2>3, Zenon
    <2> QED BY <2>2, <2>4, Zenon
  <1>11. Takeable(E, n, rank, D, p)
    <2>1. p \in 1..n
      BY <1>7, <1>10, Zenon
    <2>2. \A j \in 1..n : rank[j] = j
      OBVIOUS
    <2>3. \A j \in (1..n) \ D : E[j] \subseteq D => rank[p] <= rank[j]
      BY <1>7, <1>10, <2>1, <2>2, Zenon
    <2> QED BY <1>7, <1>10, <2>3, Zenon DEF Takeable
  <1>12. OrderTake(ns, o) = Append(o, p)
    <2>1. ns[p].id = p
      BY <1>0, <1>7, <1>10, Zenon
    <2> QED BY <1>3, <1>6, <1>9, <2>1, Zenon DEF OrderTake
  <1>13. rank \in [1..n -> Nat]
    OBVIOUS
  <1>14. Takes(E, n, rank, o, k, p, Append(o, p))
    BY <1>2, <1>11, <1>13, SortedFurther
  <1> QED BY <1>12, <1>14, Zenon DEF Takes

\* What the search has after k takes, whichever function solves its recursion.
OrderRuns(ns, n, F) == F[0] = << >> /\ \A k \in 1..n : F[k] = OrderTake(ns, F[k - 1])

LEMMA OrderGoes ==
  ASSUME NEW n \in Nat, NEW ns, Numbered(ns, n), NEW E, E = Succ(Links(ns)), E \in [1..n -> SUBSET (1..n)], Acyclic(E),
         NEW rank, rank = [j \in 1..n |-> j], NEW F, F[0] = << >>,
         \A k \in 1..n : Sorted(E, n, rank, F[k - 1], k - 1) => F[k] = OrderTake(ns, F[k - 1])
  PROVE  \A k \in 0..n : Sorted(E, n, rank, F[k], k)
  <1> DEFINE G == {k \in 0..n : Sorted(E, n, rank, F[k], k)}
  <1>1. 0 \in G
    <2>1. << >> \in [1..0 -> 1..n] /\ 1..0 = {} /\ 0 \in 0..n
      OBVIOUS
    <2>2. Sorted(E, n, rank, << >>, 0)
      BY <2>1, Zenon DEF Sorted
    <2> QED BY <2>1, <2>2, Zenon
  <1>2. \A k \in 0..n : k < n /\ k \in G => k + 1 \in G
    <2> SUFFICES ASSUME NEW k \in 0..n, k < n, k \in G PROVE k + 1 \in G
      OBVIOUS
    <2>1. k + 1 \in 1..n /\ k + 1 \in 0..n /\ (k + 1) - 1 = k /\ k \in Nat
      OBVIOUS
    <2>2. Sorted(E, n, rank, F[k], k)
      BY Zenon
    <2>3. F[k + 1] = OrderTake(ns, F[k])
      BY <2>1, <2>2, Zenon
    <2>4. Sorted(E, n, rank, OrderTake(ns, F[k]), k + 1)
      BY <2>1, <2>2, OrderTakes
    <2> QED BY <2>1, <2>3, <2>4, Zenon
  <1>3. \A k \in 0..n : k \in G
    <2> HIDE DEF G
    <2> QED BY <1>1, <1>2, AllUpTo
  <1> QED BY <1>3, Zenon

LEMMA OrderSolved ==
  ASSUME NEW n \in Nat, NEW ns, Numbered(ns, n), NEW E, E = Succ(Links(ns)), E \in [1..n -> SUBSET (1..n)], Acyclic(E),
         NEW rank, rank = [j \in 1..n |-> j]
  PROVE  \E g : g = [k \in 0..n |-> OrderBody(ns, g, k)]
  <1> DEFINE X == Seq(1..n)
             st == [p \in (1..n) \X X |-> IF Sorted(E, n, rank, p[2], p[1] - 1) THEN OrderTake(ns, p[2]) ELSE p[2]]
  <1>1. \A k \in 1..n, x \in X : (IF Sorted(E, n, rank, x, k - 1) THEN OrderTake(ns, x) ELSE x) \in X
    <2> SUFFICES ASSUME NEW k \in 1..n, NEW x \in X, Sorted(E, n, rank, x, k - 1) PROVE OrderTake(ns, x) \in X
      BY Zenon
    <2>1. k - 1 \in Nat /\ k - 1 < n /\ (k - 1) + 1 = k
      OBVIOUS
    <2>2. Sorted(E, n, rank, OrderTake(ns, x), k)
      <3>1. Sorted(E, n, rank, OrderTake(ns, x), (k - 1) + 1)
        BY <2>1, OrderTakes
      <3> QED BY <2>1, <3>1, Zenon
    <2>3. OrderTake(ns, x) \in [1..k -> 1..n] /\ k \in Nat
      BY <2>1, <2>2 DEF Sorted
    <2>4. PICK y, A : y = OrderTake(ns, x) /\ A = 1..n
      OBVIOUS
    <2>5. y \in Seq(A)
      BY <2>3, <2>4
    <2> QED BY <2>4, <2>5, Zenon
  <1>2. /\ st \in [(1..n) \X X -> X]
        /\ \A k \in 1..n, x \in X : Sorted(E, n, rank, x, k - 1) => st[<<k, x>>] = OrderTake(ns, x)
    <2> HIDE DEF X
    <2>1. \A p \in (1..n) \X X : p[1] \in 1..n /\ p[2] \in X
      OBVIOUS
    <2>2. \A p \in (1..n) \X X : (IF Sorted(E, n, rank, p[2], p[1] - 1) THEN OrderTake(ns, p[2]) ELSE p[2]) \in X
      BY <1>1, <2>1, Zenon
    <2>3. st \in [(1..n) \X X -> X]
      BY <2>2, Zenon
    <2>4. \A k \in 1..n, x \in X : <<k, x>> \in (1..n) \X X /\ <<k, x>>[1] = k /\ <<k, x>>[2] = x
      OBVIOUS
    <2>5. \A k \in 1..n, x \in X : st[<<k, x>>] = IF Sorted(E, n, rank, x, k - 1) THEN OrderTake(ns, x) ELSE x
      BY <2>4, Zenon
    <2> QED BY <2>3, <2>5, Zenon
  <1>3. << >> \in X
    OBVIOUS
  <1> HIDE DEF X, st
  <1>4. PICK g : Solves(g, n, X, << >>, st)
    BY <1>2, <1>3, Iterated, Zenon
  <1>5. g \in [0..n -> X] /\ g[0] = << >> /\ \A k \in 1..n : g[k] = st[<<k, g[k - 1]>>]
    BY <1>4, Zenon DEF Solves
  <1>6. \A k \in 1..n : k - 1 \in 0..n
    OBVIOUS
  <1>7. \A k \in 1..n : Sorted(E, n, rank, g[k - 1], k - 1) => g[k] = OrderTake(ns, g[k - 1])
    BY <1>2, <1>5, <1>6, Zenon
  <1>8. \A k \in 0..n : Sorted(E, n, rank, g[k], k)
    BY <1>5, <1>7, OrderGoes
  <1>9. ASSUME NEW k \in 0..n PROVE g[k] = OrderBody(ns, g, k)
    <2>1. CASE k = 0
      BY <1>5, <2>1, Zenon DEF OrderBody
    <2>2. CASE k # 0
      <3>1. k \in 1..n /\ k - 1 \in 0..n
        BY <2>2
      <3> QED BY <1>7, <1>8, <2>2, <3>1, Zenon DEF OrderBody
    <2> QED BY <2>1, <2>2
  <1>10. g = [k \in 0..n |-> OrderBody(ns, g, k)]
    BY <1>5, <1>9
  <1> QED BY <1>10

\* The oracle's own search ends in the order that the federated merge gives.
LEMMA ReconcileOrderExact ==
  ASSUME NEW n \in Nat, NEW ns, Numbered(ns, n), Acyclic(CausesOf(ns))
  PROVE  ReconcileOrder(ns) = Merge(ns) /\ Merge(ns) # Violation
  <1>0. Listed(ns, n) /\ Graph(ns, n) /\ Len(ns) = n /\ IdsOf(ns) = 1..n /\ \A i \in 1..n : ns[i].id = i
    BY DEF Numbered, Listed, Graph
  <1>1. PICK t, B, E, rank : t = CausesOf(ns) /\ B = IdsOf(ns) /\ E = Succ(Links(ns)) /\ rank = [j \in 1..n |-> j]
    OBVIOUS
  <1>2. E \in [1..n -> SUBSET (1..n)] /\ Acyclic(E)
    <2>1. E \in [1..n -> SUBSET (1..n)]
      BY <1>0, <1>1, LinksAre, SuccFacts
    <2>2. Acyclic(E)
      BY <1>0, <1>1, CyclicExact
    <2> QED BY <2>1, <2>2
  <1>3. PICK F : F = OrderFn(ns)
    OBVIOUS
  <1>4. \E g : g = [k \in 0..n |-> OrderBody(ns, g, k)]
    BY <1>1, <1>2, OrderSolved
  <1>5. F = [k \in 0..n |-> OrderBody(ns, F, k)]
    BY <1>0, <1>3, <1>4, Zenon DEF OrderFn
  <1>6. \A k \in 0..n : F[k] = OrderBody(ns, F, k)
    BY <1>5, Zenon
  <1>7. F[0] = << >>
    <2>1. 0 \in 0..n
      OBVIOUS
    <2> QED BY <1>6, <2>1, Zenon DEF OrderBody
  <1>8. \A k \in 1..n : F[k] = OrderTake(ns, F[k - 1])
    <2>1. \A k \in 1..n : k \in 0..n /\ k # 0
      OBVIOUS
    <2> QED BY <1>6, <2>1, Zenon DEF OrderBody
  <1>9. \A k \in 0..n : Sorted(E, n, rank, F[k], k)
    BY <1>1, <1>2, <1>7, <1>8, OrderGoes
  <1>10. PICK o : o = F[n]
    OBVIOUS
  <1>11. Sorted(E, n, rank, o, n) /\ o \in [1..n -> 1..n]
    <2>1. n \in 0..n
      OBVIOUS
    <2> QED BY <1>9, <1>10, <2>1, Zenon DEF Sorted
  <1>12. o # Violation
    <2>1. Violation[1] = 0 /\ DOMAIN Violation = 1..1
      BY DEF Violation
    <2>2. DOMAIN o = 1..n /\ (1 \in 1..n => o[1] # 0)
      BY <1>11
    <2>3. 1..n = 1..1 => 1 \in 1..n
      OBVIOUS
    <2> QED BY <2>1, <2>2, <2>3
  <1>13. PICK q : q = IdsAlong(ns, o)
    OBVIOUS
  <1>14. q = o
    <2>1. q = [k \in DOMAIN o |-> ns[o[k]].id]
      BY <1>12, <1>13, Zenon DEF IdsAlong
    <2>2. \A k \in 1..n : o[k] \in 1..n /\ ns[o[k]].id = o[k]
      BY <1>0, <1>11
    <2> QED BY <1>11, <2>1, <2>2
  <1>15. IdOrder(t, B, n, o) /\ Greedy(t, B, n, o)
    <2>1. \A j \in 1..n : rank[j] = ns[j].id
      BY <1>0, <1>1
    <2>2. IdOrder(t, B, n, q) /\ Greedy(t, B, n, q)
      BY <1>0, <1>1, <1>11, <1>12, <1>13, <2>1, AlongIs
    <2> QED BY <1>14, <2>2, Zenon
  <1>16. PICK Y : Y = Extensions(ns)
    OBVIOUS
  <1>17. \A x : x \in Y <=> IdOrder(t, B, n, x)
    BY <1>0, <1>1, <1>16, ExtensionsAre
  <1>18. B \in SUBSET Nat
    BY <1>0, <1>1
  <1>19. LexLeast(Y) = o
    BY <1>15, <1>17, <1>18, LeastIs
  <1>20. Merge(ns) = LexLeast(Y) /\ Merge(ns) # Violation
    BY <1>0, <1>16, MergeExact
  <1>21. ReconcileOrder(ns) = o
    BY <1>0, <1>3, <1>10, OrderFnIs, Zenon
  <1> QED BY <1>19, <1>20, <1>21, Zenon

\* The answer to a graph: linearised if and only if it has no cycle, and verified for
\* the order of the oracle and no other.
LEMMA GraphAnswers ==
  ASSUME NEW ns \in GradedGraphs, NEW claimed
  PROVE  /\ (Linearize(ns) = "") = CO!Acyclic(CO!CausesOf(ns))
         /\ IF CO!Acyclic(CO!CausesOf(ns)) THEN (VerifyOrder(ns, claimed) = "") = (claimed = ReconcileOrder(ns))
            ELSE VerifyOrder(ns, claimed) = "CausalViolation"
  <1>1. PICK n : n = GraphSize
    OBVIOUS
  <1>2. n \in Nat /\ Numbered(ns, n)
    BY <1>1, GradedGraphIs
  <1>3. Graph(ns, n) /\ \A i \in 1..n : ns[i] \in [id : 1..n, causes : Seq(1..n), position : {0}]
    BY <1>2, Zenon DEF Numbered, Listed
  <1>4. PICK a \in BOOLEAN : a = CO!Acyclic(CO!CausesOf(ns)) /\ a = Acyclic(CausesOf(ns))
    <2>1. CO!Acyclic(CO!CausesOf(ns)) = Acyclic(CausesOf(ns))
      BY SameSearch, Zenon
    <2>2. Acyclic(CausesOf(ns)) \in BOOLEAN
      BY Zenon DEF Acyclic
    <2> QED BY <2>1, <2>2, Zenon
  <1>5. PICK r : r = CO!Reconcile(ns)
    OBVIOUS
  <1>6. r = IF a THEN Merge(ns) ELSE Violation
    <2>1. Reconcile(ns) = IF Acyclic(CausesOf(ns)) THEN Merge(ns) ELSE Violation
      BY <1>2, <1>3, ReconcileIs, Zenon
    <2> QED BY <1>4, <1>5, <2>1, SameReconcile, Zenon
  <1>7. CO!Violation = Violation
    BY SameMerge, Zenon
  <1>8. "CausalViolation" # "" /\ "ReconcileMismatch" # "" /\ "CausalViolation" # "verified" /\ "ReconcileMismatch" # "verified"
    OBVIOUS
  <1>9. Linearize(ns) = IF r = Violation THEN "CausalViolation" ELSE ""
    BY <1>5, <1>7, Zenon DEF Linearize
  <1>10. VerifyOrder(ns, claimed) = IF r = Violation THEN "CausalViolation" ELSE IF r = claimed THEN "" ELSE "ReconcileMismatch"
    BY <1>5, <1>7, <1>8, Zenon DEF VerifyOrder, CO!VerifyReconcileOrder
  <1>11. CASE a
    <2>1. r = ReconcileOrder(ns) /\ r # Violation
      BY <1>2, <1>4, <1>6, <1>11, ReconcileOrderExact, Zenon
    <2>2. Linearize(ns) = ""
      BY <1>9, <2>1, Zenon
    <2>3. VerifyOrder(ns, claimed) = IF claimed = ReconcileOrder(ns) THEN "" ELSE "ReconcileMismatch"
      BY <1>10, <2>1, Zenon
    <2>4. (VerifyOrder(ns, claimed) = "") = (claimed = ReconcileOrder(ns))
      BY <1>8, <2>3, Zenon
    <2> QED BY <1>4, <1>11, <2>2, <2>4, Zenon
  <1>12. CASE ~a
    <2>1. r = Violation
      BY <1>6, <1>12, Zenon
    <2> QED BY <1>4, <1>8, <1>9, <1>10, <1>12, <2>1, Zenon
  <1> QED BY <1>4, <1>11, <1>12

(***************************************************************************)
(* Conformance: every step                                                 *)
(***************************************************************************)
ConfInv == GradedInv /\ ReconcileFollowsItsTable /\ PortInv /\ ShakeInv

ReconcileEvents == {"add-chain", "linearize", "verify"}

LEMMA MachinesAre == DOMAIN EventsOf = Machines /\ "idle" \notin Machines /\ Machines \cap ReconcileEvents = {}
  BY DEF EventsOf, Machines, ReconcileEvents

LEMMA OtherAnswer == ASSUME answer'.op \notin ReconcileEvents PROVE ReconcileFollowsItsTable'
  <1>1. answer'.op # "add-chain" /\ answer'.op # "linearize" /\ answer'.op # "verify"
    BY DEF ReconcileEvents
  <1> QED BY <1>1, Zenon DEF ReconcileFollowsItsTable

LEMMA UngradedAnswer == ASSUME answer'.op \notin Machines PROVE AnswersFollowTheTables'
  BY MachinesAre, Zenon DEF AnswersFollowTheTables

LEMMA SameAnswer ==
  ASSUME answer' = answer, ReconcileFollowsItsTable, AnswersFollowTheTables
  PROVE  ReconcileFollowsItsTable' /\ AnswersFollowTheTables'
  <1>1. ReconcileFollowsItsTable'
    BY Zenon DEF ReconcileFollowsItsTable
  <1>2. AnswersFollowTheTables'
    BY Zenon DEF AnswersFollowTheTables
  <1> QED BY <1>1, <1>2

LEMMA BeginKeeps ==
  ASSUME ConfInv, NEW machine \in DOMAIN EventsOf, BeginRequest(machine)
  PROVE  GradedInv' /\ ReconcileFollowsItsTable'
  <1>1. machine \in Machines
    BY MachinesAre, Zenon
  <1>2. op' = machine /\ script' = << >> /\ verdict' = "" /\ subject' = FreshSubject[machine] /\ answer' = NoAnswer
    BY Zenon DEF BeginRequest
  <1>3. answer'.op \notin Machines /\ answer'.op \notin ReconcileEvents
    BY <1>2 DEF NoAnswer, Machines, ReconcileEvents
  <1>4. DrivenTo(machine, FreshSubject[machine], << >>, "")
    BY <1>1, FreshIsDriven
  <1>5. DrivenTo(op', subject', script', verdict')
    BY <1>2, <1>4, Zenon
  <1>6. ReconcileFollowsItsTable' /\ AnswersFollowTheTables'
    BY <1>3, OtherAnswer, UngradedAnswer
  <1> QED BY <1>1, <1>2, <1>5, <1>6, Zenon DEF GradedInv, DrivenTo

LEMMA DriveKeeps ==
  ASSUME ConfInv, op # "idle", NEW e \in EventsOf[op], Drive(e)
  PROVE  GradedInv' /\ ReconcileFollowsItsTable'
  <1>1. op \in Machines /\ DrivenTo(op, subject, script, verdict) /\ AnswersFollowTheTables /\ ReconcileFollowsItsTable
    BY Zenon DEF ConfInv, GradedInv
  <1>2. PICK r : r = HandleEvent(op, subject, e)
    OBVIOUS
  <1>3. op' = op /\ script' = Append(script, e) /\ verdict' = r.error /\ subject' = r.after /\ answer' = answer
    BY <1>2, Zenon DEF Drive
  <1>4. DrivenTo(op, r.after, Append(script, e), r.error)
    BY <1>1, <1>2, DrivenOn
  <1>5. DrivenTo(op', subject', script', verdict')
    BY <1>3, <1>4, Zenon
  <1>6. ReconcileFollowsItsTable' /\ AnswersFollowTheTables'
    BY <1>1, <1>3, SameAnswer
  <1> QED BY <1>1, <1>3, <1>5, <1>6, Zenon DEF GradedInv, DrivenTo

LEMMA AnswerKeeps ==
  ASSUME ConfInv, AnswerReport \/ AnswerUnknownEvent
  PROVE  GradedInv' /\ ReconcileFollowsItsTable'
  <1>1. PICK out : /\ Answer(out)
                   /\ \/ out = <<verdict, Report(op, subject, script)>>
                      \/ out = <<"unknown event">>
    BY Zenon DEF AnswerReport, AnswerUnknownEvent
  <1>2. op # "idle" /\ op' = "idle" /\ answer' = [op |-> op, events |-> script, out |-> out]
    BY <1>1, Zenon DEF Answer
  <1>3. op \in Machines /\ DrivenTo(op, subject, script, verdict)
    BY <1>2, Zenon DEF ConfInv, GradedInv
  <1>4. answer'.op = op /\ answer'.events = script /\ answer'.out = out
    BY <1>2
  <1>5. ASSUME script # << >>, Len(out) = 2 PROVE out = Graded(op, script)
    <2>1. CASE out = <<verdict, Report(op, subject, script)>>
      BY <1>3, <1>5, <2>1, ReportIsGraded
    <2>2. CASE out = <<"unknown event">>
      <3>1. \A u : Len(<<u>>) # 2
        OBVIOUS
      <3> QED BY <1>5, <2>2, <3>1, Zenon
    <2> QED BY <1>1, <2>1, <2>2
  <1>6. AnswersFollowTheTables'
    BY <1>4, <1>5, Zenon DEF AnswersFollowTheTables
  <1>7. ReconcileFollowsItsTable'
    <2>1. answer'.op \notin ReconcileEvents
      BY <1>3, <1>4, MachinesAre
    <2> QED BY <2>1, OtherAnswer
  <1> QED BY <1>2, <1>6, <1>7, Zenon DEF GradedInv

LEMMA SkippedKeeps ==
  ASSUME ConfInv, AnswerSkipped
  PROVE  GradedInv' /\ ReconcileFollowsItsTable'
  <1>1. op' = "idle" /\ answer'.op = "unknown"
    BY DEF AnswerSkipped
  <1>2. answer'.op \notin Machines /\ answer'.op \notin ReconcileEvents
    BY <1>1 DEF Machines, ReconcileEvents
  <1>3. ReconcileFollowsItsTable' /\ AnswersFollowTheTables'
    BY <1>2, OtherAnswer, UngradedAnswer
  <1> QED BY <1>1, <1>3, Zenon DEF GradedInv

LEMMA ReconcileKeeps ==
  ASSUME ConfInv, ReconcileState
  PROVE  GradedInv' /\ ReconcileFollowsItsTable'
  <1>1. ASSUME NEW event \in ReconcileEvents, NEW input, NEW out, ReconcileRequest(event, input, out)
        PROVE  GradedInv' /\ answer'.op = event /\ answer'.events = input /\ answer'.out = out
    <2>1. op' = "idle" /\ answer' = [op |-> event, events |-> input, out |-> out]
      BY <1>1, Zenon DEF ReconcileRequest
    <2>2. answer'.op = event /\ answer'.events = input /\ answer'.out = out
      BY <2>1
    <2>3. answer'.op \notin Machines
      BY <2>2, MachinesAre
    <2>4. AnswersFollowTheTables'
      BY <2>3, UngradedAnswer
    <2> QED BY <2>1, <2>2, <2>4, Zenon DEF GradedInv
  <1>2. ASSUME NEW links \in Chains, NEW corrupt \in 0..2, NEW extra \in Extras \cup {NoExtra}, corrupt <= Len(links),
               ReconcileRequest("add-chain", <<links, corrupt, extra>>, AddChain(links, corrupt, extra))
        PROVE  GradedInv' /\ ReconcileFollowsItsTable'
    <2>1. PICK out, faults : out = AddChain(links, corrupt, extra) /\ faults = Faults(links, corrupt, extra)
      OBVIOUS
    <2>2. "add-chain" \in ReconcileEvents
      BY DEF ReconcileEvents
    <2>3. GradedInv' /\ answer'.op = "add-chain" /\ answer'.events = <<links, corrupt, extra>> /\ answer'.out = out
      BY <1>1, <1>2, <2>1, <2>2, Zenon
    <2>4. answer'.events[1] = links /\ answer'.events[2] = corrupt /\ answer'.events[3] = extra
      BY <2>3
    <2>5. RefusedBy(out, faults)
      BY <1>2, <2>1, AddChainExact
    <2>6. Cardinality(faults) = 1 => faults # {}
      BY FS_EmptySet
    <2>7. /\ (answer'.out = "") <=> faults = {}
          /\ Cardinality(faults) = 1 => answer'.out \in faults
      BY <2>3, <2>5, <2>6, Zenon DEF RefusedBy
    <2>8. answer'.op # "linearize" /\ answer'.op # "verify"
      BY <2>3
    <2>9. ReconcileFollowsItsTable'
      BY <2>1, <2>4, <2>7, <2>8, Zenon DEF ReconcileFollowsItsTable, Faults, Apart
    <2> QED BY <2>3, <2>9
  <1>3. ASSUME NEW ns \in GradedGraphs, ReconcileRequest("linearize", ns, Linearize(ns))
        PROVE  GradedInv' /\ ReconcileFollowsItsTable'
    <2>1. "linearize" \in ReconcileEvents
      BY DEF ReconcileEvents
    <2>2. GradedInv' /\ answer'.op = "linearize" /\ answer'.events = ns /\ answer'.out = Linearize(ns)
      BY <1>1, <1>3, <2>1, Zenon
    <2>3. (Linearize(ns) = "") = CO!Acyclic(CO!CausesOf(ns))
      BY GraphAnswers, Zenon
    <2>4. answer'.op # "add-chain" /\ answer'.op # "verify"
      BY <2>2
    <2>5. ReconcileFollowsItsTable'
      BY <2>2, <2>3, <2>4, Zenon DEF ReconcileFollowsItsTable
    <2> QED BY <2>2, <2>5
  <1>4. ASSUME NEW ns \in GradedGraphs, NEW claimed, ReconcileRequest("verify", <<ns, claimed>>, VerifyOrder(ns, claimed))
        PROVE  GradedInv' /\ ReconcileFollowsItsTable'
    <2>1. "verify" \in ReconcileEvents
      BY DEF ReconcileEvents
    <2>2. GradedInv' /\ answer'.op = "verify" /\ answer'.events = <<ns, claimed>> /\ answer'.out = VerifyOrder(ns, claimed)
      BY <1>1, <1>4, <2>1, Zenon
    <2>3. answer'.events[1] = ns /\ answer'.events[2] = claimed
      BY <2>2
    <2>4. IF CO!Acyclic(CO!CausesOf(ns)) THEN (VerifyOrder(ns, claimed) = "") = (claimed = ReconcileOrder(ns))
          ELSE VerifyOrder(ns, claimed) = "CausalViolation"
      BY GraphAnswers, Zenon
    <2>5. answer'.op # "add-chain" /\ answer'.op # "linearize"
      BY <2>2
    <2>6. ReconcileFollowsItsTable'
      BY <2>2, <2>3, <2>4, <2>5, Zenon DEF ReconcileFollowsItsTable
    <2> QED BY <2>2, <2>6
  <1> QED BY <1>2, <1>3, <1>4, Zenon DEF ReconcileState

LEMMA GradedAlone ==
  ASSUME ConfInv, UNCHANGED gradedvars
  PROVE  GradedInv' /\ ReconcileFollowsItsTable'
  <1>1. op' = op /\ script' = script /\ subject' = subject /\ verdict' = verdict /\ answer' = answer
    BY DEF gradedvars
  <1>2. GradedInv /\ ReconcileFollowsItsTable /\ AnswersFollowTheTables
    BY Zenon DEF ConfInv, GradedInv
  <1>3. ReconcileFollowsItsTable' /\ AnswersFollowTheTables'
    BY <1>1, <1>2, SameAnswer
  <1> QED BY <1>1, <1>2, <1>3, Zenon DEF GradedInv, DrivenTo

LEMMA PortAlone == ASSUME ConfInv, UNCHANGED portvars PROVE PortInv'
  <1>1. kcase' = kcase /\ outcomes' = outcomes
    BY DEF portvars
  <1> QED BY <1>1, Zenon DEF ConfInv, PortInv

LEMMA ShakeAlone == ASSUME ConfInv, UNCHANGED shakevars PROVE ShakeInv'
  <1>1. cursor' = cursor /\ drawn' = drawn
    BY DEF shakevars
  <1> QED BY <1>1, Zenon DEF ConfInv, ShakeInv

LEMMA ConfStart == ConfInit => ConfInv
  <1> SUFFICES ASSUME ConfInit PROVE ConfInv
    OBVIOUS
  <1>1. op = "idle" /\ answer = NoAnswer
    BY Zenon DEF ConfInit
  <1>2. answer.op \notin Machines /\ answer.op # "add-chain" /\ answer.op # "linearize" /\ answer.op # "verify"
    BY <1>1 DEF NoAnswer, Machines
  <1>3. GradedInv
    BY <1>1, <1>2, MachinesAre, Zenon DEF GradedInv, AnswersFollowTheTables
  <1>4. ReconcileFollowsItsTable
    BY <1>2, Zenon DEF ReconcileFollowsItsTable
  <1>5. PortInv
    <2>1. DOMAIN << >> = {}
      OBVIOUS
    <2> QED BY <2>1, Zenon DEF ConfInit, PortInv
  <1>6. ShakeInv
    BY ShakeInit
  <1> QED BY <1>3, <1>4, <1>5, <1>6 DEF ConfInv

LEMMA ConfStep == ConfInv /\ [ConfNext]_confvars => ConfInv'
  <1> SUFFICES ASSUME ConfInv, [ConfNext]_confvars PROVE ConfInv'
    OBVIOUS
  <1>1. PortInv /\ ShakeInv
    BY Zenon DEF ConfInv
  <1>2. CASE GradedNext \/ ReconcileState
    <2>1. GradedInv' /\ ReconcileFollowsItsTable'
      BY <1>2, BeginKeeps, DriveKeeps, AnswerKeeps, SkippedKeeps, ReconcileKeeps, Zenon DEF GradedNext
    <2>2. UNCHANGED <<portvars, shakevars>>
      BY <1>2, Zenon DEF GradedNext, ReconcileState, BeginRequest, Drive, AnswerReport, AnswerUnknownEvent, Answer,
           AnswerSkipped, ReconcileRequest
    <2>3. UNCHANGED portvars /\ UNCHANGED shakevars
      BY <2>2
    <2>4. PortInv' /\ ShakeInv'
      BY <2>3, PortAlone, ShakeAlone
    <2> QED BY <2>1, <2>4 DEF ConfInv
  <1>3. CASE PortNext
    <2>1. PICK h \in Hooks : RunCase(h)
      BY <1>3 DEF PortNext
    <2>2. UNCHANGED gradedvars /\ UNCHANGED shakevars
      BY <2>1 DEF RunCase
    <2>3. PortInv'
      BY <1>1, <2>1, PortKeeps
    <2>4. GradedInv' /\ ReconcileFollowsItsTable' /\ ShakeInv'
      BY <2>2, GradedAlone, ShakeAlone
    <2> QED BY <2>3, <2>4 DEF ConfInv
  <1>4. CASE ShakeNext
    <2>1. PICK t \in Pools : (\E seed \in Seeds : Absorb(t, seed)) \/ \E n \in 1..MaxRead : Read(t, n)
      BY <1>4, Zenon DEF ShakeNext
    <2>2. UNCHANGED gradedvars /\ UNCHANGED portvars
      <3>1. UNCHANGED <<gradedvars, portvars>>
        BY <2>1, Zenon DEF Absorb, Read
      <3> QED BY <3>1
    <2>3. ShakeInv'
      BY <1>1, <2>1, AbsorbKeeps, ReadKeeps
    <2>4. GradedInv' /\ ReconcileFollowsItsTable' /\ PortInv'
      BY <2>2, GradedAlone, PortAlone
    <2> QED BY <2>3, <2>4 DEF ConfInv
  <1>5. CASE UNCHANGED confvars
    <2>1. UNCHANGED gradedvars /\ UNCHANGED portvars /\ UNCHANGED shakevars
      BY <1>5 DEF confvars
    <2>2. GradedInv' /\ ReconcileFollowsItsTable' /\ PortInv' /\ ShakeInv'
      BY <2>1, GradedAlone, PortAlone, ShakeAlone
    <2> QED BY <2>2 DEF ConfInv
  <1> QED BY <1>2, <1>3, <1>4, <1>5 DEF ConfNext

\* Every answer of the conformance adapter is the one of the oracle's table, the three
\* framework hooks make the same of one case, and a thread reads the hash it absorbed:
\* for every number of objects, events, requests, nodes and threads (adapter.py,
\* harness.py, _dilithium_thread_safety.py).
THEOREM ConformanceTheorem == ConfSpec => []ConformsToTables
  <1>1. ConfInv => ConformsToTables
    <2> SUFFICES ASSUME ConfInv PROVE ConformsToTables
      OBVIOUS
    <2>1. AnswersFollowTheTables /\ ReconcileFollowsItsTable
      BY Zenon DEF ConfInv, GradedInv
    <2>2. SameInEveryFramework
      BY ChainsAgree, Zenon DEF ConfInv, PortInv, SameInEveryFramework
    <2>3. ThreadReadsItsOwnHash
      BY Zenon DEF ConfInv, ShakeInv, CursorOf, ThreadReadsItsOwnHash
    <2> QED BY <2>1, <2>2, <2>3 DEF ConformsToTables
  <1>2. ConfSpec => []ConfInv
    BY ConfStart, ConfStep, PTL DEF ConfSpec
  <1> QED BY <1>1, <1>2, PTL
==============================================================================
