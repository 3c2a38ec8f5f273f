------------------------ MODULE DoubleSpendEvidence --------------------------
(***************************************************************************)
(* Ledger-signed consume receipts and the detection of double spends       *)
(* (impl/python/naalp/approval.py, ConsumeReceipt, ConsumeForkEvidence and *)
(* ReceiptSet).                                                            *)
(*                                                                         *)
(* A replica is one running consume ledger.  Replicas with one ledger id   *)
(* sign with one key: they are the sides of a partition, or a ledger and a *)
(* copy restored from its log.  Each is single-use by itself (module       *)
(* ConsumeLedger); nothing coordinates two of them.  Their receipts travel *)
(* in any order, any number of times or never, together with receipts that *)
(* parties other than the ledger have signed, to observers, each a         *)
(* ReceiptSet in memory with its own table of known ledgers.               *)
(***************************************************************************)
EXTENDS Integers, Sequences, FiniteSets

CONSTANTS
  Replicas,     \* running ledgers
  Ledgers,      \* ledger ids, each with its signing key
  LedgerOf,     \* the ledger id of each replica
  Approvals,    \* approval content ids
  Observers,    \* ReceiptSet objects
  Known,        \* observer -> the ledger ids its resolve function knows
  None,         \* no ledger id; also the key of whoever is not a ledger
  MaxForged,    \* bound on receipts signed by a key that is not the ledger's
  MaxRestarts   \* bound on observer restarts

ASSUME EvidenceConstants ==
  /\ LedgerOf \in [Replicas -> Ledgers]
  /\ Known \in [Observers -> SUBSET Ledgers]
  /\ None \notin Ledgers
  /\ MaxForged \in Nat /\ MaxRestarts \in Nat

\* ConsumeReceipt: the three fields the ledger signs.
Receipt == [ledger : Ledgers \cup {None}, aid : Approvals, position : Nat]

\* A receipt and the key its signature was made with.
SignedReceipt == [body : Receipt, key : Ledgers \cup {None}]

NoReceipt == [body |-> None, key |-> None]

\* The signature verifies under the key of the ledger the receipt names.
Verifies(m) == m.key = m.body.ledger

\* Mutant: the signature is not checked.
AcceptableUnsigned(known, m) == m.body.ledger \in known

\* The checks of verify_consume_receipt and of observe: the ledger is named, it
\* resolves, the signature is its own.
Acceptable(known, m) == m.body.ledger # None /\ m.body.ledger \in known /\ Verifies(m)

\* ConsumeForkEvidence.
Evidence == [aid : Approvals, a : SignedReceipt, b : SignedReceipt]

\* ConsumeForkEvidence.verify, by a judge that knows the ledgers `known`.
ForkVerifies(known, e) ==
  /\ e.a.body.aid = e.aid /\ e.b.body.aid = e.aid
  /\ e.a.body # e.b.body
  /\ Acceptable(known, e.a) /\ Acceptable(known, e.b)

VARIABLES
  chain,      \* replica -> the approvals it has consumed, in order
  spends,     \* history: who spent what, with which receipt
  wire,       \* signed receipts under way, each deliverable any number of times
  seen,       \* observer -> approval -> the first receipt it accepted (_seen)
  observed,   \* history: observer -> receipts it accepted since it started
  proofs,     \* observer -> fork evidence it returned to its caller
  forged, restarts

vars == <<chain, spends, wire, seen, observed, proofs, forged, restarts>>

Nothing == [a \in Approvals |-> NoReceipt]

Init ==
  /\ chain = [r \in Replicas |-> << >>]
  /\ spends = {}
  /\ wire = {}
  /\ seen = [o \in Observers |-> Nothing]
  /\ observed = [o \in Observers |-> {}]
  /\ proofs = [o \in Observers |-> {}]
  /\ forged = 0 /\ restarts = 0

Consumed(r) == {chain[r][k] : k \in 1..Len(chain[r])}

\* Replica r starts from a copy of the log of a replica with the same identity.
Fork(r, q) ==
  /\ r # q /\ LedgerOf[r] = LedgerOf[q]
  /\ chain[r] = << >> /\ chain[q] # << >>
  /\ chain' = [chain EXCEPT ![r] = chain[q]]
  /\ UNCHANGED <<spends, wire, seen, observed, proofs, forged, restarts>>

\* Mutant: the position is that of the entry before.
PositionBefore(r) == Len(chain[r]) - 1

\* The position a receipt binds: the sequence number of the entry appended.
Position(r) == Len(chain[r])

\* consume_with_receipt: the first consume of a on r signs its position.
Consume(r, a) ==
  LET receipt == [ledger |-> LedgerOf[r], aid |-> a, position |-> Position(r)] IN
  /\ a \notin Consumed(r)
  /\ chain' = [chain EXCEPT ![r] = Append(@, a)]
  /\ spends' = spends \cup {[replica |-> r, receipt |-> receipt]}
  /\ wire' = wire \cup {[body |-> receipt, key |-> LedgerOf[r]]}
  /\ UNCHANGED <<seen, observed, proofs, forged, restarts>>

\* A party without the ledger's key makes up a receipt, named or unnamed.
Forge(ledger, a, position, key) ==
  /\ forged < MaxForged
  /\ ledger = None \/ key # ledger
  /\ forged' = forged + 1
  /\ wire' = wire \cup {[body |-> [ledger |-> ledger, aid |-> a, position |-> position],
                         key |-> key]}
  /\ UNCHANGED <<chain, spends, seen, observed, proofs, restarts>>

\* Mutant: the stored receipt is overwritten before it is compared.
PreviousLost(o, m) == m

\* `self._seen.get(key)`: the receipt that m is compared with.
Previous(o, m) == seen[o][m.body.aid]

\* Mutant: the evidence shows the second receipt twice.
ForkOfSame(prev, m) == [aid |-> m.body.aid, a |-> m, b |-> m]

\* The evidence that observe builds from the kept and the conflicting receipt.
ForkOf(prev, m) == [aid |-> m.body.aid, a |-> prev, b |-> m]

\* ReceiptSet.observe.  A receipt that is not acceptable raises and changes
\* nothing; the first one for an approval is kept; a byte-identical one is a
\* benign duplicate; any other one is returned as fork evidence.
Observe(o, m) ==
  LET a == m.body.aid
      prev == Previous(o, m) IN
  /\ Acceptable(Known[o], m)
  /\ observed' = [observed EXCEPT ![o] = @ \cup {m.body}]
  /\ IF seen[o][a] = NoReceipt
       THEN seen' = [seen EXCEPT ![o][a] = m] /\ UNCHANGED proofs
       ELSE /\ UNCHANGED seen
            /\ IF prev.body = m.body THEN UNCHANGED proofs
               ELSE proofs' = [proofs EXCEPT ![o] = @ \cup {ForkOf(prev, m)}]
  /\ UNCHANGED <<chain, spends, wire, forged, restarts>>

\* A ReceiptSet lives in memory only.
Restart(o) ==
  /\ restarts < MaxRestarts
  /\ restarts' = restarts + 1
  /\ seen' = [seen EXCEPT ![o] = Nothing]
  /\ observed' = [observed EXCEPT ![o] = {}]
  /\ UNCHANGED <<chain, spends, wire, proofs, forged>>

Next ==
  \/ \E r, q \in Replicas : Fork(r, q)
  \/ \E r \in Replicas, a \in Approvals : Consume(r, a)
  \/ \E ledger \in Ledgers \cup {None}, a \in Approvals, key \in Ledgers \cup {None},
       position \in 0..(Cardinality(Approvals) - 1) : Forge(ledger, a, position, key)
  \/ \E o \in Observers, m \in wire : Observe(o, m)
  \/ \E o \in Observers : Restart(o)

Spec == Init /\ [][Next]_vars

(***************************************************************************)
(* Properties                                                              *)
(***************************************************************************)
\* Types: what replicas sign, observers keep and observe returns are receipts and
\* pairs of receipts.
TypeOK ==
  /\ chain \in [Replicas -> Seq(Approvals)]
  /\ spends \subseteq [replica : Replicas, receipt : Receipt]
  /\ wire \subseteq SignedReceipt
  /\ seen \in [Observers -> [Approvals -> SignedReceipt \cup {NoReceipt}]]
  /\ observed \in [Observers -> SUBSET Receipt]
  /\ proofs \in [Observers -> SUBSET Evidence]
  /\ forged \in 0..MaxForged /\ restarts \in 0..MaxRestarts

\* No ledger is accused falsely: whenever an observer returns evidence, two
\* replicas really spent that approval, with the two receipts shown.
EvidenceSound ==
  \A o \in Observers : \A e \in proofs[o] :
    \E s, t \in spends : /\ s.replica # t.replica
                         /\ s.receipt = e.a.body /\ t.receipt = e.b.body
                         /\ s.receipt.aid = e.aid /\ t.receipt.aid = e.aid

\* Evidence is portable: any judge that knows both ledgers accepts it.
EvidenceTransfers ==
  \A o \in Observers : \A e \in proofs[o] : \A judge \in SUBSET Ledgers :
    {e.a.body.ledger, e.b.body.ledger} \subseteq judge => ForkVerifies(judge, e)

\* Whatever the order and the number of deliveries, an observer that accepted two
\* different receipts for an approval holds evidence about it.
ConflictDetected ==
  \A o \in Observers : \A x, y \in observed[o] :
    x.aid = y.aid /\ x # y => \E e \in proofs[o] : e.aid = x.aid

(* Evidence is against a ledger that did fork, and convinces whoever knows   *)
(* that ledger's key (approval.ConsumeForkEvidence.verify,                   *)
(* ReceiptSet.observe).                                                      *)
EvidenceConvicts ==
  /\ TypeOK
  /\ EvidenceSound
  /\ EvidenceTransfers
==============================================================================
