----------------------- MODULE MCDoubleSpendEvidence -------------------------
(* DoubleSpendEvidence for TLC: a ledger with two replicas and another ledger *)
(* with one, watched by one observer that knows both.                         *)
EXTENDS DoubleSpendEvidence, TLC
CONSTANTS r1, r2, r3, L1, L2, a1, a2, o1

Identity == r1 :> L1 @@ r2 :> L1 @@ r3 :> L2
KnowsBoth == o1 :> {L1, L2}
\* The two approvals are interchangeable.
Symmetric == Permutations({a1, a2})
==============================================================================
