------------------------------ MODULE SingleUse ------------------------------
(***************************************************************************)
(* What the consume ledger promises its callers (design section 7.2): each *)
(* approval is spent at most once, ever, and the order of the spends never *)
(* changes.  Nothing of processes, files or failures is left here.         *)
(***************************************************************************)
EXTENDS Sequences
CONSTANT Approvals
VARIABLE spent          \* the approvals spent so far, in order

SpentSet == {spent[k] : k \in DOMAIN spent}

Init == spent = << >>

Spend(a) == /\ a \notin SpentSet
            /\ spent' = Append(spent, a)

Next == \E a \in Approvals : Spend(a)

Spec == Init /\ [][Next]_spent
==============================================================================
