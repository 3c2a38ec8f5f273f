--------------------------- MODULE MCConsumeLedger ---------------------------
(***************************************************************************)
(* ConsumeLedger for TLC: one Ledger object shared by two threads.         *)
(***************************************************************************)
EXTENDS ConsumeLedger, TLC
CONSTANTS i1, w1, w2, a1, a2

OneInstance == [w \in Workers |-> i1]
\* a1 belongs to an object addressed to i1, a2 to one with no audience.
Audiences == a1 :> i1 @@ a2 :> None
==============================================================================
