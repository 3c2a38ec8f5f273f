----------------------------- MODULE MCRecords -------------------------------
(***************************************************************************)
(* What is signed to be checked later, by somebody else: the causal graph, *)
(* the authority's logs, chains of named records and descriptions,         *)
(* identities, the gateway's log, and proof bundles.                       *)
(* The parts share no state, so a behaviour belongs to one of them and the *)
(* others stay where they began.                                           *)
(*                                                                         *)
(* Bounds.  Graphs of three objects (every shape of a cycle and of a tie), *)
(* five receipts with one restart (a position signed twice and a receipt   *)
(* after it), two chains with as many records as it takes to splice them,  *)
(* a directory forked at its first and at a later member, four keys (one   *)
(* classical, one of another owner), gateway logs of three leaves (an odd  *)
(* tree), logs of three records with one act of tampering.                 *)
(***************************************************************************)
EXTENDS CausalOrder, Accusations, Identities, Gateway, ProofRecords

VARIABLE part

recordvars == <<part, causalvars, logsvars, descvars, idvars, gwvars, proofvars>>

RoomAuth == [r \in RoomIds |-> "roomkey"]

Issued == [name |-> 3, task |-> 2, ui |-> 2, card |-> 0, dir |-> 0]
OperationSet == {[name |-> "op", effect |-> 3, approval |-> 1], [name |-> "op", effect |-> 3, approval |-> 2]}
EventSet == [task : {"s", "t"}, state : {"working", "completed", "unheard"}]

KeyTable == [a1 |-> [alg |-> -49, owner |-> "alice"], a2 |-> [alg |-> -49, owner |-> "alice"],
             m |-> [alg |-> -49, owner |-> "mallory"], x |-> [alg |-> -7, owner |-> "alice"]]

RecordsInit ==
  /\ part \in {"causal", "logs", "chains", "identities", "gateway", "proof"}
  /\ CausalInit /\ LogsInit /\ DescInit /\ IdInit /\ GatewayInit /\ ProofInit
  /\ part # "chains" => surface = "name" /\ stream = [r \in Runs |-> "s"]
  /\ part # "proof" => proofdesk = "log"

RecordsNext ==
  \/ /\ part = "causal" /\ CausalNext
     /\ UNCHANGED <<part, logsvars, descvars, idvars, gwvars, proofvars>>
  \/ /\ part = "logs" /\ LogsNext
     /\ UNCHANGED <<part, causalvars, descvars, idvars, gwvars, proofvars>>
  \/ /\ part = "chains" /\ DescNext
     /\ UNCHANGED <<part, causalvars, logsvars, idvars, gwvars, proofvars>>
  \/ /\ part = "identities" /\ IdNext
     /\ UNCHANGED <<part, causalvars, logsvars, descvars, gwvars, proofvars>>
  \/ /\ part = "gateway" /\ GatewayNext
     /\ UNCHANGED <<part, causalvars, logsvars, descvars, idvars, proofvars>>
  \/ /\ part = "proof" /\ ProofNext
     /\ UNCHANGED <<part, causalvars, logsvars, descvars, idvars, gwvars>>

RecordsSpec == RecordsInit /\ [][RecordsNext]_recordvars
==============================================================================
