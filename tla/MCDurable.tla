------------------------------ MODULE MCDurable ------------------------------
(***************************************************************************)
(* The stores that have to outlive a failure, besides the consume ledger:  *)
(* the workflow gate (both ports) and the delivery tracker.  They share no *)
(* state, so a behaviour belongs to one of them.                           *)
(*                                                                         *)
(* Bounds.  Two tasks: one crash, one power loss and one I/O error for the *)
(* Python gate; one crash and two power losses for the Go gate (the second *)
(* can undo a truncation made after the first).  Two objects with two      *)
(* stages: one crash, one power loss and two I/O errors (the second finds  *)
(* a record of the first still in the buffer).                             *)
(***************************************************************************)
EXTENDS WorkflowGate, DeliveryTracker, TLC

CONSTANTS t1, t2, o1, o2

VARIABLE part

durablevars == <<part, gatevars, trackervars>>

Crashes == "python" :> 1 @@ "go" :> 1
Losses == "python" :> 1 @@ "go" :> 2
Faults == "python" :> 1 @@ "go" :> 0

\* Tasks, and objects, are only compared with each other.
Symmetry == Permutations({t1, t2}) \cup Permutations({o1, o2})

DurableInit ==
  /\ part \in {"gate", "tracker"}
  /\ GateInit /\ (part = "tracker" => port = "go")
  /\ TrackerInit

DurableNext ==
  /\ UNCHANGED part
  /\ \/ part = "gate" /\ GateNext /\ UNCHANGED trackervars
     \/ part = "tracker" /\ TrackerNext /\ UNCHANGED gatevars

DurableSpec == DurableInit /\ [][DurableNext]_durablevars

(* No step takes anything back: neither a durable status of a task that a    *)
(* caller was told of (in Python, none at all), nor the stage of an object,  *)
(* nor a durable record of the tracker's log                                 *)
(* (channels.WorkflowGate._persist, delivery.Tracker.advance).               *)
LogsGoForward ==
  /\ DurableForward
  /\ PersistedMonotone
  /\ UpdatesKept
==============================================================================
