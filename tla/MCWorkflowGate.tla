--------------------------- MODULE MCWorkflowGate ----------------------------
(* WorkflowGate for TLC: two tasks, one crash of the Go gate, and one write *)
(* that fails part of the way.                                              *)
EXTENDS WorkflowGate, TLC
CONSTANTS t1, t2

OneForGo == "python" :> 0 @@ "go" :> 1
Never == "python" :> 0 @@ "go" :> 0
==============================================================================
