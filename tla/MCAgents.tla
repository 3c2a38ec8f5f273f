------------------------------ MODULE MCAgents -------------------------------
(***************************************************************************)
(* What keeps agents under control while they run: the guards of the agent *)
(* frameworks, the MCP guard process with its seed file, and orchestrated  *)
(* tasks.  The parts share no state, so a behaviour belongs to one of them *)
(* and the others stay where they began.                                   *)
(*                                                                         *)
(* Bounds.  Two calls in flight in any of eight frameworks, with one       *)
(* restart and arguments of which two encode alike; three client lines and *)
(* two requests of the server's own; three guards that start at once;      *)
(* three tasks in four plans, a pipeline or a fan-out, with one forgery;   *)
(* scripts of three events over two objects, two requests of one adapter,  *)
(* every graph of three nodes, two threads that hash two seeds.            *)
(***************************************************************************)
EXTENDS AgentGuards, McpGuard, Orchestration, Conformance

VARIABLE part

agentvars == <<part, guardvars, guardianvars, orchvars, confvars>>

------------------------------------------------------------------------------
(* Arguments of the guarded calls: the number one and True, which encode     *)
(* alike, and None.  One tool reads, unless it is given True; the other one  *)
(* writes, and is not classified for None.                                   *)

Values == [one  |-> [type |-> "int",  text |-> "1"],
           true |-> [type |-> "bool", text |-> "True"],
           big  |-> [type |-> "none", text |-> "None"]]

Classes ==
  [x \in Tools \X Args |-> IF x[1] = "peek" THEN (IF x[2] = "true" THEN 2 ELSE 0)
                          ELSE IF x[2] = "big" THEN NoEffect ELSE 2]

OwnEffect == NoEffect

------------------------------------------------------------------------------
(* The server lists one tool as harmless and may list it again as            *)
(* destructive.  Its own requests carry an id that the client uses too.      *)

MCTools == {"read", "wipe"}
MCListings == {[t \in {"read"} |-> 0], [t \in {"read", "wipe"} |-> IF t = "read" THEN 3 ELSE BadHint]}
MCServerIds == {2}

------------------------------------------------------------------------------
(* Plans *)

MCTasks == 1..3
\* A chain against the order of the ids, a diamond's lower half, two free tasks, a cycle.
MCPlans == {(1 :> {2} @@ 2 :> {3} @@ 3 :> {}), (1 :> {} @@ 2 :> {} @@ 3 :> {1, 2}),
            (1 :> {3} @@ 2 :> {} @@ 3 :> {}), (1 :> {2} @@ 2 :> {1} @@ 3 :> {})}

------------------------------------------------------------------------------
AgentsInit ==
  /\ part \in {"frameworks", "guardian", "seed", "orchestration", "graded", "reconciled", "ported", "hashed"}
  /\ GuardsInit /\ GuardianInit /\ OrchInit /\ ConfInit
  /\ part # "frameworks" => framework = "langgraph"
  /\ part # "orchestration" => style = "fanout"
  /\ part # "ported" => kcase = CHOOSE c \in GovernanceCases : TRUE

AgentsNext ==
  \/ part = "frameworks" /\ GuardsNext /\ UNCHANGED <<part, guardianvars, orchvars, confvars>>
  \/ part = "guardian" /\ GuardianNext /\ UNCHANGED <<part, guardvars, orchvars, confvars>>
  \/ part = "seed" /\ SeedRace /\ UNCHANGED <<part, guardvars, orchvars, confvars>>
  \/ part = "orchestration" /\ OrchNext /\ UNCHANGED <<part, guardvars, guardianvars, confvars>>
  \/ part = "graded" /\ GradedNext /\ UNCHANGED <<part, guardvars, guardianvars, orchvars>>
  \/ part = "reconciled" /\ ReconcileState /\ UNCHANGED <<part, guardvars, guardianvars, orchvars>>
  \/ part = "ported" /\ PortNext /\ UNCHANGED <<part, guardvars, guardianvars, orchvars>>
  \/ part = "hashed" /\ ShakeNext /\ UNCHANGED <<part, guardvars, guardianvars, orchvars>>

AgentsSpec == AgentsInit /\ [][AgentsNext]_agentvars
==============================================================================
