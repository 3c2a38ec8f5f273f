----------------------------- MODULE CausalOrder -----------------------------
(***************************************************************************)
(* The signed causal graph (graph.py, audit.py) and its federated merge    *)
(* (federation.py): several authorities accept objects, each naming the    *)
(* content ids of its causes; any verifier checks the partial order and    *)
(* linearises it offline.  The coordinate-frame check of channels.py is    *)
(* the same depth-first search over parent links.                          *)
(*                                                                         *)
(* A content id is a number; its order is the bytewise order of the ids.   *)
(***************************************************************************)
EXTENDS Integers, FiniteSets, SequencesExt

CONSTANTS
  NodeIds,      \* content ids, numbers
  MaxPosition,  \* bound on ordering positions
  MaxNodes,     \* bound on the objects of one graph
  Overlap,      \* may two authorities' scopes hold the same object?
  Frames        \* coordinate frames of the spatial channel

\* No id and no frame is the value that stands for nothing.
ASSUME CausalConstants ==
  /\ NodeIds \subseteq Nat \ {0} /\ IsFiniteSet(NodeIds)
  /\ MaxPosition \in Nat
  /\ "" \notin Frames /\ IsFiniteSet(Frames)

VARIABLES
  nodes,          \* the objects collected from all scopes, in the order they came
  parent          \* frame -> parent frame, or "" for a root

causalvars == <<nodes, parent>>

Node == [id : NodeIds, causes : Seq(NodeIds), position : 0..MaxPosition]

CausalInit == nodes = << >> /\ parent = [f \in Frames |-> ""]

------------------------------------------------------------------------------
IdsOf(ns) == {ns[i].id : i \in DOMAIN ns}

\* The index a verifier builds by content id: of equal ids the last one stays.
Idx(ns, c) == Max({i \in DOMAIN ns : ns[i].id = c})

FutureCause(ns) ==
  \E i \in DOMAIN ns : \E c \in ToSet(ns[i].causes) \cap IdsOf(ns) :
    ns[Idx(ns, c)].position > ns[i].position

\* idx.get(c) for each cause of each node; 0 is None.
Links(ns) ==
  [i \in DOMAIN ns |-> [k \in DOMAIN ns[i].causes |->
     IF ns[i].causes[k] \in IdsOf(ns) THEN Idx(ns, ns[i].causes[k]) ELSE 0]]

Colorings(links) == [DOMAIN links -> {"white", "gray", "black"}]

\* Mutant: a node on the current path does not count as a cycle.
HasCycleNever(links) ==
  [d \in 0..Len(links) |-> [i \in DOMAIN links |-> [color \in Colorings(links) |->
     [found |-> FALSE, color |-> [color EXCEPT ![i] = "black"]]]]]

\* The three-colour search from node i over effect-to-cause edges.  visit[d] goes d
\* calls deep; each call paints a white node, so that visit[0] is never called.
HasCycle(links) ==
  LET visit[d \in 0..Len(links)] ==
        [i \in DOMAIN links |-> [color \in Colorings(links) |->
           IF d = 0 THEN [found |-> FALSE, color |-> color] ELSE
           LET follow[k \in 0..Len(links[i])] ==
                 IF k = 0 THEN [found |-> FALSE, color |-> [color EXCEPT ![i] = "gray"]]
                 ELSE LET j   == links[i][k]
                          acc == follow[k - 1]
                      IN IF acc.found \/ j = 0 THEN acc
                         ELSE IF acc.color[j] = "gray" THEN [acc EXCEPT !.found = TRUE]
                         ELSE IF acc.color[j] = "white" THEN visit[d - 1][j][acc.color]
                         ELSE acc
               done == follow[Len(links[i])]
           IN IF done.found THEN done ELSE [done EXCEPT !.color[i] = "black"]]]
  IN visit

Cyclic(links) ==
  LET seen[i \in 0..Len(links)] ==
        IF i = 0 THEN [found |-> FALSE, color |-> [x \in DOMAIN links |-> "white"]]
        ELSE LET acc == seen[i - 1]
             IN IF acc.found \/ acc.color[i] # "white" THEN acc
                ELSE HasCycle(links)[Len(links)][i][acc.color]
  IN seen[Len(links)].found

VerifyCausal(ns) == ~FutureCause(ns) /\ ~Cyclic(Links(ns))

------------------------------------------------------------------------------
\* The CausalViolation of an order that cannot be completed: no id or index is 0.
Violation == <<0>>

\* The ready node of least rank, the first of those that came first.
Pick(ready, rank) ==
  CHOOSE i \in ready : \A j \in ready : rank[i] < rank[j] \/ (rank[i] = rank[j] /\ i <= j)

\* Kahn's algorithm: indeg counts the causes still missing, taken[p][j] is what
\* taking p takes off the count of j, order is the indices taken so far.  The code
\* leaves the count of a node already taken alone; nothing reads it again.
Kahn(missing, rank, taken) ==
  LET step[k \in 0..Len(missing)] ==
        IF k = 0 THEN [indeg |-> missing, order |-> << >>]
        ELSE LET s     == step[k - 1]
                 ready == {i \in DOMAIN missing \ ToSet(s.order) : s.indeg[i] = 0}
                 p     == Pick(ready, rank)
             IN IF ready = {} THEN s
                ELSE [indeg |-> [j \in DOMAIN missing |-> s.indeg[j] - taken[p][j]],
                      order |-> Append(s.order, p)]
      last == step[Len(missing)].order
  IN IF Len(last) = Len(missing) THEN last ELSE Violation

\* indeg at the start: the present causes of a node, as often as they are named.
Indegrees(ns) ==
  [j \in DOMAIN ns |-> Cardinality({k \in DOMAIN ns[j].causes : ns[j].causes[k] \in IdsOf(ns)})]

IdsAlong(ns, order) ==
  IF order = Violation THEN Violation ELSE [k \in DOMAIN order |-> ns[order[k]].id]

\* Merge by content id.  A cause counts as often as it is named, and is taken off
\* once for each node of that id.
Merge(ns) ==
  IdsAlong(ns, Kahn(Indegrees(ns), [j \in DOMAIN ns |-> ns[j].id],
                    [p \in DOMAIN ns |-> [j \in DOMAIN ns |->
                       IF ns[p].id \in ToSet(ns[j].causes) THEN 1 ELSE 0]]))

\* graph.reconcile keeps the positions, federation.reconcile sets them to zero.
GraphReconcile(ns) == IF VerifyCausal(ns) THEN Merge(ns) ELSE Violation
Reconcile(ns) ==
  IF VerifyCausal([i \in DOMAIN ns |-> [ns[i] EXCEPT !.position = 0]])
  THEN Merge(ns) ELSE Violation

\* Mutant: positions alone decide, causes of the same position do not.
TopoOrderByPosition(ns) ==
  LET before(i, j) == ns[i].position < ns[j].position \/ (ns[i].position = ns[j].position /\ i < j)
  IN IF VerifyCausal(ns) THEN IdsAlong(ns, SetToSortSeq(DOMAIN ns, before)) ELSE Violation

\* audit.topo_order: ties by position, then by place in the list.
TopoOrder(ns) ==
  LET edges(p, j) == Cardinality({k \in DOMAIN ns[j].causes : Links(ns)[j][k] = p})
  IN IF ~VerifyCausal(ns) THEN Violation
     ELSE IdsAlong(ns, Kahn(Indegrees(ns), [j \in DOMAIN ns |-> ns[j].position],
                            [p \in DOMAIN ns |-> [j \in DOMAIN ns |-> edges(p, j)]]))

\* The place of an id in an order; a later occurrence replaces an earlier one.
Place(order, c) == Max({k \in DOMAIN order : order[k] = c})

CausallyValid(order, ns) ==
  \A i \in DOMAIN ns : \A c \in ToSet(ns[i].causes) :
    {ns[i].id, c} \subseteq ToSet(order) => Place(order, c) <= Place(order, ns[i].id)

\* Mutant: only the length of the claimed order is compared.
VerifyReconcileLength(claimed, ns) ==
  LET order == Reconcile(ns)
  IN IF order = Violation THEN "CausalViolation"
     ELSE IF Len(claimed) = Len(order) THEN "verified" ELSE "ReconcileMismatch"

\* The verifier recomputes the merge and compares it with the record.
VerifyReconcileOrder(claimed, ns) ==
  LET order == Reconcile(ns)
  IN IF order = Violation THEN "CausalViolation"
     ELSE IF order = claimed THEN "verified" ELSE "ReconcileMismatch"

\* Mutant: a frame that is its own parent is a root.
CheckFrameTreeSelf(p) ==
  ~ \E f \in Frames : p[f] \in Frames \ {f} /\ p[p[f]] = f

\* Frames as nodes whose only cause is the parent; the search is the same.
FrameNodes(p) ==
  LET names == SetToSeq(Frames)
  IN [i \in DOMAIN names |->
        [id |-> names[i], causes |-> IF p[names[i]] = "" THEN << >> ELSE <<p[names[i]]>>]]
CheckFrameTree(p) == ~Cyclic(Links(FrameNodes(p)))

------------------------------------------------------------------------------
\* An authority accepts an object into its scope; the scopes arrive in any order.
Accept(id, causes, position) ==
  /\ Len(nodes) < MaxNodes
  /\ Overlap \/ id \notin IdsOf(nodes)
  /\ \A i \in DOMAIN nodes : nodes[i].id = id => nodes[i].causes = causes
  /\ nodes' = Append(nodes, [id |-> id, causes |-> causes, position |-> position])
  /\ UNCHANGED parent

SetParent(f, p) ==
  /\ nodes = << >>
  /\ parent[f] = "" /\ parent' = [parent EXCEPT ![f] = p]
  /\ UNCHANGED nodes

\* Inputs: a causes list names no id twice; its order does not matter.
CauseLists ==
  {s \in SeqOf(NodeIds, Cardinality(NodeIds)) : \A k, m \in DOMAIN s : k < m => s[k] < s[m]}

CausalNext ==
  \/ \E id \in NodeIds, causes \in CauseLists, position \in 0..MaxPosition :
       /\ \A f \in Frames : parent[f] = ""
       /\ Accept(id, causes, position)
  \/ \E f, p \in Frames : SetParent(f, p)

CausalSpec == CausalInit /\ [][CausalNext]_causalvars

------------------------------------------------------------------------------
\* Reference: x reaches what is in every set that holds the successors of x and,
\* with each of its members, the successors of that member.
Reached(succ, x) ==
  {y \in DOMAIN succ : \A S \in SUBSET DOMAIN succ :
     succ[x] \subseteq S /\ (\A z \in S : succ[z] \subseteq S) => y \in S}

Acyclic(succ) == \A x \in DOMAIN succ : x \notin Reached(succ, x)

\* The present causes of each object, and the parent of each frame.
CausesOf(ns) ==
  [c \in IdsOf(ns) |->
     UNION {ToSet(ns[i].causes) \cap IdsOf(ns) : i \in {i \in DOMAIN ns : ns[i].id = c}}]
ParentOf(p) == [f \in Frames |-> {p[f]} \cap Frames]

\* Reference: every order of the ids in which no object precedes one of its causes.
Extensions(ns) ==
  {o \in SetToSeqs(IdsOf(ns)) : \A i \in DOMAIN ns : \A c \in ToSet(ns[i].causes) \cap IdsOf(ns) :
      Place(o, c) < Place(o, ns[i].id)}

LexLeast(orders) ==
  CHOOSE o \in orders : \A q \in orders \ {o} :
    \E k \in DOMAIN o : o[k] < q[k] /\ \A m \in 1..(k - 1) : o[m] = q[m]

(* graph.verify_causal's depth-first search accepts exactly the graphs in    *)
(* which no object reaches itself and no present cause is positioned later.  *)
VerdictIsReachability ==
  VerifyCausal(nodes) <=> Acyclic(CausesOf(nodes)) /\ ~FutureCause(nodes)

(* federation.reconcile does not depend on how the objects were split into   *)
(* scopes or in which order the scopes came: every arrangement of the same   *)
(* objects gives the least linear extension by content id, and a reconcile   *)
(* record is verified (verify_reconcile_order) for that order and no other.  *)
ScopeIndependent ==
  Acyclic(CausesOf(nodes)) /\ nodes # << >> =>
    LET least == LexLeast(Extensions(nodes))
    IN /\ \A arranged \in SetToSeqs(ToSet(nodes)) : Reconcile(arranged) = least
       /\ \A claimed \in SetToSeqs(IdsOf(nodes)) :
            VerifyReconcileOrder(claimed, nodes) = "verified" <=> claimed = least

(* audit.topo_order and graph.reconcile never fail on a graph that verifies, *)
(* and both put every object once and after its causes (causally_valid).     *)
OrdersAreExtensions ==
  VerifyCausal(nodes) =>
    \A order \in {TopoOrder(nodes), GraphReconcile(nodes)} :
      order \in Extensions(nodes) /\ CausallyValid(order, nodes)

(* channels.check_frame_tree accepts exactly the frame maps in which no      *)
(* frame is its own ancestor.                                                *)
FrameTreeIsForest ==
  (\E f \in Frames : parent[f] # "") => (CheckFrameTree(parent) <=> Acyclic(ParentOf(parent)))

(* Order is causal order: the searches accept exactly what has no cycle, the *)
(* sorts give extensions of it, and every verifier computes the same one     *)
(* from any split into scopes (graph.verify_causal,                          *)
(* channels.check_frame_tree, audit.topo_order, federation.reconcile).       *)
CausalOrderExact ==
  /\ VerdictIsReachability
  /\ FrameTreeIsForest
  /\ ScopeIndependent
  /\ OrdersAreExtensions
==============================================================================
