---------------------------- MODULE WorkflowGraph ---------------------------
(***************************************************************************)
(* The graph of a workflow: what the canvas of the editor lets a user      *)
(* build (apps/web/src/app/app/workflow-editor.tsx,                        *)
(* workflow-editor-model.ts), what the domain package accepts as a draft   *)
(* and as publishable (workflow-policy.ts), and what publication compiles  *)
(* it to (workflow-compiler.ts).                                           *)
(*                                                                         *)
(* Every node has at most the one input "rows".  Names, configurations and *)
(* positions are left out; identifiers are naturals in their sort order.   *)
(***************************************************************************)
EXTENDS Integers, Sequences, FiniteSets, FiniteSetsExt

CONSTANTS
  NodeIds,   \* identifiers of nodes
  NodeKinds  \* the kinds that are used

VARIABLE graph  \* the canvas: the kinds of its nodes, and its edges

Kinds == {"trigger", "enrich", "filter", "write", "webhook"}

WorkflowGraphParameters ==
  /\ NodeIds \subseteq Nat
  /\ NodeKinds \subseteq Kinds

\* nodePorts
Outputs(kind) ==
  CASE kind = "filter"                 -> {"matched", "rejected"}
    [] kind \in {"trigger", "enrich"}  -> {"rows"}
    [] OTHER                           -> {}

HasInput(kind) == kind # "trigger"

Edges ==
  [from : NodeIds, handle : {"rows", "matched", "rejected"}, to : NodeIds]

Nodes(g) == DOMAIN g.nodes
Into(g, n) == {e \in g.edges : e.to = n}
OutOf(g, n) == {e \in g.edges : e.from = n}

WorkflowGraphTypeOK ==
  /\ graph.edges \subseteq Edges
  /\ Nodes(graph) \subseteq NodeIds
  /\ \A n \in Nodes(graph) : graph.nodes[n] \in NodeKinds

-----------------------------------------------------------------------------

\* Each edge joins an output to an input of another node.
EdgesFit(g) ==
  \A e \in g.edges :
    /\ {e.from, e.to} \subseteq Nodes(g)
    /\ e.from # e.to
    /\ e.handle \in Outputs(g.nodes[e.from])
    /\ HasInput(g.nodes[e.to])

\* Wrong variant of the definition that follows: an input is taken for each
\* node it comes from.
InputsSinglePerSource(g) ==
  \A e, f \in g.edges : (e.from = f.from /\ e.to = f.to) => e = f

\* occupiedInputs
InputsSingle(g) == \A n \in Nodes(g) : Cardinality(Into(g, n)) <= 1

\* incomingCount
Incoming(g) == [n \in Nodes(g) |-> Cardinality(Into(g, n))]

\* The counts that are left when node is taken from the queue.
Without(g, node, incoming) ==
  [n \in Nodes(g) |->
     incoming[n] - Cardinality({e \in OutOf(g, node) : e.to = n})]

\* The nodes whose last predecessor was node.
Freed(g, node, incoming) ==
  {n \in Nodes(g) : incoming[n] > 0 /\ Without(g, node, incoming)[n] = 0}

\* What Kahn's algorithm keeps: the nodes that wait for no other, and how many
\* edges lead to each node from the ones it has not taken.
Rounds(g) == [ready : SUBSET Nodes(g), incoming : [Nodes(g) -> Int]]

Start(g) ==
  [ready |-> {n \in Nodes(g) : Incoming(g)[n] = 0}, incoming |-> Incoming(g)]

\* It takes node.
Take(g, node, at) ==
  [ready |-> (at.ready \ {node}) \union Freed(g, node, at.incoming),
   incoming |-> Without(g, node, at.incoming)]

\* The nodes that it takes.  Their number does not depend on the order, so the
\* queue is a set.
Visited(g) ==
  LET Taken[at \in Rounds(g)] ==
        IF at.ready = {} THEN {}
        ELSE LET node == CHOOSE n \in at.ready : TRUE
             IN {node} \union Taken[Take(g, node, at)]
  IN Taken[Start(g)]

Acyclic(g) == Visited(g) = Nodes(g)

\* workflowDraftGraphSchema, validateWorkflowGraphStructure
DraftGraph(g) == EdgesFit(g) /\ InputsSingle(g) /\ Acyclic(g)

\* The nodes to which a path of edges leads from some of the given ones.
Reachable(g, nodes) ==
  LET Reached[at \in [pending : SUBSET Nodes(g), reached : SUBSET Nodes(g)]] ==
        IF at.pending \subseteq at.reached THEN at.reached
        ELSE LET node == CHOOSE n \in at.pending : n \notin at.reached
             IN Reached[[pending |-> at.pending \union {e.to : e \in OutOf(g, node)},
                         reached |-> at.reached \union {node}]]
  IN Reached[[pending |-> nodes, reached |-> {}]]

Triggers(g) == {n \in Nodes(g) : g.nodes[n] = "trigger"}
Destinations(g) == {n \in Nodes(g) : g.nodes[n] \in {"write", "webhook"}}

\* workflowGraphSchema, validatePublishableWorkflowGraph
PublishableGraph(g) ==
  /\ DraftGraph(g)
  /\ Triggers(g) # {}
  /\ Destinations(g) # {}
  /\ \A n \in Nodes(g) \ Triggers(g) : Into(g, n) # {}
  /\ Reachable(g, Triggers(g)) = Nodes(g)

-----------------------------------------------------------------------------

\* deterministicTopologicalOrder: always the least of the steps that wait for
\* none.
Ordered(g) ==
  LET Order[at \in Rounds(g)] ==
        IF at.ready = {} THEN <<>>
        ELSE LET node == Min(at.ready)
             IN <<node>> \o Order[Take(g, node, at)]
  IN Order[Start(g)]

\* compileWorkflowGraph
CompiledPlan(g) ==
  [steps   |-> Ordered(g),
   entries |-> {n \in Nodes(g) : Into(g, n) = {}},
   inbound |-> [n \in Nodes(g) |-> Into(g, n)]]

-----------------------------------------------------------------------------

WorkflowGraphInit == graph = [nodes |-> <<>>, edges |-> {}]

\* addNode
AddNode(n, kind) ==
  /\ n \notin Nodes(graph)
  /\ graph' = [graph EXCEPT !.nodes =
       [m \in Nodes(graph) \union {n} |->
          IF m = n THEN kind ELSE graph.nodes[m]]]

\* onNodesChange: the edges of a removed node go with it.
RemoveNode(n) ==
  /\ n \in Nodes(graph)
  /\ graph' = [nodes |-> [m \in Nodes(graph) \ {n} |-> graph.nodes[m]],
               edges |-> graph.edges \ (Into(graph, n) \union OutOf(graph, n))]

\* connect: canConnectWorkflowNodes validates the graph with the new edge as
\* a draft.
Connect(e) ==
  LET connected == [graph EXCEPT !.edges = @ \union {e}]
  IN /\ e \notin graph.edges
     /\ {e.from, e.to} \subseteq Nodes(graph)
     /\ DraftGraph(connected)
     /\ graph' = connected

\* onEdgesChange
Disconnect(e) ==
  /\ e \in graph.edges
  /\ graph' = [graph EXCEPT !.edges = @ \ {e}]

WorkflowGraphNext ==
  \/ \E n \in NodeIds, kind \in NodeKinds : AddNode(n, kind)
  \/ \E n \in NodeIds : RemoveNode(n)
  \/ \E e \in Edges : Connect(e) \/ Disconnect(e)

-----------------------------------------------------------------------------

Positions(plan) == DOMAIN plan.steps

\* An entry has no inbound route, any other step one: from an earlier step,
\* by a handle which that step can activate.
RoutedFromEarlier(g, plan) ==
  \A k \in Positions(plan) :
    LET n == plan.steps[k] IN
    IF n \in plan.entries THEN plan.inbound[n] = {}
    ELSE \E e \in plan.inbound[n], j \in 1 .. k - 1 :
           /\ plan.inbound[n] = {e}
           /\ e.from = plan.steps[j]
           /\ e.handle \in Outputs(g.nodes[e.from])

\* A step comes before a lesser one only if that had to wait for it or for a
\* step in between.
LeastOrder(plan) ==
  \A k \in Positions(plan), j \in Positions(plan) :
    (j < k /\ plan.steps[k] < plan.steps[j]) =>
      \E i \in j .. k - 1, e \in plan.inbound[plan.steps[k]] :
        e.from = plan.steps[i]

\* Whatever can be built and passes for publishable compiles to a plan as
\* WorkflowRun assumes it: every node is a step once, the entries are the
\* triggers, and the routes make a forest, in an order that does not depend
\* on how the graph was drawn (workflow-policy.ts, workflow-compiler.ts).
PublishableIsPlan ==
  PublishableGraph(graph) =>
    LET plan == CompiledPlan(graph) IN
    /\ Len(plan.steps) = Cardinality(Nodes(graph))
    /\ {plan.steps[k] : k \in Positions(plan)} = Nodes(graph)
    /\ plan.entries = Triggers(graph)
    /\ RoutedFromEarlier(graph, plan)
    /\ LeastOrder(plan)

=============================================================================
