--------------------------- MODULE DirectedGraph ---------------------------
(***************************************************************************)
(* memoir/support/Graph.hpp on top of graph_lite: Tarjan's strongly        *)
(* connected components, the condensation of a graph and the topological   *)
(* order of one.  The recursive helpers are machines with a call stack.    *)
(*                                                                         *)
(* The adjacency list is a std::map of pointers, so nodes are visited in   *)
(* the order of their addresses; neighbours, and the components found, are *)
(* in hash maps and come in any order.                                     *)
(***************************************************************************)
EXTENDS Integers, Sequences, SequencesExt, FiniteSets, Graphs

VARIABLES
  phase,         \* what runs: "components", "condense", "order"; or "ordered", "cyclic"
  graph,         \* [node, edge]
  address,       \* the address of each node
  calls,         \* frames of the recursive helper: [node, todo], todo the edges left
  index, indices, lowlink, stack, components,     \* tarjan_scc
  condensation,  \* condense: [node, edge]; the graph whose order is computed
  permanent, temporary, order                     \* topological_order

tarjan      == <<index, indices, lowlink, stack, components>>
topological == <<permanent, temporary, order>>
graphVars   == <<phase, graph, address, calls, tarjan, condensation, topological>>

NoGraph == [node |-> {}, edge |-> {}]

-----------------------------------------------------------------------------
(* graph_lite *)

AddNode(G, n) == [G EXCEPT !.node = @ \cup {n}]

\* add_edge_with_prop returns 0 when an end is missing, or the edge is there.
CanAddEdge(G, m, n) == {m, n} \subseteq G.node /\ <<m, n>> \notin G.edge

AddEdge(G, m, n) ==
  IF CanAddEdge(G, m, n) THEN [G EXCEPT !.edge = @ \cup {<<m, n>>}] ELSE G

\* The next node of an iteration over the adjacency list that is not in done.
First(G, done) ==
  {n \in G.node \ done : \A m \in G.node \ done : address[n] <= address[m]}

-----------------------------------------------------------------------------
(* tarjan_scc *)

With(f, x, y) == [z \in DOMAIN f \cup {x} |-> IF z = x THEN y ELSE f[z]]
Lesser(a, b)  == IF a <= b THEN a ELSE b

Top        == Last(calls)
Frame(n)   == [node |-> n, todo |-> Successors(graph, n)]
Pending(m) == [calls EXCEPT ![Len(calls)].todo = @ \ {m}]

StartTarjan ==
  /\ index = 0 /\ indices = << >> /\ lowlink = << >> /\ stack = << >> /\ components = << >>

\* The helper is called for n, with the frames cs below it.
Enter(n, cs) ==
  /\ indices' = With(indices, n, index)
  /\ lowlink' = With(lowlink, n, index)
  /\ index' = index + 1
  /\ stack' = Append(stack, n)
  /\ calls' = Append(cs, Frame(n))
  /\ UNCHANGED <<phase, graph, address, components, condensation, topological>>

ScanNode ==
  /\ phase = "components" /\ calls = << >>
  /\ \E n \in First(graph, DOMAIN indices) : Enter(n, << >>)

\* Variant: the lowlink of any neighbour that has one counts, on the stack or not.
OnStackAny(m) == TRUE

OnStack(m) == m \in Range(stack)

TreeEdge ==
  /\ phase = "components" /\ calls # << >>
  /\ \E m \in Top.todo : m \notin DOMAIN indices /\ Enter(m, Pending(m))

OtherEdge ==
  /\ phase = "components" /\ calls # << >>
  /\ \E m \in Top.todo :
       /\ m \in DOMAIN indices
       /\ lowlink' = [lowlink EXCEPT ![Top.node] =
                        IF OnStack(m) THEN Lesser(@, indices[m]) ELSE @]
       /\ calls' = Pending(m)
  /\ UNCHANGED <<phase, graph, address, index, indices, stack, components, condensation, topological>>

\* The nodes the root of a component pops, itself the last.
PoppedWith(n) ==
  {stack[i] : i \in {j \in 1 .. Len(stack) : \E k \in 1 .. j : stack[k] = n}}

\* Variant: the root itself stays on the stack.
LeaveRoot ==
  /\ phase = "components" /\ calls # << >> /\ Top.todo = {}
  /\ LET n == Top.node
         isRoot == lowlink[n] = indices[n]
     IN  /\ components' = IF isRoot THEN With(components, n, PoppedWith(n)) ELSE components
         /\ stack' = IF isRoot
                     THEN SubSeq(stack, 1, Len(stack) - Cardinality(PoppedWith(n)) + 1)
                     ELSE stack
         /\ lowlink' = IF Len(calls) = 1 THEN lowlink
                       ELSE [lowlink EXCEPT ![calls[Len(calls) - 1].node] = Lesser(@, lowlink[n])]
         /\ calls' = Front(calls)
  /\ UNCHANGED <<phase, graph, address, index, indices, condensation, topological>>

\* The end of the helper, and the caller's update with the lowlink it finds.
Leave ==
  /\ phase = "components" /\ calls # << >> /\ Top.todo = {}
  /\ LET n == Top.node
         isRoot == lowlink[n] = indices[n]
     IN  /\ components' = IF isRoot THEN With(components, n, PoppedWith(n)) ELSE components
         /\ stack' = IF isRoot
                     THEN SubSeq(stack, 1, Len(stack) - Cardinality(PoppedWith(n)))
                     ELSE stack
         /\ lowlink' = IF Len(calls) = 1 THEN lowlink
                       ELSE [lowlink EXCEPT ![calls[Len(calls) - 1].node] = Lesser(@, lowlink[n])]
         /\ calls' = Front(calls)
  /\ UNCHANGED <<phase, graph, address, index, indices, condensation, topological>>

-----------------------------------------------------------------------------
(* condense *)

BeginCondense ==
  /\ phase = "components" /\ calls = << >> /\ graph.node = DOMAIN indices
  /\ phase' = "condense" /\ condensation' = NoGraph
  /\ UNCHANGED <<graph, address, calls, tarjan, topological>>

\* The edges of the root that leave its component; add_edge ignores the others' ends.
EdgesOfRoot(r) ==
  {e \in graph.edge : r \in {e[1], e[2]} /\ ~({e[1], e[2]} \subseteq components[r])}

AddComponent ==
  /\ phase = "condense"
  /\ \E r \in DOMAIN components \ condensation.node :
       LET G == AddNode(condensation, r)
       IN  condensation' = [G EXCEPT !.edge =
                              @ \cup {e \in EdgesOfRoot(r) : {e[1], e[2]} \subseteq G.node}]
  /\ UNCHANGED <<phase, graph, address, calls, tarjan, topological>>

EndCondense ==
  /\ phase = "condense" /\ condensation.node = DOMAIN components
  /\ phase' = "order"
  /\ UNCHANGED <<graph, address, calls, tarjan, condensation, topological>>

-----------------------------------------------------------------------------
(* topological_order *)

StartOrder == permanent = {} /\ temporary = {} /\ order = << >>

Visit(n, cs) ==
  /\ temporary' = temporary \cup {n}
  /\ calls' = Append(cs, [node |-> n, todo |-> Successors(condensation, n)])
  /\ UNCHANGED <<phase, graph, address, tarjan, condensation, permanent, order>>

ScanUnmarked ==
  /\ phase = "order" /\ calls = << >>
  /\ \E n \in First(condensation, permanent) : Visit(n, << >>)

\* An edge to a node with a temporary mark ends every call with false.
OrderEdge ==
  /\ phase = "order" /\ calls # << >>
  /\ \E m \in Top.todo :
       \/ /\ m \in permanent
          /\ calls' = Pending(m)
          /\ UNCHANGED <<phase, temporary>>
       \/ /\ m \in temporary
          /\ phase' = "cyclic" /\ calls' = << >>
          /\ UNCHANGED temporary
       \/ /\ m \notin permanent \cup temporary
          /\ temporary' = temporary \cup {m}
          /\ calls' = Append(Pending(m), [node |-> m, todo |-> Successors(condensation, m)])
          /\ UNCHANGED phase
  /\ UNCHANGED <<graph, address, tarjan, condensation, permanent, order>>

Mark ==
  /\ phase = "order" /\ calls # << >> /\ Top.todo = {}
  /\ temporary' = temporary \ {Top.node}
  /\ permanent' = permanent \cup {Top.node}
  /\ order' = Append(order, Top.node)
  /\ calls' = Front(calls)
  /\ UNCHANGED <<phase, graph, address, tarjan, condensation>>

\* Variant: the nodes in the order they were left.
EndOrderForward ==
  /\ phase = "order" /\ calls = << >> /\ permanent = condensation.node
  /\ phase' = "ordered"
  /\ UNCHANGED <<graph, address, calls, tarjan, condensation, topological>>

EndOrder ==
  /\ phase = "order" /\ calls = << >> /\ permanent = condensation.node
  /\ phase' = "ordered" /\ order' = Reverse(order)
  /\ UNCHANGED <<graph, address, calls, tarjan, condensation, permanent, temporary>>

GraphNext ==
  \/ ScanNode \/ TreeEdge \/ OtherEdge \/ Leave
  \/ BeginCondense \/ AddComponent \/ EndCondense
  \/ ScanUnmarked \/ OrderEdge \/ Mark \/ EndOrder

\* tarjan_scc and condense of one graph and the order of its condensation, or the
\* topological order of any graph.
GraphInit ==
  /\ StartTarjan /\ StartOrder /\ calls = << >>
  /\ IsDirectedGraph(graph) /\ IsDirectedGraph(condensation)
  /\ phase \in {"components", "order"}

GraphSpec == GraphInit /\ [][GraphNext]_graphVars

-----------------------------------------------------------------------------
(* Properties *)

\* tarjan_scc and topological_order: a node with an index is on the stack or was popped by
\* one root, the calls run are nodes of the stack, the marked ones those being visited.
GraphTypeOK ==
  /\ DOMAIN indices = DOMAIN lowlink /\ DOMAIN indices \subseteq graph.node
  /\ IsInjective(indices) /\ Range(indices) = 0 .. (index - 1)
  /\ IsInjective(stack) /\ Range(stack) \cap UNION Range(components) = {}
  /\ Range(stack) \cup UNION Range(components) = DOMAIN indices
  /\ phase = "components" => {calls[i].node : i \in DOMAIN calls} \subseteq Range(stack)
  /\ phase = "order" => {calls[i].node : i \in DOMAIN calls} = temporary
  /\ temporary \cap permanent = {} /\ permanent = Range(order)

\* The nodes that walks from n lead to: those of the least set with n that no edge leaves.
NoEdgeLeaves(S) == \A e \in graph.edge : e[1] \in S => e[2] \in S
ReachedFrom(n) ==
  {m \in graph.node :
     \A S \in SUBSET graph.node : n \in S /\ NoEdgeLeaves(S) => m \in S}

\* The nodes that n reaches and that reach n.
StronglyWith(n) == {m \in ReachedFrom(n) : n \in ReachedFrom(m)}

\* tarjan_scc: what a root popped is exactly its strongly connected component, whatever
\* the addresses and the order of the edges; a component never misses a node that was
\* popped with another one.
ComponentsAreStrong ==
  /\ \A r \in DOMAIN components : components[r] = StronglyWith(r)
  /\ phase \in {"condense", "order"} /\ components # << >> =>
       UNION Range(components) = graph.node

\* A set of nodes that no walk along the edges has to leave: where there is one, no order
\* has every edge forward.
Endless(G) == \E S \in SUBSET G.node \ {{}} : \A n \in S : Successors(G, n) \cap S # {}

\* topological_order: an order is returned only of an acyclic graph, has every node once
\* and every edge forward; no order, only where there is a cycle.
OrderIsTopological ==
  /\ phase = "ordered" =>
       /\ Range(order) = condensation.node /\ IsInjective(order)
       /\ \A e \in condensation.edge :
            \A i, j \in DOMAIN order : e = <<order[i], order[j]>> => i < j
  /\ phase = "cyclic" => Endless(condensation)
=============================================================================
