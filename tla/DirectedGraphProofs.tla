------------------------ MODULE DirectedGraphProofs ------------------------
(***************************************************************************)
(* For every directed graph: topological_order returns an order with every *)
(* edge forward, or finds a set of nodes that no walk has to leave; and    *)
(* so it is for the condensation.  tarjan_scc numbers every node once and  *)
(* takes it off its stack into one component, that of the nodes that reach *)
(* the root and that it reaches.                                           *)
(***************************************************************************)
EXTENDS DirectedGraph, FunctionTheorems, FiniteSetTheorems, SequenceTheorems, TLAPS

Frames == [node : condensation.node, todo : SUBSET condensation.node]

\* The nodes being visited are those of the calls, each once.
Visiting ==
  /\ calls \in Seq(Frames)
  /\ temporary = {calls[i].node : i \in DOMAIN calls}
  /\ \A i, j \in DOMAIN calls : calls[i].node = calls[j].node => i = j

\* The calls walk along edges, and what a call has done is finished or the next call.
Walking ==
  \A i \in DOMAIN calls :
    /\ calls[i].todo \subseteq Successors(condensation, calls[i].node)
    /\ i < Len(calls) => calls[i + 1].node \in Successors(condensation, calls[i].node)
    /\ \A m \in Successors(condensation, calls[i].node) \ calls[i].todo :
         m \in permanent \/ (i < Len(calls) /\ m = calls[i + 1].node)

\* The order so far is that of the permanent marks and has every edge backward.
Backward ==
  /\ order \in Seq(condensation.node)
  /\ IsInjective(order) /\ Range(order) = permanent
  /\ temporary \cap permanent = {}
  /\ \A j \in DOMAIN order : \A m \in Successors(condensation, order[j]) :
       \E i \in 1 .. (j - 1) : order[i] = m

Phases == {"components", "condense", "order", "ordered", "cyclic"}

GraphsOK ==
  /\ IsDirectedGraph(graph) /\ IsDirectedGraph(condensation)
  /\ phase \in Phases

NotStarted ==
  /\ phase \in {"components", "condense"} => StartOrder
  /\ phase = "condense" => calls = << >>

IInv ==
  /\ GraphsOK /\ NotStarted /\ OrderIsTopological
  /\ phase = "order" => Visiting /\ Walking /\ Backward

-----------------------------------------------------------------------------
(* Sequences of calls. *)

\* A call that is over leaves the ones below it.
LEMMA FrontOfCalls ==
  ASSUME NEW S, NEW s \in Seq(S), s # << >>
  PROVE  /\ Front(s) \in Seq(S) /\ Len(Front(s)) = Len(s) - 1
         /\ \A i \in 1 .. (Len(s) - 1) : Front(s)[i] = s[i]
<1> DEFINE k == Len(s) - 1
<1>1. 1 \in Int /\ k \in Nat /\ k \in Int /\ \A i \in 1 .. k : s[i] \in S
  BY EmptySeq, LenProperties
<1>2. Front(s) = SubSeq(s, 1, k)
  BY DEF Front
<1> HIDE DEF k
<1>3. /\ SubSeq(s, 1, k) \in Seq(S)
      /\ Len(SubSeq(s, 1, k)) = k
      /\ \A i \in 1 .. k : SubSeq(s, 1, k)[i] = s[i]
  BY <1>1, SMTT(20)
<1> QED
  BY <1>2, <1>3 DEF k

\* A call without one of its edges.
LEMMA WithoutEdge ==
  ASSUME NEW N, NEW T, NEW f \in [node : N, todo : T], NEW m
  PROVE  [f EXCEPT !.todo = @ \ {m}] = [node |-> f.node, todo |-> f.todo \ {m}]
  OBVIOUS

\* An edge that is followed leaves the other edges and the other calls.
LEMMA PendingCalls ==
  ASSUME NEW m, NEW N, calls \in Seq([node : N, todo : SUBSET N]), calls # << >>
  PROVE  /\ Pending(m) \in Seq([node : N, todo : SUBSET N]) /\ Len(Pending(m)) = Len(calls)
         /\ \A i \in DOMAIN calls : Pending(m)[i].node = calls[i].node
         /\ \A i \in 1 .. (Len(calls) - 1) : Pending(m)[i] = calls[i]
         /\ Pending(m)[Len(calls)].todo = Top.todo \ {m}
<1> DEFINE F == [node : N, todo : SUBSET N]
<1>0. calls \in Seq(F)
  OBVIOUS
<1> HIDE DEF F
<1>1. Len(calls) \in DOMAIN calls /\ DOMAIN calls = 1 .. Len(calls) /\ Len(calls) \in Nat
  BY <1>0, EmptySeq, LenProperties
<1>2. \A i \in DOMAIN calls : calls[i] \in F
  BY <1>0, <1>1
<1> DEFINE last == calls[Len(calls)]
<1>a. last \in F
  BY <1>1, <1>2
<1>b. [last EXCEPT !.todo = @ \ {m}] = [node |-> last.node, todo |-> last.todo \ {m}]
  BY <1>a, WithoutEdge, Zenon DEF F
<1>c. Pending(m) = [calls EXCEPT ![Len(calls)] = [last EXCEPT !.todo = @ \ {m}]]
  BY DEF Pending
<1>3. Pending(m) = [i \in DOMAIN calls |->
        IF i = Len(calls) THEN [node |-> calls[i].node, todo |-> calls[i].todo \ {m}] ELSE calls[i]]
  BY <1>1, <1>b, <1>c
<1> HIDE DEF last
<1>4. \A i \in DOMAIN calls : Pending(m)[i] \in F
  BY <1>1, <1>2, <1>3 DEF F
<1>5. Pending(m) \in Seq(F) /\ Len(Pending(m)) = Len(calls)
  BY <1>1, <1>3, <1>4
<1>6. Top = calls[Len(calls)]
  BY DEF Top, Last
<1>7. /\ \A i \in DOMAIN calls : Pending(m)[i].node = calls[i].node
      /\ Pending(m)[Len(calls)].todo = calls[Len(calls)].todo \ {m}
  BY <1>1, <1>3
<1>8. \A i \in 1 .. (Len(calls) - 1) : Pending(m)[i] = calls[i]
  BY <1>1, <1>3
<1> QED
  BY <1>5, <1>6, <1>7, <1>8 DEF F

-----------------------------------------------------------------------------

\* graph_lite: what the machines start from are graphs.
LEMMA Starts == GraphInit => IInv
<1> SUFFICES ASSUME GraphInit PROVE IInv
  OBVIOUS
<1>1. GraphsOK /\ NotStarted /\ OrderIsTopological
  BY DEF GraphInit, GraphsOK, NotStarted, OrderIsTopological, Phases
<1>2. calls = << >> /\ temporary = {} /\ permanent = {} /\ order = << >>
  BY DEF GraphInit, StartOrder
<1>3. Visiting
  BY <1>2 DEF Visiting
<1>4. Walking /\ Backward
  BY <1>2 DEF Walking, Backward, IsInjective, Range
<1> QED
  BY <1>1, <1>3, <1>4 DEF IInv

\* tarjan_scc keeps the graph and leaves the order alone.
LEMMA ComponentsKeep == IInv /\ (ScanNode \/ TreeEdge \/ OtherEdge \/ Leave) => IInv'
<1> SUFFICES ASSUME IInv, ScanNode \/ TreeEdge \/ OtherEdge \/ Leave PROVE IInv'
  OBVIOUS
<1>1. phase = "components" /\ UNCHANGED <<phase, graph, condensation, topological>>
  BY DEF ScanNode, TreeEdge, OtherEdge, Leave, Enter
<1>2. GraphsOK' /\ NotStarted' /\ OrderIsTopological'
  BY <1>1 DEF IInv, GraphsOK, NotStarted, OrderIsTopological, StartOrder, topological
<1> QED
  BY <1>1, <1>2 DEF IInv

\* condense makes a directed graph, of the roots and edges between them.
LEMMA CondenseKeeps == IInv /\ (BeginCondense \/ AddComponent) => IInv'
<1> SUFFICES ASSUME IInv, BeginCondense \/ AddComponent PROVE IInv'
  OBVIOUS
<1>1. UNCHANGED <<graph, calls, topological>> /\ StartOrder /\ calls = << >> /\ phase' = "condense"
  BY DEF BeginCondense, AddComponent, IInv, NotStarted
<1>2. IsDirectedGraph(condensation')
  <2>1. CASE BeginCondense
    BY <2>1 DEF BeginCondense, IsDirectedGraph, NoGraph
  <2>2. CASE AddComponent
    <3>1. PICK r : condensation' = [AddNode(condensation, r) EXCEPT !.edge =
                      @ \cup {e \in EdgesOfRoot(r) : {e[1], e[2]} \subseteq AddNode(condensation, r).node}]
      BY <2>2 DEF AddComponent
    <3> DEFINE nodes == condensation.node \cup {r}
               edges == condensation.edge \cup {e \in EdgesOfRoot(r) : {e[1], e[2]} \subseteq nodes}
    <3>2. condensation = [node |-> condensation.node, edge |-> condensation.edge]
      BY DEF IInv, GraphsOK, IsDirectedGraph
    <3>3. AddNode(condensation, r) = [node |-> nodes, edge |-> condensation.edge]
      BY <3>2 DEF AddNode
    <3>a. /\ AddNode(condensation, r).node = nodes
          /\ [AddNode(condensation, r) EXCEPT !.edge =
               @ \cup {e \in EdgesOfRoot(r) : {e[1], e[2]} \subseteq nodes}]
             = [node |-> nodes, edge |-> edges]
      BY <3>3
    <3>4. condensation' = [node |-> nodes, edge |-> edges]
      BY <3>1, <3>a
    <3>5. \A e \in EdgesOfRoot(r) : e = <<e[1], e[2]>>
      BY DEF EdgesOfRoot, IInv, GraphsOK, IsDirectedGraph
    <3>6. edges \subseteq nodes \X nodes
      BY <3>5 DEF IInv, GraphsOK, IsDirectedGraph
    <3> HIDE DEF nodes, edges
    <3> QED
      BY <3>4, <3>6 DEF IsDirectedGraph
  <2> QED
    BY <2>1, <2>2
<1>3. GraphsOK'
  BY <1>1, <1>2 DEF IInv, GraphsOK, Phases
<1>4. NotStarted' /\ OrderIsTopological'
  BY <1>1 DEF NotStarted, OrderIsTopological, StartOrder, topological
<1> QED
  BY <1>1, <1>3, <1>4 DEF IInv

\* The order begins with nothing marked.
LEMMA EndCondenseKeeps == IInv /\ EndCondense => IInv'
<1> SUFFICES ASSUME IInv, EndCondense PROVE IInv'
  OBVIOUS
<1>1. /\ calls' = << >> /\ temporary' = {} /\ permanent' = {} /\ order' = << >>
      /\ phase' = "order" /\ UNCHANGED <<graph, condensation>>
  BY DEF EndCondense, IInv, NotStarted, StartOrder, topological
<1>2. GraphsOK' /\ NotStarted' /\ OrderIsTopological'
  BY <1>1 DEF IInv, GraphsOK, NotStarted, OrderIsTopological, Phases
<1>3. Visiting'
  BY <1>1 DEF Visiting
<1>4. Walking' /\ Backward'
  BY <1>1 DEF Walking, Backward, IsInjective, Range
<1> QED
  BY <1>2, <1>3, <1>4 DEF IInv

\* The steps within an order only have to keep the three facts about it.
LEMMA WithinOrder ==
  ASSUME IInv, phase' = "order", UNCHANGED <<graph, condensation>>, Visiting', Walking', Backward'
  PROVE  IInv'
<1>1. GraphsOK' /\ NotStarted' /\ OrderIsTopological'
  BY DEF IInv, GraphsOK, NotStarted, OrderIsTopological, Phases
<1> QED
  BY <1>1 DEF IInv

\* topological_order: a visit from the loop over all nodes.
LEMMA ScanUnmarkedKeeps == IInv /\ ScanUnmarked => IInv'
<1> SUFFICES ASSUME IInv, ScanUnmarked PROVE IInv'
  OBVIOUS
<1>1. PICK n \in First(condensation, permanent) : Visit(n, << >>)
  BY DEF ScanUnmarked
<1> DEFINE frame == [node |-> n, todo |-> Successors(condensation, n)]
<1>2. n \in condensation.node \ permanent
  BY DEF First
<1>3. Visiting /\ Walking /\ Backward /\ calls = << >> /\ phase = "order"
  BY DEF IInv, ScanUnmarked
<1>4. frame \in Frames
  BY <1>2 DEF Frames, Successors
<1>5. /\ calls' = <<frame>> /\ temporary' = temporary \cup {n}
      /\ UNCHANGED <<phase, graph, condensation, permanent, order>>
  BY <1>1 DEF Visit
<1>6. temporary' = {n}
  BY <1>3, <1>5 DEF Visiting
<1>7. calls' \in Seq(Frames') /\ Len(calls') = 1 /\ calls'[1] = frame /\ DOMAIN calls' = {1}
  BY <1>4, <1>5 DEF Frames
<1>8. Visiting'
  BY <1>6, <1>7 DEF Visiting
<1>9. Walking'
  BY <1>5, <1>7 DEF Walking
<1>10. Backward'
  BY <1>2, <1>3, <1>5, <1>6 DEF Backward
<1> QED
  BY <1>3, <1>5, <1>8, <1>9, <1>10, WithinOrder

\* topological_order: an edge to a node that is done, being visited, or new.
LEMMA OrderEdgeKeeps == IInv /\ OrderEdge => IInv'
<1> SUFFICES ASSUME IInv, OrderEdge PROVE IInv'
  OBVIOUS
<1> DEFINE n == Len(calls)
<1>1. Visiting /\ Walking /\ Backward /\ calls # << >> /\ phase = "order"
  BY DEF IInv, OrderEdge
<1>2. /\ n \in DOMAIN calls /\ DOMAIN calls = 1 .. n /\ n \in Nat /\ Top = calls[n]
      /\ \A i \in DOMAIN calls : calls[i] \in Frames
  BY <1>1, EmptySeq, LenProperties DEF Visiting, Top, Last
<1>3. UNCHANGED <<graph, condensation, permanent, order>>
  BY DEF OrderEdge
<1>4. PICK m \in Top.todo :
        \/ m \in permanent /\ calls' = Pending(m) /\ UNCHANGED <<phase, temporary>>
        \/ m \in temporary /\ phase' = "cyclic" /\ calls' = << >> /\ UNCHANGED temporary
        \/ /\ m \notin permanent \cup temporary
           /\ temporary' = temporary \cup {m}
           /\ calls' = Append(Pending(m), [node |-> m, todo |-> Successors(condensation, m)])
           /\ UNCHANGED phase
  BY DEF OrderEdge
<1>5. m \in condensation.node /\ m \in Successors(condensation, calls[n].node)
  BY <1>1, <1>2 DEF Walking, Frames, Successors
<1>6. /\ Pending(m) \in Seq(Frames) /\ Len(Pending(m)) = n
      /\ \A i \in DOMAIN calls : Pending(m)[i].node = calls[i].node
      /\ \A i \in 1 .. (n - 1) : Pending(m)[i] = calls[i]
      /\ Pending(m)[n].todo = calls[n].todo \ {m}
  BY <1>1, <1>2, PendingCalls DEF Visiting, Frames
<1>7. Frames' = Frames
  BY <1>3 DEF Frames
<1>8. CASE m \in permanent /\ calls' = Pending(m) /\ UNCHANGED <<phase, temporary>>
  <2>1. DOMAIN calls' = 1 .. n /\ Len(calls') = n
    BY <1>6, <1>8
  <2>2. Visiting'
    BY <1>1, <1>2, <1>6, <1>7, <1>8, <2>1 DEF Visiting
  <2>3. Walking'
    BY <1>1, <1>2, <1>3, <1>6, <1>8, <2>1 DEF Walking
  <2>4. Backward'
    BY <1>1, <1>3, <1>8 DEF Backward
  <2> QED
    BY <1>1, <1>3, <1>8, <2>2, <2>3, <2>4, WithinOrder
<1>9. CASE m \in temporary /\ phase' = "cyclic" /\ calls' = << >> /\ UNCHANGED temporary
  <2>1. temporary \subseteq condensation.node
    BY <1>1, <1>2 DEF Visiting, Frames
  <2>2. \A x \in temporary : Successors(condensation, x) \cap temporary # {}
    <3> SUFFICES ASSUME NEW x \in temporary
                 PROVE  Successors(condensation, x) \cap temporary # {}
      OBVIOUS
    <3>1. PICK i \in DOMAIN calls : x = calls[i].node
      BY <1>1 DEF Visiting
    <3>2. CASE i = n
      BY <1>5, <1>9, <3>1, <3>2
    <3>3. CASE i # n
      <4>1. i + 1 \in DOMAIN calls /\ i < n
        BY <1>2, <3>3
      <4>2. calls[i + 1].node \in Successors(condensation, x)
        BY <1>1, <3>1, <4>1 DEF Walking
      <4> QED
        BY <1>1, <4>1, <4>2 DEF Visiting
    <3> QED
      BY <3>2, <3>3
  <2>3. Endless(condensation)
    BY <1>9, <2>1, <2>2 DEF Endless
  <2>4. Endless(condensation)'
    BY <1>3, <2>3
  <2>5. OrderIsTopological'
    BY <1>9, <2>4 DEF OrderIsTopological
  <2>6. GraphsOK' /\ NotStarted'
    BY <1>3, <1>9 DEF IInv, GraphsOK, NotStarted, Phases
  <2> QED
    BY <1>9, <2>5, <2>6 DEF IInv
<1>10. CASE /\ m \notin permanent \cup temporary
            /\ temporary' = temporary \cup {m}
            /\ calls' = Append(Pending(m), [node |-> m, todo |-> Successors(condensation, m)])
            /\ UNCHANGED phase
  <2> DEFINE frame == [node |-> m, todo |-> Successors(condensation, m)]
  <2>1. frame \in Frames
    BY <1>5 DEF Frames, Successors
  <2>2. /\ calls' \in Seq(Frames) /\ Len(calls') = n + 1 /\ calls'[n + 1] = frame
        /\ \A i \in 1 .. n : calls'[i] = Pending(m)[i]
        /\ DOMAIN calls' = 1 .. (n + 1)
    BY <1>6, <1>10, <2>1, AppendProperties, LenProperties
  <2>3. \A i \in 1 .. n : calls'[i].node = calls[i].node
    BY <1>2, <1>6, <2>2
  <2>4. \A i \in 1 .. n : calls[i].node # m
    BY <1>1, <1>2, <1>10 DEF Visiting
  <2>5. calls'[n + 1].node = m /\ calls'[n + 1].todo = Successors(condensation, m)
    BY <2>2
  <2> HIDE DEF frame
  <2>6. Visiting'
    <3>1. temporary' = {calls'[i].node : i \in DOMAIN calls'}
      <4>1. temporary = {calls[i].node : i \in 1 .. n}
        BY <1>1, <1>2 DEF Visiting
      <4>2. 1 .. (n + 1) = 1 .. n \cup {n + 1}
        BY <1>2
      <4>3. {calls'[i].node : i \in 1 .. n} = {calls[i].node : i \in 1 .. n}
        BY <2>3
      <4>4. {calls'[i].node : i \in 1 .. n \cup {n + 1}} = {calls'[i].node : i \in 1 .. n} \cup {m}
        BY <2>5
      <4> QED
        BY <1>10, <2>2, <4>1, <4>2, <4>3, <4>4
    <3>2. \A i, j \in DOMAIN calls' : calls'[i].node = calls'[j].node => i = j
      BY <1>1, <1>2, <2>2, <2>3, <2>4, <2>5 DEF Visiting
    <3> QED
      BY <1>7, <2>2, <3>1, <3>2 DEF Visiting
  <2>7. Walking'
    <3> SUFFICES ASSUME NEW i \in 1 .. (n + 1)
                 PROVE  /\ calls'[i].todo \subseteq Successors(condensation, calls'[i].node)
                        /\ i < n + 1 => calls'[i + 1].node \in Successors(condensation, calls'[i].node)
                        /\ \A x \in Successors(condensation, calls'[i].node) \ calls'[i].todo :
                             x \in permanent \/ (i < n + 1 /\ x = calls'[i + 1].node)
      BY <1>3, <2>2 DEF Walking
    <3>1. CASE i = n + 1
      BY <1>2, <2>5, <3>1
    <3>2. CASE i = n
      <4>1. /\ calls'[n].node = calls[n].node /\ calls'[n].todo = calls[n].todo \ {m}
            /\ calls'[n + 1].node = m
        BY <1>2, <1>6, <2>2, <2>3, <2>5
      <4>2. /\ calls[n].todo \subseteq Successors(condensation, calls[n].node)
            /\ \A y \in Successors(condensation, calls[n].node) \ calls[n].todo : y \in permanent
        BY <1>1, <1>2 DEF Walking
      <4>3. n < n + 1
        BY <1>2
      <4> QED
        BY <1>5, <3>2, <4>1, <4>2, <4>3
    <3>3. CASE i < n
      <4>1. i \in 1 .. (n - 1) /\ i + 1 \in 1 .. n /\ i \in DOMAIN calls
        BY <1>2, <3>3
      <4>2. calls'[i] = calls[i] /\ calls'[i + 1].node = calls[i + 1].node
        BY <1>2, <1>6, <2>2, <2>3, <4>1
      <4>3. /\ calls[i].todo \subseteq Successors(condensation, calls[i].node)
            /\ calls[i + 1].node \in Successors(condensation, calls[i].node)
            /\ \A x \in Successors(condensation, calls[i].node) \ calls[i].todo :
                 x \in permanent \/ x = calls[i + 1].node
        BY <1>1, <3>3, <4>1 DEF Walking
      <4>4. i < n + 1
        BY <1>2, <3>3
      <4> QED
        BY <4>2, <4>3, <4>4
    <3>4. i = n + 1 \/ i = n \/ i < n
      <4>1. n \in Nat
        BY <1>2
      <4> HIDE DEF n
      <4> QED
        BY <4>1
    <3> QED
      BY <3>1, <3>2, <3>3, <3>4
  <2>8. Backward'
    BY <1>1, <1>3, <1>10 DEF Backward
  <2> QED
    BY <1>1, <1>3, <1>10, <2>6, <2>7, <2>8, WithinOrder
<1> QED
  BY <1>4, <1>8, <1>9, <1>10

\* topological_order: the end of a visit; its successors are all in the order.
LEMMA MarkKeeps == IInv /\ Mark => IInv'
<1> SUFFICES ASSUME IInv, Mark PROVE IInv'
  OBVIOUS
<1> DEFINE n == Len(calls)
           x == calls[n].node
<1>1. Visiting /\ Walking /\ Backward /\ calls # << >> /\ phase = "order"
  BY DEF IInv, Mark
<1>2. /\ n \in DOMAIN calls /\ DOMAIN calls = 1 .. n /\ n \in Nat /\ Top = calls[n]
      /\ \A i \in DOMAIN calls : calls[i] \in Frames
  BY <1>1, EmptySeq, LenProperties DEF Visiting, Top, Last
<1>3. /\ temporary' = temporary \ {x} /\ permanent' = permanent \cup {x}
      /\ order' = Append(order, x) /\ calls' = Front(calls) /\ calls[n].todo = {}
      /\ UNCHANGED <<phase, graph, condensation>>
  BY <1>2 DEF Mark
<1>4. x \in condensation.node /\ x \in temporary /\ x \notin permanent
  BY <1>1, <1>2 DEF Visiting, Frames, Backward
<1>5. Successors(condensation, x) \subseteq permanent
  BY <1>1, <1>2, <1>3 DEF Walking
<1>6. /\ calls' \in Seq(Frames) /\ Len(calls') = n - 1 /\ DOMAIN calls' = 1 .. (n - 1)
      /\ \A i \in 1 .. (n - 1) : calls'[i] = calls[i]
  BY <1>1, <1>3, FrontOfCalls, LenProperties DEF Visiting
<1> HIDE DEF x
<1>7. Visiting'
  <2>1. temporary' = {calls'[i].node : i \in DOMAIN calls'}
    <3>1. \A i \in 1 .. (n - 1) : calls[i].node # x
      BY <1>1, <1>2 DEF Visiting, x
    <3>2. temporary = {calls[i].node : i \in 1 .. (n - 1)} \cup {x}
      BY <1>1, <1>2 DEF Visiting, x
    <3>3. temporary' = {calls[i].node : i \in 1 .. (n - 1)}
      BY <1>3, <3>1, <3>2
    <3> QED
      BY <1>6, <3>3
  <2>2. Frames' = Frames
    BY <1>3 DEF Frames
  <2> QED
    BY <1>1, <1>2, <1>6, <2>1, <2>2 DEF Visiting
<1>8. Walking'
  <2> SUFFICES ASSUME NEW i \in 1 .. (n - 1)
               PROVE  /\ calls[i].todo \subseteq Successors(condensation, calls[i].node)
                      /\ i < n - 1 => calls'[i + 1].node \in Successors(condensation, calls[i].node)
                      /\ \A m \in Successors(condensation, calls[i].node) \ calls[i].todo :
                           m \in permanent' \/ (i < n - 1 /\ m = calls'[i + 1].node)
    BY <1>3, <1>6 DEF Walking
  <2>1. i \in DOMAIN calls /\ i < n
    BY <1>2
  <2>2. i < n - 1 => calls'[i + 1] = calls[i + 1]
    BY <1>2, <1>6
  <2>3. i = n - 1 => calls[i + 1].node \in permanent'
    BY <1>2, <1>3 DEF x
  <2> QED
    BY <1>1, <1>2, <1>3, <2>1, <2>2, <2>3 DEF Walking
<1>9. Backward'
  <2>1. /\ order' \in Seq(condensation.node) /\ Len(order') = Len(order) + 1
        /\ \A i \in 1 .. Len(order) : order'[i] = order[i]
        /\ order'[Len(order) + 1] = x
    BY <1>1, <1>3, <1>4, AppendProperties DEF Backward
  <2>2. /\ Len(order) \in Nat /\ DOMAIN order = 1 .. Len(order)
        /\ DOMAIN order' = 1 .. (Len(order) + 1)
    BY <1>1, <2>1, LenProperties DEF Backward
  <2>3. \A i \in 1 .. Len(order) : order[i] \in permanent
    BY <1>1, <2>2 DEF Backward, Range
  <2>4. IsInjective(order')
    BY <1>1, <1>4, <2>1, <2>2, <2>3 DEF Backward, IsInjective
  <2>5. Range(order') = permanent'
    BY <1>1, <1>3, <2>1, <2>2 DEF Backward, Range
  <2>6. \A j \in DOMAIN order' : \A m \in Successors(condensation, order'[j]) :
          \E i \in 1 .. (j - 1) : order'[i] = m
    <3> SUFFICES ASSUME NEW j \in 1 .. (Len(order) + 1), NEW m \in Successors(condensation, order'[j])
                 PROVE  \E i \in 1 .. (j - 1) : order'[i] = m
      BY <2>2
    <3>1. CASE j = Len(order) + 1
      <4>1. PICK i \in DOMAIN order : order[i] = m
        BY <1>1, <1>5, <2>1, <3>1 DEF Backward, Range
      <4> QED
        BY <2>1, <2>2, <3>1, <4>1
    <3>2. CASE j # Len(order) + 1
      <4>1. j \in DOMAIN order /\ order'[j] = order[j]
        BY <2>1, <2>2, <3>2
      <4>2. PICK i \in 1 .. (j - 1) : order[i] = m
        BY <1>1, <4>1 DEF Backward
      <4> QED
        BY <2>1, <2>2, <4>1, <4>2
    <3> QED
      BY <3>1, <3>2
  <2> QED
    BY <1>1, <1>3, <2>1, <2>4, <2>5, <2>6 DEF Backward
<1> QED
  BY <1>1, <1>3, <1>7, <1>8, <1>9, WithinOrder

\* topological_order: the reverse of the order in which the visits ended.
LEMMA EndOrderKeeps == IInv /\ EndOrder => IInv'
<1> SUFFICES ASSUME IInv, EndOrder PROVE IInv'
  OBVIOUS
<1> DEFINE n == Len(order)
<1>1. Backward /\ permanent = condensation.node
  BY DEF IInv, EndOrder
<1>2. phase' = "ordered" /\ order' = Reverse(order) /\ UNCHANGED <<graph, condensation>>
  BY DEF EndOrder
<1>3. n \in Nat /\ DOMAIN order = 1 .. n
  BY <1>1, LenProperties DEF Backward
<1>4. order' = [i \in 1 .. n |-> order[(n - i) + 1]]
  BY <1>2 DEF Reverse
<1>5. DOMAIN order' = 1 .. n /\ \A i \in 1 .. n : order'[i] = order[n - i + 1] /\ n - i + 1 \in 1 .. n
  BY <1>3, <1>4
<1>6. IsInjective(order')
  BY <1>1, <1>3, <1>5 DEF Backward, IsInjective
<1>7. Range(order') = condensation.node
  <2>1. \A i \in 1 .. n : n - i + 1 \in 1 .. n /\ order'[n - i + 1] = order[i]
    <3>1. ASSUME NEW i \in 1 .. n PROVE n - i + 1 \in 1 .. n /\ n - (n - i + 1) + 1 = i
      BY <1>3
    <3> QED
      BY <1>5, <3>1
  <2>2. condensation.node = {order[i] : i \in 1 .. n}
    BY <1>1, <1>3 DEF Backward, Range
  <2>3. Range(order') = {order'[i] : i \in 1 .. n}
    BY <1>5 DEF Range
  <2>4. \A i \in 1 .. n : order'[i] \in {order[j] : j \in 1 .. n}
    BY <1>5
  <2>5. \A i \in 1 .. n : order[i] \in {order'[j] : j \in 1 .. n}
    BY <2>1
  <2> QED
    BY <2>2, <2>3, <2>4, <2>5
<1>8. ASSUME NEW i \in 1 .. n, NEW j \in 1 .. n, <<order'[i], order'[j]>> \in condensation.edge
      PROVE  i < j
  <2>1. order[n - i + 1] = order'[i] /\ order[n - j + 1] = order'[j]
    BY <1>5
  <2>2. order'[j] \in Successors(condensation, order[n - i + 1])
    BY <1>5, <1>7, <1>8, <2>1 DEF Successors, Range
  <2>3. n - i + 1 \in 1 .. n /\ n - j + 1 \in 1 .. n
    BY <1>5
  <2>4. PICK k \in 1 .. (n - i) : order[k] = order'[j]
    BY <1>1, <1>3, <2>2, <2>3 DEF Backward
  <2>5. k = n - j + 1
    BY <1>1, <1>3, <2>1, <2>3, <2>4 DEF Backward, IsInjective
  <2> QED
    BY <1>3, <2>4, <2>5
<1>9. OrderIsTopological'
  BY <1>2, <1>5, <1>6, <1>7, <1>8 DEF OrderIsTopological
<1>10. GraphsOK' /\ NotStarted'
  BY <1>2 DEF IInv, GraphsOK, NotStarted, Phases
<1> QED
  BY <1>2, <1>9, <1>10 DEF IInv

-----------------------------------------------------------------------------

\* Graph.hpp: from every directed graph, in every order of nodes and edges, the machines
\* keep what is said of them.
THEOREM Inductive == GraphSpec => []IInv
<1>1. GraphInit => IInv
  BY Starts
<1>2. IInv /\ [GraphNext]_graphVars => IInv'
  <2> SUFFICES ASSUME IInv, [GraphNext]_graphVars PROVE IInv'
    OBVIOUS
  <2>1. CASE UNCHANGED graphVars
    <3>1. UNCHANGED <<phase, graph, calls, condensation, permanent, temporary, order>>
      BY <2>1 DEF graphVars, topological
    <3>2. GraphsOK' /\ NotStarted' /\ OrderIsTopological'
      BY <3>1 DEF IInv, GraphsOK, NotStarted, StartOrder, OrderIsTopological
    <3>3. Visiting' = Visiting /\ Walking' = Walking /\ Backward' = Backward
      BY <3>1 DEF Visiting, Walking, Backward, Frames
    <3> QED
      BY <3>1, <3>2, <3>3 DEF IInv
  <2>2. CASE GraphNext
    BY <2>2, ComponentsKeep, CondenseKeeps, EndCondenseKeeps, ScanUnmarkedKeeps,
       OrderEdgeKeeps, MarkKeeps, EndOrderKeeps DEF GraphNext
  <2> QED
    BY <2>1, <2>2
<1> QED
  BY <1>1, <1>2, PTL DEF GraphSpec

-----------------------------------------------------------------------------
(* The numbers, the stack and the components. *)

\* Every numbered node is on the stack, once, or in a component.
Stacked ==
  /\ stack \in Seq(graph.node) /\ IsInjective(stack)
  /\ index \in Nat /\ Range(indices) = 0 .. (index - 1) /\ IsInjective(indices)
  /\ DOMAIN lowlink = DOMAIN indices /\ DOMAIN indices \subseteq graph.node
  /\ Range(stack) \cap UNION Range(components) = {}
  /\ Range(stack) \cup UNION Range(components) = DOMAIN indices
  /\ \A r \in DOMAIN components : r \in components[r]

CallFrames == [node : graph.node, todo : SUBSET graph.node]

\* The calls are nodes of the stack, in its order.
CallsOn(cs, st) ==
  /\ cs \in Seq(CallFrames)
  /\ \A i \in DOMAIN cs : \E a \in DOMAIN st : st[a] = cs[i].node
  /\ \A i, j \in DOMAIN cs : \A a, b \in DOMAIN st :
       i < j /\ st[a] = cs[i].node /\ st[b] = cs[j].node => a < b

Marked == temporary \cap permanent = {} /\ permanent = Range(order)

SInv == Stacked /\ Marked /\ (phase = "components" => CallsOn(calls, stack))

\* What is left of a stack that is popped.
LEMMA Left ==
  ASSUME NEW S, NEW s \in Seq(S), NEW p \in DOMAIN s
  PROVE  /\ SubSeq(s, 1, p - 1) \in Seq(S) /\ DOMAIN SubSeq(s, 1, p - 1) = 1 .. (p - 1)
         /\ \A i \in 1 .. (p - 1) : SubSeq(s, 1, p - 1)[i] = s[i]
<1> DEFINE k == p - 1
<1>1. k \in Nat /\ \A i \in 1 .. k : s[i] \in S
  BY LenProperties
<1> HIDE DEF k
<1>2. /\ SubSeq(s, 1, k) \in Seq(S) /\ Len(SubSeq(s, 1, k)) = k
      /\ \A i \in 1 .. k : SubSeq(s, 1, k)[i] = s[i]
  BY <1>1, SMTT(20)
<1> QED
  BY <1>2, LenProperties DEF k

\* What lies on a stack from where x lies.
From(s, x) == {s[i] : i \in {j \in 1 .. Len(s) : \E k \in 1 .. j : s[k] = x}}

\* What is popped is the stack from the root on, as many as that.
LEMMA Popping ==
  ASSUME NEW S, NEW s \in Seq(S), IsInjective(s), NEW p \in DOMAIN s
  PROVE  /\ From(s, s[p]) = {s[i] : i \in p .. Len(s)}
         /\ Cardinality(From(s, s[p])) = Len(s) - p + 1
<1> DEFINE n == Len(s) - p + 1
           P == From(s, s[p])
           F == [i \in 1 .. n |-> s[p + i - 1]]
<1>1. DOMAIN s = 1 .. Len(s) /\ Len(s) \in Nat /\ p \in 1 .. Len(s) /\ n \in Nat
  BY LenProperties
<1>2. \A k \in DOMAIN s : s[k] = s[p] => k = p
  BY DEF IsInjective
<1>3. {j \in 1 .. Len(s) : \E k \in 1 .. j : s[k] = s[p]} = p .. Len(s)
  BY <1>1, <1>2
<1>4. P = {s[i] : i \in p .. Len(s)}
  BY <1>3 DEF From
<1> HIDE DEF P
<1>5. F \in [1 .. n -> P]
  <2>1. \A i \in 1 .. n : p + i - 1 \in p .. Len(s)
    BY <1>1
  <2>2. \A i \in 1 .. n : s[p + i - 1] \in P
    BY <1>4, <2>1
  <2> QED
    BY <2>2
<1>6. \A a, b \in 1 .. n : F[a] = F[b] => a = b
  <2> SUFFICES ASSUME NEW a \in 1 .. n, NEW b \in 1 .. n, s[p + a - 1] = s[p + b - 1]
               PROVE  a = b
    OBVIOUS
  <2>1. p + a - 1 \in DOMAIN s /\ p + b - 1 \in DOMAIN s
    BY <1>1
  <2>2. p + a - 1 = p + b - 1
    BY <2>1 DEF IsInjective
  <2> QED
    BY <1>1, <2>2
<1>7. \A x \in P : \E i \in 1 .. n : F[i] = x
  <2>1. ASSUME NEW i \in p .. Len(s) PROVE \E j \in 1 .. n : F[j] = s[i]
    <3>1. i - p + 1 \in 1 .. n /\ p + (i - p + 1) - 1 = i
      BY <1>1
    <3>2. F[i - p + 1] = s[i]
      BY <3>1
    <3> QED
      BY <3>1, <3>2
  <2> HIDE DEF F, n
  <2> QED
    BY <1>4, <2>1
<1> HIDE DEF F, n
<1>8. F \in Bijection(1 .. n, P)
  BY <1>5, <1>6, <1>7, Fun_IsBij
<1>9. Cardinality(P) = n
  BY <1>1, <1>8, FS_CountingElements, Fun_ExistsBij
<1> QED
  BY <1>4, <1>9 DEF n, P

\* tarjan_scc_helper is called: its node gets the next number and the top of the stack.
LEMMA EnterKeeps ==
  ASSUME SInv, phase = "components", NEW n \in graph.node \ DOMAIN indices,
         NEW cs, CallsOn(cs, stack), Enter(n, cs)
  PROVE  SInv'
<1>1. /\ indices' = With(indices, n, index) /\ lowlink' = With(lowlink, n, index)
      /\ index' = index + 1 /\ stack' = Append(stack, n) /\ calls' = Append(cs, Frame(n))
      /\ UNCHANGED <<phase, graph, components, topological>>
  BY DEF Enter
<1>2. Stacked /\ Marked
  BY DEF SInv
<1>3. /\ Len(stack) \in Nat /\ DOMAIN stack = 1 .. Len(stack)
      /\ Len(cs) \in Nat /\ DOMAIN cs = 1 .. Len(cs)
  BY <1>2, LenProperties DEF Stacked, CallsOn
<1>4. /\ stack' \in Seq(graph.node) /\ DOMAIN stack' = 1 .. (Len(stack) + 1)
      /\ \A i \in 1 .. Len(stack) : stack'[i] = stack[i]
      /\ stack'[Len(stack) + 1] = n
  BY <1>1, <1>2, AppendProperties, LenProperties DEF Stacked
<1>5. n \notin Range(stack) /\ \A i \in 1 .. Len(stack) : stack[i] # n
  BY <1>2, <1>3 DEF Stacked, Range
<1>6. Range(stack') = Range(stack) \cup {n}
  BY <1>3, <1>4 DEF Range
<1>7. IsInjective(stack')
  BY <1>2, <1>3, <1>4, <1>5 DEF Stacked, IsInjective
<1>8. /\ DOMAIN indices' = DOMAIN indices \cup {n} /\ DOMAIN lowlink' = DOMAIN indices \cup {n}
      /\ indices'[n] = index /\ \A z \in DOMAIN indices : indices'[z] = indices[z]
  BY <1>1, <1>2 DEF With, Stacked
<1>9. Range(indices') = 0 .. (index' - 1)
  <2>1. Range(indices') = Range(indices) \cup {index}
    BY <1>8 DEF Range
  <2>2. index \in Nat /\ Range(indices) = 0 .. (index - 1)
    BY <1>2 DEF Stacked
  <2> QED
    BY <1>1, <2>1, <2>2
<1>10. IsInjective(indices')
  <2>1. \A z \in DOMAIN indices : indices[z] \in 0 .. (index - 1)
    BY <1>2 DEF Stacked, Range
  <2>2. \A z \in DOMAIN indices : indices[z] # index
    BY <1>2, <2>1 DEF Stacked
  <2> QED
    BY <1>2, <1>8, <2>2 DEF Stacked, IsInjective
<1>11. Stacked'
  <2>1. index' \in Nat
    BY <1>1, <1>2 DEF Stacked
  <2> QED
    BY <1>1, <1>2, <1>4, <1>6, <1>7, <1>8, <1>9, <1>10, <2>1 DEF Stacked
<1>12. CallsOn(calls, stack)'
  <2>1. Frame(n) \in CallFrames /\ Frame(n).node = n
    BY DEF Frame, Successors, CallFrames
  <2>2. cs \in Seq(CallFrames)
    BY DEF CallsOn
  <2>3. /\ calls' \in Seq(CallFrames) /\ DOMAIN calls' = 1 .. (Len(cs) + 1)
        /\ \A i \in 1 .. Len(cs) : calls'[i] = cs[i]
        /\ calls'[Len(cs) + 1].node = n
    BY <1>1, <2>1, <2>2, AppendProperties, LenProperties
  <2>4. \A i \in DOMAIN calls' : \E a \in DOMAIN stack' : stack'[a] = calls'[i].node
    <3>1. ASSUME NEW i \in 1 .. Len(cs) PROVE \E a \in DOMAIN stack' : stack'[a] = calls'[i].node
      <4>1. PICK a \in DOMAIN stack : stack[a] = cs[i].node
        BY <1>3 DEF CallsOn
      <4> QED
        BY <1>3, <1>4, <2>3, <4>1
    <3>2. Len(stack) + 1 \in DOMAIN stack' /\ stack'[Len(stack) + 1] = calls'[Len(cs) + 1].node
      BY <1>3, <1>4, <2>3
    <3> QED
      BY <1>3, <2>3, <3>1, <3>2
  <2>5. ASSUME NEW i \in DOMAIN calls', NEW j \in DOMAIN calls', NEW a \in DOMAIN stack',
               NEW b \in DOMAIN stack', i < j, stack'[a] = calls'[i].node, stack'[b] = calls'[j].node
        PROVE  a < b
    <3>1. i \in DOMAIN cs /\ calls'[i] = cs[i]
      BY <1>3, <2>3, <2>5
    <3>2. a \in DOMAIN stack /\ stack'[a] = stack[a]
      <4>1. PICK c \in DOMAIN stack : stack[c] = cs[i].node
        BY <3>1 DEF CallsOn
      <4>2. stack'[a] # n
        BY <1>3, <1>5, <2>5, <3>1, <4>1
      <4> QED
        BY <1>3, <1>4, <4>2
    <3>3. CASE b = Len(stack) + 1
      BY <1>3, <3>2, <3>3
    <3>4. CASE b # Len(stack) + 1
      <4>1. b \in DOMAIN stack /\ stack'[b] = stack[b] /\ stack[b] # n
        BY <1>3, <1>4, <1>5, <3>4
      <4>2. j \in DOMAIN cs /\ calls'[j] = cs[j]
        <5>1. calls'[j].node # n
          BY <2>5, <4>1
        <5> QED
          BY <1>3, <2>3, <5>1
      <4> QED
        BY <2>5, <3>1, <3>2, <4>1, <4>2 DEF CallsOn
    <3> QED
      BY <3>3, <3>4
  <2> QED
    BY <1>1, <2>3, <2>4, <2>5 DEF CallsOn, CallFrames
<1>13. Marked'
  BY <1>1, <1>2 DEF Marked, topological
<1> QED
  BY <1>11, <1>12, <1>13 DEF SInv

\* A call with one edge less is where it was.
LEMMA PendingOn ==
  ASSUME NEW m, calls # << >>, CallsOn(calls, stack)
  PROVE  CallsOn(Pending(m), stack)
<1>1. /\ Pending(m) \in Seq(CallFrames)
      /\ Len(Pending(m)) = Len(calls)
      /\ \A i \in DOMAIN calls : Pending(m)[i].node = calls[i].node
  BY PendingCalls DEF CallsOn, CallFrames
<1>2. DOMAIN Pending(m) = DOMAIN calls
  BY <1>1, LenProperties DEF CallsOn
<1> HIDE DEF Pending
<1> QED
  BY <1>1, <1>2 DEF CallsOn

\* The next call, from the loop over all nodes or along an edge.
LEMMA CallsKeep == IInv /\ SInv /\ (ScanNode \/ TreeEdge) => SInv'
<1> SUFFICES ASSUME IInv, SInv, ScanNode \/ TreeEdge PROVE SInv'
  OBVIOUS
<1>1. CASE ScanNode
  <2>1. PICK n \in First(graph, DOMAIN indices) : Enter(n, << >>)
    BY <1>1 DEF ScanNode
  <2>2. n \in graph.node \ DOMAIN indices
    BY DEF First
  <2>3. CallsOn(<< >>, stack)
    BY DEF CallsOn
  <2> QED
    BY <1>1, <2>1, <2>2, <2>3, EnterKeeps DEF ScanNode
<1>2. CASE TreeEdge
  <2>1. PICK m \in Top.todo : m \notin DOMAIN indices /\ Enter(m, Pending(m))
    BY <1>2 DEF TreeEdge
  <2>2. phase = "components" /\ calls # << >> /\ CallsOn(calls, stack)
    BY <1>2 DEF TreeEdge, SInv
  <2>3. m \in graph.node
    <3>1. Top \in CallFrames
      BY <2>2, EmptySeq, LenProperties DEF CallsOn, Top, Last
    <3> QED
      BY <3>1 DEF CallFrames
  <2>4. CallsOn(Pending(m), stack)
    BY <2>2, PendingOn
  <2> QED
    BY <2>1, <2>2, <2>3, <2>4, EnterKeeps
<1> QED
  BY <1>1, <1>2

\* An edge to a node that is numbered changes only what the call has left to do.
LEMMA OtherEdgeStacked == SInv /\ OtherEdge => SInv'
<1> SUFFICES ASSUME SInv, OtherEdge PROVE SInv'
  OBVIOUS
<1>1. PICK m \in Top.todo :
        /\ DOMAIN lowlink' = DOMAIN lowlink /\ calls' = Pending(m)
        /\ UNCHANGED <<phase, graph, index, indices, stack, components, topological>>
  BY DEF OtherEdge, topological
<1>2. phase = "components" /\ calls # << >>
  BY DEF OtherEdge
<1>3. CallsOn(Pending(m), stack)
  BY <1>2, PendingOn DEF SInv
<1>4. CallsOn(calls, stack)'
  BY <1>1, <1>3 DEF CallsOn, CallFrames
<1>5. Stacked' /\ Marked'
  BY <1>1 DEF SInv, Stacked, Marked, topological
<1> QED
  BY <1>4, <1>5 DEF SInv

\* P is what lies on the stack from p on, where n lies, and is taken off into a component.
Pops(n, p, P) ==
  /\ P = {stack[i] : i \in p .. Len(stack)} /\ n \in P
  /\ stack' \in Seq(graph.node) /\ DOMAIN stack' = 1 .. (p - 1)
  /\ \A i \in 1 .. (p - 1) : stack'[i] = stack[i]
  /\ Range(stack) = Range(stack') \cup P /\ Range(stack') \cap P = {}
  /\ n \notin DOMAIN components
  /\ DOMAIN components' = DOMAIN components \cup {n} /\ components'[n] = P
  /\ \A r \in DOMAIN components : components'[r] = components[r]

LEMMA RootPops ==
  ASSUME Stacked, Leave, NEW n, n = Top.node, lowlink[n] = indices[n],
         NEW p \in DOMAIN stack, stack[p] = n
  PROVE  \E P : Pops(n, p, P)
<1> DEFINE P == PoppedWith(n)
<1>1. Len(stack) \in Nat /\ DOMAIN stack = 1 .. Len(stack)
  BY LenProperties DEF Stacked
<1>2. P = {stack[i] : i \in p .. Len(stack)} /\ Cardinality(P) = Len(stack) - p + 1
  <2>1. P = From(stack, stack[p])
    BY DEF PoppedWith, From
  <2>2. stack \in Seq(graph.node) /\ IsInjective(stack)
    BY DEF Stacked
  <2>3. /\ From(stack, stack[p]) = {stack[i] : i \in p .. Len(stack)}
        /\ Cardinality(From(stack, stack[p])) = Len(stack) - p + 1
    BY <2>2, Popping, ZenonT(30)
  <2> HIDE DEF P
  <2> QED
    BY <2>1, <2>3
<1>3. components' = With(components, n, P) /\ stack' = SubSeq(stack, 1, Len(stack) - Cardinality(P))
  BY DEF Leave
<1> HIDE DEF P
<1>4. stack' = SubSeq(stack, 1, p - 1)
  <2>1. Len(stack) - (Len(stack) - p + 1) = p - 1
    BY <1>1
  <2> QED
    BY <1>2, <1>3, <2>1
<1>5. /\ stack' \in Seq(graph.node) /\ DOMAIN stack' = 1 .. (p - 1)
      /\ \A i \in 1 .. (p - 1) : stack'[i] = stack[i]
  <2>1. stack \in Seq(graph.node)
    BY DEF Stacked
  <2>2. /\ SubSeq(stack, 1, p - 1) \in Seq(graph.node)
        /\ DOMAIN SubSeq(stack, 1, p - 1) = 1 .. (p - 1)
        /\ \A i \in 1 .. (p - 1) : SubSeq(stack, 1, p - 1)[i] = stack[i]
    BY <2>1, Left, Zenon
  <2> QED
    BY <1>4, <2>2, Zenon
<1>6. Range(stack) = Range(stack') \cup P /\ Range(stack') \cap P = {}
  <2>1. Range(stack') = {stack[i] : i \in 1 .. (p - 1)}
    BY <1>5 DEF Range
  <2>2. Range(stack) = {stack[i] : i \in 1 .. Len(stack)}
    BY <1>1 DEF Range
  <2>3. 1 .. Len(stack) = 1 .. (p - 1) \cup p .. Len(stack)
    BY <1>1
  <2>4. \A i \in 1 .. (p - 1), j \in p .. Len(stack) : stack[i] # stack[j]
    BY <1>1 DEF Stacked, IsInjective
  <2> QED
    BY <1>2, <2>1, <2>2, <2>3, <2>4
<1>7. n \in P /\ n \in Range(stack)
  BY <1>1, <1>2 DEF Range
<1>8. n \notin DOMAIN components
  BY <1>7 DEF Stacked, Range
<1>9. /\ DOMAIN components' = DOMAIN components \cup {n} /\ components'[n] = P
      /\ \A r \in DOMAIN components : components'[r] = components[r]
  BY <1>3, <1>8 DEF With
<1> QED
  BY <1>2, <1>5, <1>6, <1>7, <1>8, <1>9 DEF Pops

\* The end of a call: the calls below it are below it on the stack, and stay there.
LEMMA LeaveKeeps == SInv /\ Leave => SInv'
<1> SUFFICES ASSUME SInv, Leave PROVE SInv'
  OBVIOUS
<1> DEFINE l == Len(calls)
           n == Top.node
           root == lowlink[n] = indices[n]
<1>1. phase = "components" /\ calls # << >> /\ Stacked /\ Marked /\ CallsOn(calls, stack)
  BY DEF Leave, SInv
<1>2. /\ ~root => components' = components /\ stack' = stack
      /\ DOMAIN lowlink' = DOMAIN lowlink /\ calls' = Front(calls)
      /\ UNCHANGED <<phase, graph, index, indices, topological>>
  BY DEF Leave
<1>3. /\ l \in Nat /\ DOMAIN calls = 1 .. l /\ l \in DOMAIN calls /\ n = calls[l].node
      /\ Len(stack) \in Nat /\ DOMAIN stack = 1 .. Len(stack)
  BY <1>1, EmptySeq, LenProperties DEF CallsOn, Stacked, Top, Last
<1>4. /\ calls' \in Seq(CallFrames) /\ CallFrames' = CallFrames
      /\ DOMAIN calls' = 1 .. (l - 1)
      /\ \A i \in 1 .. (l - 1) : calls'[i] = calls[i]
  BY <1>1, <1>2, FrontOfCalls, LenProperties DEF CallsOn, CallFrames
<1>5. PICK p \in DOMAIN stack : stack[p] = n
  BY <1>1, <1>3 DEF CallsOn
<1>6. \A i \in 1 .. (l - 1) : \A a \in DOMAIN stack : stack[a] = calls[i].node => a < p
  BY <1>1, <1>3, <1>5 DEF CallsOn
<1>7. Marked'
  BY <1>1, <1>2 DEF Marked, topological
<1>a. n = Top.node
  OBVIOUS
<1> HIDE DEF l, n
<1>8. CASE ~root
  <2>1. components' = components /\ stack' = stack
    BY <1>2, <1>8
  <2>2. Stacked'
    BY <1>1, <1>2, <2>1 DEF Stacked
  <2>3. CallsOn(calls, stack)'
    <3>1. ASSUME NEW i \in DOMAIN calls' PROVE i \in DOMAIN calls /\ calls'[i] = calls[i]
      BY <1>3, <1>4
    <3>2. calls' \in Seq(CallFrames')
      BY <1>4
    <3>3. \A i \in DOMAIN calls' : \E a \in DOMAIN stack' : stack'[a] = calls'[i].node
      BY <1>1, <2>1, <3>1 DEF CallsOn
    <3>4. \A i, j \in DOMAIN calls' : \A a, b \in DOMAIN stack' :
            i < j /\ stack'[a] = calls'[i].node /\ stack'[b] = calls'[j].node => a < b
      BY <1>1, <2>1, <3>1 DEF CallsOn
    <3> QED
      BY <3>2, <3>3, <3>4 DEF CallsOn
  <2> QED
    BY <1>7, <2>2, <2>3 DEF SInv
<1>9. CASE root
  <2>1. PICK P : Pops(n, p, P)
    <3>1. lowlink[n] = indices[n] /\ Stacked /\ Leave
      BY <1>1, <1>9
    <3> QED
      BY <1>a, <1>5, <3>1, RootPops
  <2>5. /\ stack' \in Seq(graph.node) /\ DOMAIN stack' = 1 .. (p - 1)
        /\ \A i \in 1 .. (p - 1) : stack'[i] = stack[i]
    BY <2>1 DEF Pops
  <2>6. IsInjective(stack')
    BY <1>1, <1>3, <2>5 DEF Stacked, IsInjective
  <2>7. Range(stack) = Range(stack') \cup P /\ Range(stack') \cap P = {}
    BY <2>1 DEF Pops
  <2>8. n \in P
    BY <2>1 DEF Pops
  <2>10. /\ DOMAIN components' = DOMAIN components \cup {n} /\ components'[n] = P
         /\ \A r \in DOMAIN components : components'[r] = components[r]
    BY <2>1 DEF Pops
  <2>11. UNION Range(components') = (UNION Range(components)) \cup P
    <3>1. Range(components') = Range(components) \cup {P}
      BY <2>10 DEF Range
    <3> QED
      BY <3>1
  <2>12. Stacked'
    <3>1. \A r \in DOMAIN components' : r \in components'[r]
      BY <1>1, <2>8, <2>10 DEF Stacked
    <3>2. Range(stack') \cap UNION Range(components') = {}
      BY <1>1, <2>7, <2>11 DEF Stacked
    <3>3. Range(stack') \cup UNION Range(components') = DOMAIN indices'
      BY <1>1, <1>2, <2>7, <2>11 DEF Stacked
    <3> QED
      BY <1>1, <1>2, <2>5, <2>6, <3>1, <3>2, <3>3 DEF Stacked
  <2>13. CallsOn(calls, stack)'
    <3>1. ASSUME NEW i \in 1 .. (l - 1) PROVE \E a \in DOMAIN stack' : stack'[a] = calls'[i].node
      <4>1. i \in DOMAIN calls
        BY <1>3
      <4>2. PICK a \in DOMAIN stack : stack[a] = calls[i].node
        BY <1>1, <4>1 DEF CallsOn
      <4>3. a \in 1 .. (p - 1)
        BY <1>3, <1>6, <4>2
      <4> QED
        BY <1>4, <2>5, <4>2, <4>3
    <3>2. ASSUME NEW i \in 1 .. (l - 1), NEW j \in 1 .. (l - 1), NEW a \in 1 .. (p - 1),
                 NEW b \in 1 .. (p - 1), i < j, stack[a] = calls[i].node, stack[b] = calls[j].node
          PROVE  a < b
      <4>1. i \in DOMAIN calls /\ j \in DOMAIN calls /\ a \in DOMAIN stack /\ b \in DOMAIN stack
        BY <1>3
      <4> QED
        BY <1>1, <3>2, <4>1 DEF CallsOn
    <3>3. calls' \in Seq(CallFrames')
      BY <1>4
    <3>4. \A i \in DOMAIN calls' : \E a \in DOMAIN stack' : stack'[a] = calls'[i].node
      BY <1>4, <3>1
    <3>5. \A i, j \in DOMAIN calls' : \A a, b \in DOMAIN stack' :
            i < j /\ stack'[a] = calls'[i].node /\ stack'[b] = calls'[j].node => a < b
      BY <1>4, <2>5, <3>2
    <3> QED
      BY <3>3, <3>4, <3>5 DEF CallsOn
  <2> QED
    BY <1>7, <2>12, <2>13 DEF SInv
<1> QED
  BY <1>8, <1>9

\* condense and topological_order leave the components alone, and mark a node in the end.
LEMMA OthersStacked ==
  IInv /\ SInv /\ (BeginCondense \/ AddComponent \/ EndCondense \/ ScanUnmarked \/ OrderEdge
                   \/ Mark \/ EndOrder \/ UNCHANGED graphVars) => SInv'
<1> SUFFICES ASSUME IInv, SInv, BeginCondense \/ AddComponent \/ EndCondense \/ ScanUnmarked
                    \/ OrderEdge \/ Mark \/ EndOrder \/ UNCHANGED graphVars
             PROVE  SInv'
  OBVIOUS
<1>1. UNCHANGED <<graph, tarjan>>
  BY DEF BeginCondense, AddComponent, EndCondense, ScanUnmarked, Visit, OrderEdge, Mark,
         EndOrder, graphVars, tarjan
<1>2. Stacked'
  BY <1>1 DEF SInv, Stacked, tarjan
<1>3. phase' = "components" => CallsOn(calls, stack)'
  <2>1. CASE UNCHANGED graphVars
    BY <2>1 DEF SInv, CallsOn, CallFrames, graphVars, tarjan
  <2>2. CASE ~ UNCHANGED graphVars
    BY <2>2 DEF BeginCondense, AddComponent, EndCondense, ScanUnmarked, Visit, OrderEdge,
                Mark, EndOrder
  <2> QED
    BY <2>1, <2>2
<1>4. Marked'
  <2>1. CASE UNCHANGED topological
    BY <2>1 DEF SInv, Marked, topological
  <2>2. CASE ScanUnmarked
    <3>1. PICK n \in First(condensation, permanent) : Visit(n, << >>)
      BY <2>2 DEF ScanUnmarked
    <3>2. n \notin permanent
      BY DEF First
    <3> QED
      BY <3>1, <3>2 DEF SInv, Marked, Visit
  <2>3. CASE OrderEdge
    BY <2>3 DEF SInv, Marked, OrderEdge
  <2>4. CASE Mark
    <3>1. phase = "order" /\ phase' = "order"
      BY <2>4 DEF Mark
    <3>2. Backward'
      BY <2>4, <3>1, MarkKeeps DEF IInv
    <3> QED
      BY <3>2 DEF Backward, Marked
  <2>5. CASE EndOrder
    <3>1. order' = Reverse(order) /\ UNCHANGED <<permanent, temporary>>
      BY <2>5 DEF EndOrder
    <3>2. phase' = "ordered" /\ permanent = condensation.node /\ UNCHANGED condensation
      BY <2>5 DEF EndOrder
    <3>3. Range(order') = condensation'.node
      BY <2>5, <3>2, EndOrderKeeps DEF IInv, OrderIsTopological
    <3> QED
      BY <3>1, <3>2, <3>3 DEF SInv, Marked
  <2> QED
    BY <2>1, <2>2, <2>3, <2>4, <2>5
       DEF BeginCondense, AddComponent, EndCondense, graphVars
<1> QED
  BY <1>2, <1>3, <1>4 DEF SInv

\* tarjan_scc: from every directed graph the stack and the numbers stay what is said of them.
THEOREM StackInductive == GraphSpec => []SInv
<1>1. GraphInit => SInv
  BY EmptySeq DEF GraphInit, StartTarjan, StartOrder, SInv, Stacked, Marked, CallsOn, IsInjective, Range
<1>2. IInv /\ SInv /\ [GraphNext]_graphVars => SInv'
  BY CallsKeep, OtherEdgeStacked, LeaveKeeps, OthersStacked DEF GraphNext
<1> QED
  BY <1>1, <1>2, Inductive, PTL DEF GraphSpec

\* tarjan_scc and topological_order: whatever the graph, a node with an index is on the
\* stack or was popped into one component, and the calls that run are those of the stack and
\* of the temporary marks.
THEOREM TypeCorrect == GraphSpec => []GraphTypeOK
<1>1. IInv /\ SInv => GraphTypeOK
  <2> SUFFICES ASSUME IInv, SInv PROVE GraphTypeOK
    OBVIOUS
  <2>1. phase = "components" => {calls[i].node : i \in DOMAIN calls} \subseteq Range(stack)
    BY DEF SInv, CallsOn, Range
  <2>2. phase = "order" => {calls[i].node : i \in DOMAIN calls} = temporary
    BY DEF IInv, Visiting
  <2> QED
    BY <2>1, <2>2 DEF SInv, Stacked, Marked, GraphTypeOK
<1> QED
  BY <1>1, Inductive, StackInductive, PTL

\* topological_order: of every directed graph, and of every condensation, it returns an
\* order that has each node once and every edge forward, and gives up only where there is a
\* set of nodes that no walk has to leave.
THEOREM OrdersAreTopological == GraphSpec => []OrderIsTopological
<1>1. IInv => OrderIsTopological
  BY DEF IInv
<1> QED
  BY <1>1, Inductive, PTL

-----------------------------------------------------------------------------
(* The components are strong. *)

\* Nothing popped has an edge to what is not popped, and a call has edges of its node left.
Searching ==
  /\ NoEdgeLeaves(UNION Range(components))
  /\ \A i \in DOMAIN calls : calls[i].todo \subseteq Successors(graph, calls[i].node)

\* The stack is in the order of the numbers.
Rising == \A a, b \in DOMAIN stack : a < b => indices[stack[a]] < indices[stack[b]]

\* A call reaches what lies on the stack above it.
Below ==
  \A i \in DOMAIN calls : \A y \in Range(stack) :
    indices[calls[i].node] <= indices[y] => y \in ReachedFrom(calls[i].node)

\* What lies on the stack reaches a call that is not above it.
Above ==
  \A y \in Range(stack) : \E i \in DOMAIN calls :
    indices[calls[i].node] <= indices[y] /\ calls[i].node \in ReachedFrom(y)

\* A lowlink is the number of a node of the stack that is reached and is not above.
LowReached ==
  \A x \in Range(stack) :
    lowlink[x] <= indices[x]
    /\ \E y \in Range(stack) : indices[y] = lowlink[x] /\ y \in ReachedFrom(x)

\* An edge of the stack that was not followed is one its call has left.
Followed ==
  \A x \in Range(stack) : \A z \in Successors(graph, x) :
    z \in DOMAIN indices \/ \E i \in DOMAIN calls : calls[i].node = x /\ z \in calls[i].todo

\* The node x lies with the call i: above it, and below the next.
LiesWith(i, x) ==
  /\ indices[calls[i].node] <= indices[x]
  /\ i < Len(calls) => indices[x] < indices[calls[i + 1].node]

\* The lowlink of a call is not above what the nodes that lie with it have edges to.
LowCovers ==
  \A i \in DOMAIN calls : \A x, z \in Range(stack) :
    /\ LiesWith(i, x) /\ z \in Successors(graph, x)
    /\ ~ (x = calls[i].node /\ z \in calls[i].todo)
    => lowlink[calls[i].node] <= indices[z]

Connected == Searching /\ Rising /\ Below /\ Above /\ LowReached /\ Followed /\ LowCovers

CInv == ComponentsAreStrong /\ (phase = "components" => Connected)

\* Walks: of no edge, of one, of one walk after another, and none out of a set that no
\* edge leaves.
LEMMA ReachSelf == ASSUME NEW n \in graph.node PROVE n \in ReachedFrom(n)
  BY DEF ReachedFrom

LEMMA ReachNext ==
  ASSUME NEW n, NEW m \in Successors(graph, n) PROVE m \in ReachedFrom(n)
<1>1. m \in graph.node /\ <<n, m>> \in graph.edge
  BY DEF Successors
<1>2. ASSUME NEW S, n \in S, NoEdgeLeaves(S) PROVE m \in S
  BY <1>1, <1>2 DEF NoEdgeLeaves
<1> QED
  BY <1>1, <1>2 DEF ReachedFrom

LEMMA ReachOn ==
  ASSUME NEW n, NEW m \in ReachedFrom(n), NEW k \in ReachedFrom(m) PROVE k \in ReachedFrom(n)
  BY DEF ReachedFrom

LEMMA ReachWithin ==
  ASSUME NEW S \in SUBSET graph.node, NoEdgeLeaves(S), NEW n \in S PROVE ReachedFrom(n) \subseteq S
  BY DEF ReachedFrom

\* The numbers of what lies on the stack, and of the calls.
Numbered ==
  /\ Len(calls) \in Nat /\ DOMAIN calls = 1 .. Len(calls)
  /\ \A i \in DOMAIN calls : calls[i].node \in Range(stack)
  /\ \A i, j \in DOMAIN calls : i < j => indices[calls[i].node] < indices[calls[j].node]
  /\ index \in Nat /\ \A x \in DOMAIN indices : indices[x] \in 0 .. (index - 1)
  /\ \A x, y \in DOMAIN indices : indices[x] = indices[y] => x = y
  /\ Range(stack) \subseteq DOMAIN indices /\ DOMAIN indices \subseteq graph.node
  /\ Range(stack) \cap UNION Range(components) = {}
  /\ Range(stack) \cup UNION Range(components) = DOMAIN indices
  /\ \A x \in Range(stack) : lowlink[x] \in Int

LEMMA CallsRise == SInv /\ phase = "components" /\ Connected => Numbered
<1> SUFFICES ASSUME SInv, phase = "components", Connected PROVE Numbered
  OBVIOUS
<1>1. Stacked /\ CallsOn(calls, stack)
  BY DEF SInv
<1>2. Len(calls) \in Nat /\ DOMAIN calls = 1 .. Len(calls)
  BY <1>1, LenProperties DEF CallsOn
<1>3. \A i \in DOMAIN calls : calls[i].node \in Range(stack)
  BY <1>1 DEF CallsOn, Range
<1>4. ASSUME NEW i \in DOMAIN calls, NEW j \in DOMAIN calls, i < j
      PROVE  indices[calls[i].node] < indices[calls[j].node]
  <2>1. PICK a \in DOMAIN stack : stack[a] = calls[i].node
    BY <1>1 DEF CallsOn
  <2>2. PICK b \in DOMAIN stack : stack[b] = calls[j].node
    BY <1>1 DEF CallsOn
  <2>3. a < b
    BY <1>1, <1>4, <2>1, <2>2 DEF CallsOn
  <2> QED
    BY <2>1, <2>2, <2>3 DEF Connected, Rising
<1>5. index \in Nat /\ \A x \in DOMAIN indices : indices[x] \in 0 .. (index - 1)
  BY <1>1 DEF Stacked, Range
<1>6. \A x, y \in DOMAIN indices : indices[x] = indices[y] => x = y
  BY <1>1 DEF Stacked, IsInjective
<1>7. /\ Range(stack) \subseteq DOMAIN indices /\ DOMAIN indices \subseteq graph.node
      /\ Range(stack) \cap UNION Range(components) = {}
      /\ Range(stack) \cup UNION Range(components) = DOMAIN indices
  BY <1>1 DEF Stacked
<1>8. \A x \in Range(stack) : lowlink[x] \in Int
  BY <1>5, <1>7 DEF Connected, LowReached
<1> QED
  BY <1>2, <1>3, <1>4, <1>5, <1>6, <1>7, <1>8 DEF Numbered

\* What the call of tarjan_scc_helper for n changes: n comes onto the stack with the
\* next number, and its call with all its edges.
Entered(n) ==
  /\ n \in graph.node \ DOMAIN indices
  /\ DOMAIN calls' = 1 .. (Len(calls) + 1) /\ Len(calls') = Len(calls) + 1
  /\ \A i \in DOMAIN calls :
       /\ calls'[i].node = calls[i].node /\ calls'[i].todo \subseteq calls[i].todo
       /\ calls[i].todo \subseteq calls'[i].todo \cup {n}
  /\ calls'[Len(calls) + 1].node = n /\ calls'[Len(calls) + 1].todo = Successors(graph, n)
  /\ calls # << >> => n \in Successors(graph, calls[Len(calls)].node)
  /\ Len(stack) \in Nat /\ DOMAIN stack = 1 .. Len(stack) /\ DOMAIN stack' = 1 .. (Len(stack) + 1)
  /\ \A a \in 1 .. Len(stack) : stack'[a] = stack[a]
  /\ stack'[Len(stack) + 1] = n
  /\ Range(stack') = Range(stack) \cup {n}
  /\ DOMAIN indices' = DOMAIN indices \cup {n}
  /\ indices'[n] = index /\ lowlink'[n] = index
  /\ \A x \in DOMAIN indices : indices'[x] = indices[x] /\ lowlink'[x] = lowlink[x]
  /\ UNCHANGED <<phase, graph, components>>

LEMMA EnterEnters ==
  ASSUME Stacked, NEW n \in graph.node \ DOMAIN indices, NEW cs,
         cs \in Seq(CallFrames), DOMAIN cs = DOMAIN calls, Len(cs) = Len(calls),
         \A i \in DOMAIN calls :
           /\ cs[i].node = calls[i].node /\ cs[i].todo \subseteq calls[i].todo
           /\ calls[i].todo \subseteq cs[i].todo \cup {n},
         calls # << >> => n \in Successors(graph, calls[Len(calls)].node),
         Enter(n, cs)
  PROVE  Entered(n)
<1>1. /\ indices' = With(indices, n, index) /\ lowlink' = With(lowlink, n, index)
      /\ stack' = Append(stack, n) /\ calls' = Append(cs, Frame(n))
      /\ UNCHANGED <<phase, graph, components>>
  BY DEF Enter
<1>2. Len(stack) \in Nat /\ DOMAIN stack = 1 .. Len(stack)
  BY LenProperties DEF Stacked
<1>3. /\ stack' \in Seq(graph.node) /\ DOMAIN stack' = 1 .. (Len(stack) + 1)
      /\ \A i \in 1 .. Len(stack) : stack'[i] = stack[i]
      /\ stack'[Len(stack) + 1] = n
  BY <1>1, AppendProperties, LenProperties DEF Stacked
<1>4. Range(stack') = Range(stack) \cup {n}
  BY <1>2, <1>3 DEF Range
<1>5. DOMAIN lowlink = DOMAIN indices
  BY DEF Stacked
<1>6. /\ DOMAIN indices' = DOMAIN indices \cup {n}
      /\ indices'[n] = index /\ lowlink'[n] = index
      /\ \A x \in DOMAIN indices : indices'[x] = indices[x] /\ lowlink'[x] = lowlink[x]
  BY <1>1, <1>5 DEF With
<1>7. /\ Frame(n) \in CallFrames /\ Frame(n).node = n /\ Frame(n).todo = Successors(graph, n)
  BY DEF Frame, Successors, CallFrames
<1>8. /\ DOMAIN calls' = 1 .. (Len(cs) + 1) /\ Len(calls') = Len(cs) + 1
      /\ \A i \in 1 .. Len(cs) : calls'[i] = cs[i]
      /\ calls'[Len(cs) + 1] = Frame(n)
      /\ DOMAIN cs = 1 .. Len(cs)
  BY <1>1, <1>7, AppendProperties, LenProperties
<1>9. \A i \in DOMAIN calls :
       /\ calls'[i].node = calls[i].node /\ calls'[i].todo \subseteq calls[i].todo
       /\ calls[i].todo \subseteq calls'[i].todo \cup {n}
  BY <1>8
<1>10. /\ DOMAIN calls' = 1 .. (Len(calls) + 1) /\ Len(calls') = Len(calls) + 1
       /\ calls'[Len(calls) + 1].node = n /\ calls'[Len(calls) + 1].todo = Successors(graph, n)
  BY <1>7, <1>8
<1> QED
  BY <1>1, <1>2, <1>3, <1>4, <1>6, <1>9, <1>10 DEF Entered

LEMMA CallsEnter ==
  ASSUME IInv, SInv, Connected, ScanNode \/ TreeEdge
  PROVE  phase = "components" /\ \E n : Entered(n)
<1>1. phase = "components"
  BY DEF ScanNode, TreeEdge
<1>2. Stacked /\ CallsOn(calls, stack)
  BY <1>1 DEF SInv
<1>3. CASE ScanNode
  <2>1. PICK n \in First(graph, DOMAIN indices) : Enter(n, << >>)
    BY <1>3 DEF ScanNode
  <2>2. n \in graph.node \ DOMAIN indices /\ calls = << >>
    BY <1>3 DEF First, ScanNode
  <2>3. << >> \in Seq(CallFrames)
    BY EmptySeq
  <2> QED
    BY <1>1, <1>2, <2>1, <2>2, <2>3, EnterEnters
<1>4. CASE TreeEdge
  <2>1. PICK m \in Top.todo : m \notin DOMAIN indices /\ Enter(m, Pending(m))
    BY <1>4 DEF TreeEdge
  <2>2. calls # << >> /\ calls \in Seq(CallFrames)
    BY <1>2, <1>4 DEF TreeEdge, CallsOn
  <2>3. Len(calls) \in DOMAIN calls /\ Top = calls[Len(calls)] /\ Len(calls) \in Nat
        /\ DOMAIN calls = 1 .. Len(calls)
    BY <2>2, EmptySeq, LenProperties DEF Top, Last
  <2>4. m \in Successors(graph, calls[Len(calls)].node)
    BY <2>1, <2>3 DEF Connected, Searching
  <2>5. m \in graph.node \ DOMAIN indices
    BY <2>1, <2>4 DEF Successors
  <2>6. /\ Pending(m) \in Seq(CallFrames) /\ Len(Pending(m)) = Len(calls)
        /\ \A i \in DOMAIN calls : Pending(m)[i].node = calls[i].node
        /\ \A i \in 1 .. (Len(calls) - 1) : Pending(m)[i] = calls[i]
        /\ Pending(m)[Len(calls)].todo = Top.todo \ {m}
    BY <2>2, PendingCalls DEF CallFrames
  <2> DEFINE cs == Pending(m)
  <2>7. DOMAIN cs = DOMAIN calls
    BY <2>3, <2>6, LenProperties
  <2>8. \A i \in DOMAIN calls :
          /\ cs[i].node = calls[i].node /\ cs[i].todo \subseteq calls[i].todo
          /\ calls[i].todo \subseteq cs[i].todo \cup {m}
    <3> SUFFICES ASSUME NEW i \in DOMAIN calls
                 PROVE  cs[i].todo \subseteq calls[i].todo /\ calls[i].todo \subseteq cs[i].todo \cup {m}
      BY <2>6
    <3>1. CASE i = Len(calls)
      BY <2>3, <2>6, <3>1
    <3>2. CASE i # Len(calls)
      <4>1. i \in 1 .. (Len(calls) - 1)
        BY <2>3, <3>2
      <4> QED
        BY <2>6, <4>1
    <3> QED
      BY <3>1, <3>2
  <2>9. Enter(m, cs) /\ cs \in Seq(CallFrames) /\ Len(cs) = Len(calls)
    BY <2>1, <2>6
  <2> HIDE DEF cs
  <2> QED
    BY <1>1, <1>2, <2>4, <2>5, <2>7, <2>8, <2>9, EnterEnters
<1> QED
  BY <1>3, <1>4

\* The strong components are those of the graph, whatever has been found of it.
LEMMA StrongStays ==
  ASSUME UNCHANGED <<phase, graph, components>>, phase = "components", ComponentsAreStrong
  PROVE  ComponentsAreStrong'
<1>1. ASSUME NEW r \in DOMAIN components' PROVE components'[r] = StronglyWith(r)'
  BY DEF ComponentsAreStrong, StronglyWith, ReachedFrom, NoEdgeLeaves
<1> QED
  BY <1>1 DEF ComponentsAreStrong

\* A node comes onto the stack: the calls reach it, and its lowlink is its number.
LEMMA EnteredConnects ==
  ASSUME Numbered, Connected, NEW n, Entered(n)
  PROVE  Connected'
<1> DEFINE l == Len(calls)
<1>1. /\ l \in Nat /\ DOMAIN calls = 1 .. l /\ DOMAIN calls' = 1 .. (l + 1) /\ Len(calls') = l + 1
      /\ l + 1 \in DOMAIN calls'
  BY DEF Numbered, Entered
<1>2. n \in graph.node /\ n \notin DOMAIN indices /\ n \notin Range(stack) /\ graph' = graph
      /\ components' = components
  BY DEF Entered, Numbered
<1>3. Range(stack') = Range(stack) \cup {n} /\ Range(stack) \subseteq DOMAIN indices
  BY DEF Entered, Numbered
<1>4. \A x \in DOMAIN indices : indices'[x] = indices[x] /\ indices[x] < index /\ indices[x] \in Nat
                                /\ lowlink'[x] = lowlink[x]
  BY DEF Entered, Numbered
<1>5. indices'[n] = index /\ lowlink'[n] = index /\ index \in Nat
  BY DEF Entered, Numbered
<1>6. \A i \in DOMAIN calls : calls'[i].node = calls[i].node /\ calls[i].node \in Range(stack)
                              /\ calls[i].node # n
  BY <1>2 DEF Entered, Numbered
<1>7. calls'[l + 1].node = n /\ calls'[l + 1].todo = Successors(graph, n)
  BY DEF Entered
<1>8. \A i \in DOMAIN calls' : i # l + 1 => i \in DOMAIN calls
  BY <1>1
<1>9. \A i \in DOMAIN calls : indices[calls[i].node] <= indices[calls[l].node] /\ l \in DOMAIN calls
  <2> SUFFICES ASSUME NEW i \in DOMAIN calls
               PROVE  indices[calls[i].node] <= indices[calls[l].node] /\ l \in DOMAIN calls
    OBVIOUS
  <2>1. l \in DOMAIN calls /\ (i < l \/ i = l)
    BY <1>1
  <2>2. i < l => indices[calls[i].node] < indices[calls[l].node]
    BY <2>1 DEF Numbered
  <2>3. indices[calls[i].node] \in Nat /\ indices[calls[l].node] \in Nat
    BY <1>3, <1>4, <1>6, <2>1
  <2> QED
    BY <2>1, <2>2, <2>3
<1> HIDE DEF l
<1>10. Searching'
  <2>1. NoEdgeLeaves(UNION Range(components))'
    BY <1>2 DEF Connected, Searching, NoEdgeLeaves
  <2>2. \A i \in DOMAIN calls' : calls'[i].todo \subseteq Successors(graph', calls'[i].node)
    <3> SUFFICES ASSUME NEW i \in DOMAIN calls'
                 PROVE  calls'[i].todo \subseteq Successors(graph, calls'[i].node)
      BY <1>2
    <3>1. CASE i = l + 1
      BY <1>7, <3>1
    <3>2. CASE i \in DOMAIN calls
      <4>1. calls[i].todo \subseteq Successors(graph, calls[i].node)
        BY <3>2 DEF Connected, Searching
      <4>2. calls'[i].node = calls[i].node /\ calls'[i].todo \subseteq calls[i].todo
        BY <3>2 DEF Entered
      <4> QED
        BY <4>1, <4>2
    <3> QED
      BY <1>8, <3>1, <3>2
  <2> QED
    BY <2>1, <2>2 DEF Searching
<1>11. Rising'
  <2> SUFFICES ASSUME NEW a \in DOMAIN stack', NEW b \in DOMAIN stack', a < b
               PROVE  indices'[stack'[a]] < indices'[stack'[b]]
    BY DEF Rising
  <2>1. /\ Len(stack) \in Nat /\ DOMAIN stack = 1 .. Len(stack)
        /\ DOMAIN stack' = 1 .. (Len(stack) + 1)
        /\ \A c \in 1 .. Len(stack) : stack'[c] = stack[c]
        /\ stack'[Len(stack) + 1] = n
    BY DEF Entered
  <2>2. a \in DOMAIN stack /\ stack'[a] = stack[a] /\ stack[a] \in Range(stack)
    BY <2>1 DEF Range
  <2>3. CASE b = Len(stack) + 1
    BY <1>3, <1>4, <1>5, <2>1, <2>2, <2>3
  <2>4. CASE b # Len(stack) + 1
    <3>1. b \in DOMAIN stack /\ stack'[b] = stack[b] /\ stack[b] \in Range(stack)
      BY <2>1, <2>4 DEF Range
    <3>2. indices[stack[a]] < indices[stack[b]]
      BY <2>2, <3>1 DEF Connected, Rising
    <3> QED
      BY <1>3, <1>4, <2>2, <3>1, <3>2
  <2> QED
    BY <2>3, <2>4
<1>12. Below'
  <2> SUFFICES ASSUME NEW i \in DOMAIN calls', NEW y \in Range(stack'),
                      indices'[calls'[i].node] <= indices'[y]
               PROVE  y \in ReachedFrom(calls'[i].node)
    BY <1>2 DEF Below, ReachedFrom, NoEdgeLeaves
  <2>1. CASE i = l + 1
    <3>1. y = n
      BY <1>3, <1>4, <1>5, <1>7, <2>1
    <3> QED
      BY <1>2, <1>7, <2>1, <3>1, ReachSelf
  <2>2. CASE i \in DOMAIN calls /\ y = n
    <3>1. calls[l].node \in ReachedFrom(calls[i].node)
      BY <1>6, <1>9, <2>2 DEF Connected, Below
    <3>2. calls # << >>
      BY <2>2
    <3>3. n \in ReachedFrom(calls[l].node)
      BY <3>2, ReachNext DEF Entered, l
    <3> QED
      BY <1>6, <2>2, <3>1, <3>3, ReachOn
  <2>3. CASE i \in DOMAIN calls /\ y # n
    <3>1. y \in Range(stack) /\ indices[calls[i].node] <= indices[y]
      BY <1>3, <1>4, <1>6, <2>3
    <3> QED
      BY <1>6, <2>3, <3>1 DEF Connected, Below
  <2> QED
    BY <1>8, <2>1, <2>2, <2>3
<1>13. Above'
  <2> SUFFICES ASSUME NEW y \in Range(stack')
               PROVE  \E i \in DOMAIN calls' : indices'[calls'[i].node] <= indices'[y]
                                               /\ calls'[i].node \in ReachedFrom(y)
    BY <1>2 DEF Above, ReachedFrom, NoEdgeLeaves
  <2>1. CASE y = n
    <3>1. n \in ReachedFrom(n)
      BY <1>2, ReachSelf
    <3> QED
      BY <1>1, <1>5, <1>7, <2>1, <3>1
  <2>2. CASE y # n
    <3>1. y \in Range(stack)
      BY <1>3, <2>2
    <3>2. PICK i \in DOMAIN calls : indices[calls[i].node] <= indices[y]
                                    /\ calls[i].node \in ReachedFrom(y)
      BY <3>1 DEF Connected, Above
    <3>3. i \in DOMAIN calls' /\ indices'[calls'[i].node] <= indices'[y]
      BY <1>1, <1>3, <1>4, <1>6, <3>1, <3>2
    <3> QED
      BY <1>6, <3>2, <3>3
  <2> QED
    BY <2>1, <2>2
<1>14. LowReached'
  <2> SUFFICES ASSUME NEW x \in Range(stack')
               PROVE  lowlink'[x] <= indices'[x]
                      /\ \E y \in Range(stack') : indices'[y] = lowlink'[x] /\ y \in ReachedFrom(x)
    BY <1>2 DEF LowReached, ReachedFrom, NoEdgeLeaves
  <2>1. CASE x = n
    <3>1. n \in ReachedFrom(n)
      BY <1>2, ReachSelf
    <3> QED
      BY <1>3, <1>5, <2>1, <3>1
  <2>2. CASE x # n
    <3>1. x \in Range(stack)
      BY <1>3, <2>2
    <3>2. PICK y \in Range(stack) : indices[y] = lowlink[x] /\ y \in ReachedFrom(x)
      BY <3>1 DEF Connected, LowReached
    <3>3. lowlink[x] <= indices[x]
      BY <3>1 DEF Connected, LowReached
    <3> QED
      BY <1>3, <1>4, <3>1, <3>2, <3>3
  <2> QED
    BY <2>1, <2>2
<1>15. Followed'
  <2> SUFFICES ASSUME NEW x \in Range(stack'), NEW z \in Successors(graph, x), z \notin DOMAIN indices'
               PROVE  \E i \in DOMAIN calls' : calls'[i].node = x /\ z \in calls'[i].todo
    BY <1>2 DEF Followed
  <2>1. CASE x = n
    BY <1>1, <1>7, <2>1
  <2>2. CASE x # n
    <3>1. x \in Range(stack) /\ z \notin DOMAIN indices /\ z # n
      BY <1>3, <2>2 DEF Entered
    <3>2. PICK i \in DOMAIN calls : calls[i].node = x /\ z \in calls[i].todo
      BY <3>1 DEF Connected, Followed
    <3>3. z \in calls'[i].todo
      BY <3>1, <3>2 DEF Entered
    <3> QED
      BY <1>1, <1>6, <3>2, <3>3
  <2> QED
    BY <2>1, <2>2
<1>16. LowCovers'
  <2> SUFFICES ASSUME NEW i \in DOMAIN calls', NEW x \in Range(stack'), NEW z \in Range(stack'),
                      LiesWith(i, x)', z \in Successors(graph, x),
                      ~ (x = calls'[i].node /\ z \in calls'[i].todo)
               PROVE  lowlink'[calls'[i].node] <= indices'[z]
    BY <1>2 DEF LowCovers
  <2>1. CASE i = l + 1
    <3>1. x = n
      BY <1>3, <1>4, <1>5, <1>7, <2>1 DEF LiesWith
    <3> QED
      BY <1>7, <2>1, <3>1
  <2>2. CASE i \in DOMAIN calls
    <3> DEFINE c == calls[i].node
    <3>1. /\ c \in Range(stack) /\ calls'[i].node = c /\ lowlink'[c] = lowlink[c]
          /\ lowlink[c] <= indices[c] /\ lowlink[c] \in Int /\ indices[c] \in Nat /\ indices[c] < index
      BY <1>3, <1>4, <1>6, <2>2 DEF Connected, LowReached, Numbered
    <3>2. x # n
      <4>1. i + 1 \in DOMAIN calls' /\ i < Len(calls')
        BY <1>1, <2>2
      <4>2. indices'[x] < indices'[calls'[i + 1].node]
        BY <4>1 DEF LiesWith
      <4>3. indices'[calls'[i + 1].node] <= index /\ indices'[calls'[i + 1].node] \in Nat
        BY <1>3, <1>4, <1>5, <1>6, <1>7, <1>8, <4>1
      <4> QED
        BY <1>5, <4>2, <4>3
    <3>3. CASE z = n
      BY <1>5, <3>1, <3>3
    <3>4. CASE z # n
      <4>1. x \in Range(stack) /\ z \in Range(stack) /\ indices'[z] = indices[z] /\ indices'[x] = indices[x]
        BY <1>3, <1>4, <3>2, <3>4
      <4>2. indices'[c] = indices[c]
        BY <1>3, <1>4, <3>1
      <4>3. i < Len(calls) => indices[x] < indices[calls[i + 1].node]
        <5> SUFFICES ASSUME i < l PROVE indices[x] < indices[calls[i + 1].node]
          BY DEF l
        <5>1. i + 1 \in DOMAIN calls /\ i < Len(calls')
          BY <1>1, <2>2
        <5>2. indices'[x] < indices'[calls[i + 1].node]
          BY <1>6, <5>1 DEF LiesWith
        <5> QED
          BY <1>3, <1>4, <1>6, <4>1, <5>1, <5>2
      <4>4. LiesWith(i, x)
        BY <3>1, <4>1, <4>2, <4>3 DEF LiesWith
      <4>5. ~ (x = c /\ z \in calls[i].todo)
        BY <2>2, <3>1, <3>4 DEF Entered
      <4>6. lowlink[c] <= indices[z]
        BY <2>2, <4>1, <4>4, <4>5 DEF Connected, LowCovers
      <4> QED
        BY <3>1, <4>1, <4>6
    <3> QED
      BY <3>3, <3>4
  <2> QED
    BY <1>8, <2>1, <2>2
<1> QED
  BY <1>10, <1>11, <1>12, <1>13, <1>14, <1>15, <1>16 DEF Connected

\* What an edge to a node that has a number changes.
Compared(m) ==
  /\ DOMAIN calls' = DOMAIN calls /\ Len(calls') = Len(calls) /\ Len(calls) \in DOMAIN calls
  /\ \A i \in DOMAIN calls :
       calls'[i].node = calls[i].node /\ calls'[i].todo \subseteq calls[i].todo
  /\ \A i \in DOMAIN calls : calls[i].todo \subseteq calls'[i].todo \cup {m}
  /\ \A i \in DOMAIN calls : i # Len(calls) => calls'[i].todo = calls[i].todo
  /\ m \in DOMAIN indices /\ m \in Successors(graph, calls[Len(calls)].node)
  /\ \A x \in DOMAIN indices : x # calls[Len(calls)].node => lowlink'[x] = lowlink[x]
  /\ \/ m \in Range(stack)
        /\ lowlink'[calls[Len(calls)].node] = Lesser(lowlink[calls[Len(calls)].node], indices[m])
     \/ m \notin Range(stack)
        /\ lowlink'[calls[Len(calls)].node] = lowlink[calls[Len(calls)].node]
  /\ UNCHANGED <<phase, graph, indices, stack, components>>

LEMMA OtherEdgeCompares ==
  ASSUME SInv, Connected, OtherEdge
  PROVE  phase = "components" /\ \E m : Compared(m)
<1> DEFINE l == Len(calls)
<1>1. phase = "components" /\ calls # << >>
  BY DEF OtherEdge
<1>2. Stacked /\ CallsOn(calls, stack) /\ calls \in Seq(CallFrames)
  BY <1>1 DEF SInv, CallsOn
<1>3. l \in DOMAIN calls /\ Top = calls[l] /\ l \in Nat /\ DOMAIN calls = 1 .. l
  BY <1>1, <1>2, EmptySeq, LenProperties DEF Top, Last
<1>4. PICK m \in Top.todo :
        /\ m \in DOMAIN indices
        /\ lowlink' = [lowlink EXCEPT ![Top.node] =
                         IF OnStack(m) THEN Lesser(@, indices[m]) ELSE @]
        /\ calls' = Pending(m)
        /\ UNCHANGED <<phase, graph, indices, stack, components>>
  BY DEF OtherEdge
<1>5. /\ Pending(m) \in Seq(CallFrames) /\ Len(Pending(m)) = l
      /\ \A i \in DOMAIN calls : Pending(m)[i].node = calls[i].node
      /\ \A i \in 1 .. (l - 1) : Pending(m)[i] = calls[i]
      /\ Pending(m)[l].todo = Top.todo \ {m}
  BY <1>1, <1>2, PendingCalls DEF CallFrames
<1>6. m \in Successors(graph, calls[l].node)
  BY <1>3, <1>4 DEF Connected, Searching
<1>7. DOMAIN calls' = DOMAIN calls /\ Len(calls') = l
  BY <1>3, <1>4, <1>5, LenProperties
<1>8. \A i \in DOMAIN calls :
        calls'[i].node = calls[i].node /\ (i # l => calls'[i].todo = calls[i].todo)
  <2> SUFFICES ASSUME NEW i \in DOMAIN calls, i # l PROVE calls'[i].todo = calls[i].todo
    BY <1>4, <1>5
  <2>1. i \in 1 .. (l - 1)
    BY <1>3
  <2> QED
    BY <1>4, <1>5, <2>1
<1>9. calls'[l].todo = calls[l].todo \ {m}
  BY <1>3, <1>4, <1>5
<1>10. DOMAIN lowlink = DOMAIN indices /\ calls[l].node \in DOMAIN indices
  BY <1>2, <1>3 DEF Stacked, CallsOn, Range
<1>11. /\ \A x \in DOMAIN indices : x # calls[l].node => lowlink'[x] = lowlink[x]
       /\ OnStack(m) => lowlink'[calls[l].node] = Lesser(lowlink[calls[l].node], indices[m])
       /\ ~ OnStack(m) => lowlink'[calls[l].node] = lowlink[calls[l].node]
  BY <1>3, <1>4, <1>10
<1>12. OnStack(m) <=> m \in Range(stack)
  BY DEF OnStack
<1> HIDE DEF l
<1>13. \A i \in DOMAIN calls : calls'[i].todo \subseteq calls[i].todo
                               /\ calls[i].todo \subseteq calls'[i].todo \cup {m}
  BY <1>8, <1>9
<1>14. Compared(m)
  BY <1>3, <1>4, <1>6, <1>7, <1>8, <1>11, <1>12, <1>13 DEF Compared, l
<1> QED
  BY <1>1, <1>14

\* A lowlink that gets lower is the number of a node that the edge reaches.
LEMMA ComparedConnects ==
  ASSUME Numbered, Connected, NEW m, Compared(m)
  PROVE  Connected'
<1> DEFINE l == Len(calls)
           c == calls[l].node
<1>1. /\ l \in DOMAIN calls /\ DOMAIN calls' = DOMAIN calls /\ Len(calls') = l
      /\ UNCHANGED <<graph, indices, stack, components>>
  BY DEF Compared
<1>2. \A i \in DOMAIN calls : calls'[i].node = calls[i].node /\ calls[i].node \in Range(stack)
  BY DEF Compared, Numbered
<1>3. \A x \in Range(stack) : indices[x] \in Nat /\ lowlink[x] \in Int /\ x \in DOMAIN indices
                              /\ lowlink[x] <= indices[x]
  BY DEF Numbered, Connected, LowReached
<1>4. /\ \A x \in Range(stack) : x # c => lowlink'[x] = lowlink[x]
      /\ c \in Range(stack)
      /\ lowlink'[c] = lowlink[c] \/ (m \in Range(stack) /\ lowlink'[c] = indices[m])
      /\ lowlink'[c] <= lowlink[c]
      /\ m \in Range(stack) => lowlink'[c] <= indices[m]
  <2>1. c \in Range(stack)
    BY <1>1, <1>2
  <2>2. \A x \in Range(stack) : x # c => lowlink'[x] = lowlink[x]
    BY <1>3 DEF Compared
  <2>3. CASE m \in Range(stack) /\ lowlink'[c] = Lesser(lowlink[c], indices[m])
    <3>1. lowlink[c] \in Int /\ indices[m] \in Nat
      BY <1>3, <2>1, <2>3
    <3> HIDE DEF c
    <3> QED
      BY <2>1, <2>2, <2>3, <3>1 DEF Lesser
  <2>4. CASE m \notin Range(stack) /\ lowlink'[c] = lowlink[c]
    <3>1. lowlink[c] \in Int
      BY <1>3, <2>1
    <3> HIDE DEF c
    <3> QED
      BY <2>1, <2>2, <2>4, <3>1
  <2> QED
    BY <2>3, <2>4 DEF Compared
<1>5. m \in Successors(graph, c) /\ m \in DOMAIN indices
  BY DEF Compared
<1>6. \A i \in DOMAIN calls : calls[i].node = c => i = l
  <2> SUFFICES ASSUME NEW i \in DOMAIN calls, i # l PROVE calls[i].node # c
    OBVIOUS
  <2>1. i < l
    BY <1>1 DEF Numbered
  <2>2. indices[calls[i].node] < indices[c]
    BY <1>1, <2>1 DEF Numbered
  <2> QED
    BY <1>1, <1>2, <1>3, <2>2
<1> HIDE DEF c, l
<1>7. Searching'
  <2>1. \A i \in DOMAIN calls' : calls'[i].todo \subseteq Successors(graph', calls'[i].node)
    <3> SUFFICES ASSUME NEW i \in DOMAIN calls
                 PROVE  calls'[i].todo \subseteq Successors(graph, calls[i].node)
      BY <1>1, <1>2
    <3>1. calls[i].todo \subseteq Successors(graph, calls[i].node)
      BY DEF Connected, Searching
    <3> QED
      BY <3>1 DEF Compared
  <2>2. NoEdgeLeaves(UNION Range(components))'
    BY <1>1 DEF Connected, Searching, NoEdgeLeaves
  <2> QED
    BY <2>1, <2>2 DEF Searching
<1>8. Rising'
  BY <1>1 DEF Connected, Rising
<1>9. Below'
  BY <1>1, <1>2 DEF Connected, Below, ReachedFrom, NoEdgeLeaves
<1>10. Above'
  BY <1>1, <1>2 DEF Connected, Above, ReachedFrom, NoEdgeLeaves
<1>11. LowReached'
  <2> SUFFICES ASSUME NEW x \in Range(stack)
               PROVE  lowlink'[x] <= indices[x]
                      /\ \E y \in Range(stack) : indices[y] = lowlink'[x] /\ y \in ReachedFrom(x)
    BY <1>1 DEF LowReached, ReachedFrom, NoEdgeLeaves
  <2>1. CASE lowlink'[x] = lowlink[x]
    BY <2>1 DEF Connected, LowReached
  <2>2. CASE x = c /\ m \in Range(stack) /\ lowlink'[x] = indices[m]
    <3>1. m \in ReachedFrom(x)
      BY <1>5, <2>2, ReachNext
    <3>2. lowlink'[x] <= indices[x]
      BY <1>3, <1>4, <2>2
    <3> QED
      BY <2>2, <3>1, <3>2
  <2> QED
    BY <1>4, <2>1, <2>2
<1>12. Followed'
  <2> SUFFICES ASSUME NEW x \in Range(stack), NEW z \in Successors(graph, x), z \notin DOMAIN indices
               PROVE  \E i \in DOMAIN calls' : calls'[i].node = x /\ z \in calls'[i].todo
    BY <1>1 DEF Followed
  <2>1. PICK i \in DOMAIN calls : calls[i].node = x /\ z \in calls[i].todo
    BY DEF Connected, Followed
  <2>2. z \in calls'[i].todo
    BY <1>5, <2>1 DEF Compared
  <2> QED
    BY <1>1, <1>2, <2>1, <2>2
<1>13. LowCovers'
  <2> SUFFICES ASSUME NEW i \in DOMAIN calls, NEW x \in Range(stack), NEW z \in Range(stack),
                      LiesWith(i, x)', z \in Successors(graph, x),
                      ~ (x = calls[i].node /\ z \in calls'[i].todo)
               PROVE  lowlink'[calls[i].node] <= indices[z]
    BY <1>1, <1>2 DEF LowCovers
  <2>1. LiesWith(i, x)
    <3>1. i < Len(calls) => i + 1 \in DOMAIN calls
      BY DEF Numbered
    <3>2. i < Len(calls) => calls'[i + 1].node = calls[i + 1].node
      BY <1>2, <3>1
    <3> QED
      BY <1>1, <1>2, <3>2 DEF LiesWith, l
  <2>2. CASE x = c /\ i = l /\ z = m
    BY <1>4, <2>2 DEF c
  <2>3. CASE ~ (x = c /\ i = l /\ z = m)
    <3>1. ~ (x = calls[i].node /\ z \in calls[i].todo)
      <4>1. CASE i # l
        BY <4>1 DEF Compared, l
      <4>2. CASE i = l /\ z # m
        BY <4>2 DEF Compared
      <4>3. CASE i = l /\ x # c
        BY <4>3 DEF c
      <4> QED
        BY <2>3, <4>1, <4>2, <4>3
    <3>2. lowlink[calls[i].node] <= indices[z]
      BY <2>1, <3>1 DEF Connected, LowCovers
    <3>3. CASE calls[i].node = c
      <4>1. lowlink'[c] <= lowlink[c] /\ lowlink[c] \in Int /\ indices[z] \in Nat
        BY <1>3, <1>4
      <4>2. lowlink'[c] \in Int
        BY <1>3, <1>4
      <4> QED
        BY <3>2, <3>3, <4>1, <4>2
    <3>4. CASE calls[i].node # c
      BY <1>2, <1>4, <3>2, <3>4
    <3> QED
      BY <3>3, <3>4
  <2> QED
    BY <2>2, <2>3
<1> QED
  BY <1>7, <1>8, <1>9, <1>10, <1>11, <1>12, <1>13 DEF Connected

\* What the end of the call of n changes: the calls below it stay, and the last of them
\* gets the lesser lowlink.
Returned(n) ==
  /\ Len(calls) \in Nat /\ DOMAIN calls = 1 .. Len(calls) /\ Len(calls) \in DOMAIN calls
  /\ n = calls[Len(calls)].node /\ calls[Len(calls)].todo = {}
  /\ DOMAIN calls' = 1 .. (Len(calls) - 1) /\ Len(calls') = Len(calls) - 1
  /\ \A i \in 1 .. (Len(calls) - 1) : calls'[i] = calls[i]
  /\ Len(calls) # 1 => lowlink'[calls[Len(calls) - 1].node]
                       = Lesser(lowlink[calls[Len(calls) - 1].node], lowlink[n])
  /\ \A x \in DOMAIN indices :
       (Len(calls) # 1 => x # calls[Len(calls) - 1].node) => lowlink'[x] = lowlink[x]
  /\ UNCHANGED <<phase, graph, indices>>

LEMMA LeaveReturns ==
  ASSUME SInv, Leave
  PROVE  /\ phase = "components" /\ Returned(Top.node)
         /\ lowlink[Top.node] # indices[Top.node] => UNCHANGED <<stack, components>>
         /\ lowlink[Top.node] = indices[Top.node] =>
              \E p \in DOMAIN stack : \E P : stack[p] = Top.node /\ Pops(Top.node, p, P)
<1> DEFINE l == Len(calls)
           n == Top.node
<1>1. phase = "components" /\ calls # << >> /\ Stacked /\ CallsOn(calls, stack)
  BY DEF Leave, SInv
<1>2. /\ lowlink[n] # indices[n] => components' = components /\ stack' = stack
      /\ calls' = Front(calls) /\ Top.todo = {}
      /\ UNCHANGED <<phase, graph, indices>>
  BY DEF Leave
<1>3. /\ l \in Nat /\ DOMAIN calls = 1 .. l /\ l \in DOMAIN calls /\ Top = calls[l]
  BY <1>1, EmptySeq, LenProperties DEF CallsOn, Top, Last
<1>4. /\ calls' \in Seq(CallFrames) /\ DOMAIN calls' = 1 .. (l - 1) /\ Len(calls') = l - 1
      /\ \A i \in 1 .. (l - 1) : calls'[i] = calls[i]
  BY <1>1, <1>2, FrontOfCalls, LenProperties DEF CallsOn, CallFrames
<1>5. PICK p \in DOMAIN stack : stack[p] = n
  BY <1>1, <1>3 DEF CallsOn
<1>6. /\ l # 1 => lowlink'[calls[l - 1].node] = Lesser(lowlink[calls[l - 1].node], lowlink[n])
      /\ \A x \in DOMAIN indices : (l # 1 => x # calls[l - 1].node) => lowlink'[x] = lowlink[x]
  <2>1. DOMAIN lowlink = DOMAIN indices
    BY <1>1 DEF Stacked
  <2>2. CASE l = 1
    BY <2>2 DEF Leave
  <2>3. CASE l # 1
    <3>1. lowlink' = [lowlink EXCEPT ![calls[l - 1].node] = Lesser(@, lowlink[n])]
      BY <2>3 DEF Leave
    <3>2. calls[l - 1].node \in DOMAIN lowlink
      <4>1. l - 1 \in DOMAIN calls
        BY <1>3, <2>3
      <4>2. calls[l - 1].node \in Range(stack)
        BY <1>1, <4>1 DEF CallsOn, Range
      <4> QED
        BY <1>1, <4>2 DEF Stacked
    <3> HIDE DEF l, n
    <3> QED
      BY <2>1, <2>3, <3>1, <3>2
  <2> QED
    BY <2>2, <2>3
<1>7. Returned(n)
  BY <1>2, <1>3, <1>4, <1>6 DEF Returned
<1>8. ASSUME lowlink[n] = indices[n] PROVE \E P : stack[p] = n /\ Pops(n, p, P)
  <2>1. n = Top.node /\ lowlink[n] = indices[n] /\ Stacked /\ Leave
    BY <1>1, <1>8
  <2> HIDE DEF n
  <2>2. \E P : Pops(n, p, P)
    BY <1>5, <2>1, RootPops
  <2> QED
    BY <1>5, <2>2
<1> QED
  BY <1>1, <1>2, <1>5, <1>7, <1>8

\* What a caller keeps, and the lesser lowlink it gets.
LEMMA Callers ==
  ASSUME Numbered, Connected, NEW n, Returned(n)
  PROVE  /\ n \in Range(stack) /\ n = calls[Len(calls)].node
         /\ \A i \in DOMAIN calls' :
              /\ i \in DOMAIN calls /\ i < Len(calls) /\ calls'[i] = calls[i]
              /\ indices[calls[i].node] < indices[n]
         /\ \A i \in DOMAIN calls : i \in DOMAIN calls' \/ i = Len(calls)
         /\ \A x \in Range(stack) :
              \/ lowlink'[x] = lowlink[x]
              \/ /\ Len(calls) # 1 /\ x = calls[Len(calls) - 1].node
                 /\ lowlink'[x] = lowlink[n] /\ lowlink[n] < lowlink[x]
         /\ Len(calls) # 1 => /\ Len(calls) - 1 \in DOMAIN calls'
                              /\ lowlink'[calls[Len(calls) - 1].node] <= lowlink[n]
         /\ \A x \in Range(stack) : lowlink'[x] <= lowlink[x] /\ lowlink'[x] \in Int
<1> DEFINE l == Len(calls)
           c == calls[l - 1].node
<1>1. /\ l \in Nat /\ DOMAIN calls = 1 .. l /\ l \in DOMAIN calls /\ n = calls[l].node
      /\ DOMAIN calls' = 1 .. (l - 1) /\ \A i \in 1 .. (l - 1) : calls'[i] = calls[i]
  BY DEF Returned
<1>2. n \in Range(stack) /\ n = calls[l].node
  BY <1>1 DEF Numbered
<1>3. ASSUME NEW i \in DOMAIN calls'
      PROVE  /\ i \in DOMAIN calls /\ i < l /\ calls'[i] = calls[i]
             /\ indices[calls[i].node] < indices[n]
  <2>1. i \in DOMAIN calls /\ i < l /\ calls'[i] = calls[i]
    BY <1>1
  <2> QED
    BY <1>1, <2>1 DEF Numbered
<1>4. \A i \in DOMAIN calls : i \in DOMAIN calls' \/ i = l
  BY <1>1
<1>5. l # 1 => l - 1 \in DOMAIN calls' /\ c \in Range(stack)
  BY <1>1 DEF Numbered
<1>6. \A x \in Range(stack) : x \in DOMAIN indices /\ lowlink[x] \in Int
  BY DEF Numbered
<1>7. /\ l # 1 => lowlink'[c] = Lesser(lowlink[c], lowlink[n])
      /\ \A x \in Range(stack) : (l # 1 => x # c) => lowlink'[x] = lowlink[x]
  BY <1>6 DEF Returned
<1>8. l # 1 => \/ lowlink'[c] = lowlink[c] /\ lowlink[c] <= lowlink[n]
               \/ lowlink'[c] = lowlink[n] /\ lowlink[n] < lowlink[c]
  <2>1. ASSUME NEW a \in Int, NEW b \in Int
        PROVE  (Lesser(a, b) = a /\ a <= b) \/ (Lesser(a, b) = b /\ b < a)
    BY DEF Lesser
  <2>2. l # 1 => lowlink[c] \in Int /\ lowlink[n] \in Int
    BY <1>2, <1>5, <1>6
  <2> HIDE DEF l, c
  <2> QED
    BY <1>7, <2>1, <2>2
<1>a. lowlink[n] \in Int
  BY <1>2, <1>6
<1>b. l # 1 => c \in Range(stack)
  BY <1>5
<1> HIDE DEF c
<1>9. \A x \in Range(stack) :
        \/ lowlink'[x] = lowlink[x]
        \/ l # 1 /\ x = c /\ lowlink'[x] = lowlink[n] /\ lowlink[n] < lowlink[x]
  BY <1>7, <1>8
<1>10. \A x \in Range(stack) : lowlink'[x] <= lowlink[x] /\ lowlink'[x] \in Int
  BY <1>6, <1>9, <1>a
<1>11. l # 1 => lowlink'[c] <= lowlink[n]
  BY <1>8, <1>a
<1> QED
  BY <1>2, <1>3, <1>4, <1>5, <1>9, <1>10, <1>11 DEF c

\* What the end of any call keeps.
LEMMA ReturnedKeeps ==
  ASSUME Numbered, Connected, NEW n, Returned(n), UNCHANGED <<stack, components>>
  PROVE  Searching' /\ Rising' /\ Below' /\ Followed'
<1>1. /\ n = calls[Len(calls)].node /\ calls[Len(calls)].todo = {}
      /\ UNCHANGED <<graph, indices, stack, components>>
  BY DEF Returned
<1>2. \A i \in DOMAIN calls' : i \in DOMAIN calls /\ calls'[i] = calls[i]
  BY Callers
<1>3. \A i \in DOMAIN calls : i \in DOMAIN calls' \/ i = Len(calls)
  BY Callers
<1>4. Searching'
  BY <1>1, <1>2 DEF Connected, Searching, NoEdgeLeaves
<1>5. Rising'
  BY <1>1 DEF Connected, Rising
<1>6. Below'
  BY <1>1, <1>2 DEF Connected, Below, ReachedFrom, NoEdgeLeaves
<1>7. Followed'
  <2> SUFFICES ASSUME NEW x \in Range(stack), NEW z \in Successors(graph, x), z \notin DOMAIN indices
               PROVE  \E i \in DOMAIN calls' : calls'[i].node = x /\ z \in calls'[i].todo
    BY <1>1 DEF Followed
  <2>1. PICK i \in DOMAIN calls : calls[i].node = x /\ z \in calls[i].todo
    BY DEF Connected, Followed
  <2> QED
    BY <1>1, <1>2, <1>3, <2>1
<1> QED
  BY <1>4, <1>5, <1>6, <1>7

\* A call that is not of a root ends: it reaches what is lower on the stack, and so a
\* call below it.
LEMMA InnerConnects ==
  ASSUME Numbered, Connected, NEW n, Returned(n), lowlink[n] # indices[n],
         UNCHANGED <<stack, components>>
  PROVE  Connected'
<1> DEFINE l == Len(calls)
           c == calls[l - 1].node
<1>1. UNCHANGED <<graph, indices, stack>>
  BY DEF Returned
<1>2. /\ n \in Range(stack) /\ n = calls[l].node
      /\ \A i \in DOMAIN calls' :
           /\ i \in DOMAIN calls /\ i < l /\ calls'[i] = calls[i]
           /\ indices[calls[i].node] < indices[n]
      /\ \A i \in DOMAIN calls : i \in DOMAIN calls' \/ i = l
  BY Callers
<1>3. /\ \A x \in Range(stack) :
           \/ lowlink'[x] = lowlink[x]
           \/ l # 1 /\ x = c /\ lowlink'[x] = lowlink[n] /\ lowlink[n] < lowlink[x]
      /\ l # 1 => l - 1 \in DOMAIN calls' /\ lowlink'[c] <= lowlink[n]
      /\ \A x \in Range(stack) : lowlink'[x] <= lowlink[x] /\ lowlink'[x] \in Int
  BY Callers
<1>4. \A x \in Range(stack) : indices[x] \in Nat /\ lowlink[x] \in Int /\ lowlink[x] <= indices[x]
  BY DEF Numbered, Connected, LowReached
<1>5. l \in Nat /\ DOMAIN calls = 1 .. l /\ l \in DOMAIN calls /\ Len(calls') = l - 1
      /\ DOMAIN calls' = 1 .. (l - 1) /\ calls[l].todo = {}
  BY DEF Returned
<1>6. \A i \in DOMAIN calls : calls[i].node \in Range(stack)
  BY DEF Numbered
<1>7. PICK y \in Range(stack) : indices[y] = lowlink[n] /\ y \in ReachedFrom(n)
  BY <1>2 DEF Connected, LowReached
<1>8. indices[y] < indices[n]
  BY <1>2, <1>4, <1>7
<1>9. PICK j \in DOMAIN calls : indices[calls[j].node] <= indices[y] /\ calls[j].node \in ReachedFrom(y)
  BY DEF Connected, Above
<1>10. j \in DOMAIN calls' /\ calls[j].node \in ReachedFrom(n) /\ indices[calls[j].node] < indices[n]
  <2>1. indices[calls[j].node] < indices[n]
    BY <1>2, <1>4, <1>6, <1>8, <1>9
  <2>2. j # l
    BY <1>2, <1>4, <2>1
  <2> QED
    BY <1>2, <1>7, <1>9, <2>1, <2>2, ReachOn
<1> HIDE DEF c, l
<1>11. Above'
  <2> SUFFICES ASSUME NEW x \in Range(stack)
               PROVE  \E i \in DOMAIN calls' : indices[calls[i].node] <= indices[x]
                                               /\ calls[i].node \in ReachedFrom(x)
    BY <1>1, <1>2 DEF Above, ReachedFrom, NoEdgeLeaves
  <2>1. PICK i \in DOMAIN calls : indices[calls[i].node] <= indices[x] /\ calls[i].node \in ReachedFrom(x)
    BY DEF Connected, Above
  <2>2. CASE i = l
    <3>1. indices[calls[j].node] <= indices[x]
      BY <1>2, <1>4, <1>6, <1>10, <2>1, <2>2
    <3>2. calls[j].node \in ReachedFrom(x)
      BY <1>2, <1>10, <2>1, <2>2, ReachOn
    <3> QED
      BY <1>10, <3>1, <3>2
  <2>3. CASE i \in DOMAIN calls'
    BY <2>1, <2>3
  <2> QED
    BY <1>2, <2>2, <2>3
<1>12. LowReached'
  <2> SUFFICES ASSUME NEW x \in Range(stack)
               PROVE  lowlink'[x] <= indices[x]
                      /\ \E z \in Range(stack) : indices[z] = lowlink'[x] /\ z \in ReachedFrom(x)
    BY <1>1 DEF LowReached, ReachedFrom, NoEdgeLeaves
  <2>1. lowlink'[x] <= indices[x]
    BY <1>3, <1>4
  <2>2. CASE lowlink'[x] = lowlink[x]
    BY <2>1, <2>2 DEF Connected, LowReached
  <2>3. CASE l # 1 /\ x = c /\ lowlink'[x] = lowlink[n]
    <3>1. l - 1 \in DOMAIN calls /\ indices[c] < indices[n]
      BY <1>2, <1>3, <2>3 DEF c
    <3>2. n \in ReachedFrom(c)
      <4>1. indices[calls[l - 1].node] <= indices[n]
        BY <1>2, <1>4, <1>6, <3>1 DEF c
      <4> QED
        BY <1>2, <3>1, <4>1 DEF Connected, Below, c
    <3>3. y \in ReachedFrom(c)
      BY <1>7, <3>2, ReachOn
    <3> QED
      BY <1>7, <2>1, <2>3, <3>3
  <2> QED
    BY <1>3, <2>2, <2>3
<1>13. LowCovers'
  <2> SUFFICES ASSUME NEW i \in DOMAIN calls', NEW x \in Range(stack), NEW z \in Range(stack),
                      LiesWith(i, x)', z \in Successors(graph, x),
                      ~ (x = calls[i].node /\ z \in calls[i].todo)
               PROVE  lowlink'[calls[i].node] <= indices[z]
    BY <1>1, <1>2 DEF LowCovers
  <2>1. i \in DOMAIN calls /\ i < l /\ calls[i].node \in Range(stack) /\ i \in Nat /\ i + 1 \in DOMAIN calls
    BY <1>2, <1>5, <1>6
  <2>2. indices[calls[i].node] <= indices[x]
    BY <1>1, <1>2 DEF LiesWith
  <2>3. CASE LiesWith(i, x)
    <3>1. lowlink[calls[i].node] <= indices[z]
      BY <2>1, <2>3 DEF Connected, LowCovers
    <3> QED
      BY <1>3, <1>4, <2>1, <3>1
  <2>4. CASE ~ LiesWith(i, x)
    <3>1. ~ (indices[x] < indices[calls[i + 1].node])
      BY <2>2, <2>4 DEF LiesWith
    <3>2. ~ (i < Len(calls'))
      <4>1. i < Len(calls') => i + 1 \in DOMAIN calls'
        BY <1>5, <2>1
      <4> QED
        BY <1>1, <1>2, <3>1, <4>1 DEF LiesWith
    <3>3. i = l - 1 /\ i + 1 = l /\ l # 1
      BY <1>5, <2>1, <3>2
    <3>4. indices[n] <= indices[x]
      BY <1>2, <1>4, <3>1, <3>3
    <3>5. lowlink[n] <= indices[z]
      <4>1. LiesWith(l, x)
        BY <1>2, <1>5, <3>4 DEF LiesWith, l
      <4> QED
        BY <1>2, <1>5, <4>1 DEF Connected, LowCovers
    <3> QED
      BY <1>2, <1>3, <1>4, <2>1, <3>3, <3>5 DEF c
  <2> QED
    BY <2>3, <2>4
<1> QED
  BY <1>11, <1>12, <1>13, ReturnedKeeps DEF Connected

\* What the root n takes off the stack has its number or one above.
Taken(n, P) ==
  /\ P = {y \in Range(stack) : indices[n] <= indices[y]} /\ n \in P
  /\ Range(stack') = {y \in Range(stack) : indices[y] < indices[n]}
  /\ \A a \in DOMAIN stack' : a \in DOMAIN stack /\ stack'[a] = stack[a]
  /\ n \notin DOMAIN components
  /\ DOMAIN components' = DOMAIN components \cup {n} /\ components'[n] = P
  /\ \A r \in DOMAIN components : components'[r] = components[r]
  /\ UNION Range(components') = (UNION Range(components)) \cup P

LEMMA PopsTake ==
  ASSUME Numbered, Connected, NEW n, NEW p \in DOMAIN stack, stack[p] = n,
         stack \in Seq(graph.node), NEW P, Pops(n, p, P)
  PROVE  Taken(n, P)
<1>1. DOMAIN stack = 1 .. Len(stack) /\ Len(stack) \in Nat /\ p \in 1 .. Len(stack)
  BY LenProperties
<1>2. /\ P = {stack[i] : i \in p .. Len(stack)} /\ n \in P
      /\ DOMAIN stack' = 1 .. (p - 1)
      /\ \A i \in 1 .. (p - 1) : stack'[i] = stack[i]
      /\ Range(stack) = Range(stack') \cup P /\ Range(stack') \cap P = {}
      /\ n \notin DOMAIN components
      /\ DOMAIN components' = DOMAIN components \cup {n} /\ components'[n] = P
      /\ \A r \in DOMAIN components : components'[r] = components[r]
  BY DEF Pops
<1>3. \A x \in Range(stack) : indices[x] \in Nat
  BY DEF Numbered
<1>4. \A i \in DOMAIN stack : stack[i] \in Range(stack)
  BY DEF Range
<1>5. ASSUME NEW i \in p .. Len(stack) PROVE indices[n] <= indices[stack[i]]
  <2>1. i \in DOMAIN stack /\ (p < i \/ p = i)
    BY <1>1
  <2>2. p < i => indices[stack[p]] < indices[stack[i]]
    BY <2>1 DEF Connected, Rising
  <2> QED
    BY <1>3, <1>4, <2>1, <2>2
<1>6. ASSUME NEW i \in 1 .. (p - 1) PROVE indices[stack[i]] < indices[n]
  <2>1. i \in DOMAIN stack /\ i < p
    BY <1>1
  <2> QED
    BY <2>1 DEF Connected, Rising
<1>7. \A y \in P : y \in Range(stack) /\ indices[n] <= indices[y]
  BY <1>2, <1>5
<1>8. \A y \in Range(stack') : y \in Range(stack) /\ indices[y] < indices[n]
  BY <1>2, <1>6 DEF Range
<1>9. n \in Range(stack)
  BY <1>4
<1>10. P = {y \in Range(stack) : indices[n] <= indices[y]}
  BY <1>2, <1>3, <1>7, <1>8, <1>9
<1>11. Range(stack') = {y \in Range(stack) : indices[y] < indices[n]}
  BY <1>2, <1>3, <1>7, <1>8, <1>9
<1>12. \A a \in DOMAIN stack' : a \in DOMAIN stack /\ stack'[a] = stack[a]
  BY <1>1, <1>2
<1>13. UNION Range(components') = (UNION Range(components)) \cup P
  <2>1. Range(components') = Range(components) \cup {P}
    <3>1. /\ DOMAIN components' = DOMAIN components \cup {n} /\ components'[n] = P
          /\ \A r \in DOMAIN components : components'[r] = components[r]
      BY <1>2
    <3> QED
      BY <3>1 DEF Range
  <2> QED
    BY <2>1
<1> QED
  BY <1>2, <1>10, <1>11, <1>12, <1>13 DEF Taken

\* No edge leaves what has been popped once the root takes P; all of P reach the root, and
\* it reaches them.
LEMMA RootIsStrong ==
  ASSUME IsDirectedGraph(graph), Numbered, Connected, NEW n, Returned(n), lowlink[n] = indices[n],
         NEW P, Taken(n, P)
  PROVE  P = StronglyWith(n) /\ NoEdgeLeaves((UNION Range(components)) \cup P)
<1> DEFINE l == Len(calls)
           D == UNION Range(components)
<1>1. l \in Nat /\ DOMAIN calls = 1 .. l /\ l \in DOMAIN calls /\ n = calls[l].node /\ calls[l].todo = {}
  BY DEF Returned
<1>2. P = {y \in Range(stack) : indices[n] <= indices[y]} /\ n \in P
  BY DEF Taken
<1>3. \A x \in Range(stack) : indices[x] \in Nat /\ x \in graph.node
  BY DEF Numbered
<1>4. NoEdgeLeaves(D)
  BY DEF Connected, Searching
<1>5. Range(stack) \cap D = {} /\ Range(stack) \cup D = DOMAIN indices /\ DOMAIN indices \subseteq graph.node
  BY DEF Numbered
<1>6. \A i \in DOMAIN calls : calls[i].node \in Range(stack)
  BY DEF Numbered
<1>7. \A i \in DOMAIN calls : i # l => indices[calls[i].node] < indices[n]
  BY <1>1 DEF Numbered
<1> HIDE DEF l, D
<1>8. ASSUME NEW y \in P PROVE y \in StronglyWith(n)
  <2>1. y \in ReachedFrom(n)
    BY <1>1, <1>2 DEF Connected, Below
  <2>2. PICK i \in DOMAIN calls : indices[calls[i].node] <= indices[y] /\ calls[i].node \in ReachedFrom(y)
    BY <1>2 DEF Connected, Above
  <2>3. n \in ReachedFrom(calls[i].node)
    <3>1. indices[calls[i].node] <= indices[n]
      BY <1>1, <1>2, <1>3, <1>6, <1>7
    <3> QED
      BY <1>2, <3>1 DEF Connected, Below
  <2>4. n \in ReachedFrom(y)
    BY <2>2, <2>3, ReachOn
  <2> QED
    BY <2>1, <2>4 DEF StronglyWith
<1>9. ASSUME NEW x \in P, NEW z \in Successors(graph, x) PROVE z \in D \cup P
  <2>1. x \in Range(stack) /\ indices[n] <= indices[x]
    BY <1>2
  <2>2. ASSUME NEW i \in DOMAIN calls, calls[i].node = x PROVE z \notin calls[i].todo
    <3>1. i = l
      BY <1>2, <1>3, <1>7, <2>1, <2>2
    <3> QED
      BY <1>1, <3>1
  <2>3. z \in DOMAIN indices
    BY <2>1, <2>2 DEF Connected, Followed
  <2>4. CASE z \in Range(stack)
    <3>1. LiesWith(l, x)
      BY <1>1, <2>1 DEF LiesWith, l
    <3>2. lowlink[n] <= indices[z]
      BY <1>1, <2>1, <2>4, <3>1 DEF Connected, LowCovers
    <3> QED
      BY <1>2, <2>4, <3>2
  <2> QED
    BY <1>5, <2>3, <2>4
<1>10. D \cup P \subseteq graph.node
  BY <1>2, <1>3, <1>5
<1>11. NoEdgeLeaves(D \cup P)
  <2> SUFFICES ASSUME NEW e \in graph.edge, e[1] \in D \cup P PROVE e[2] \in D \cup P
    BY DEF NoEdgeLeaves
  <2>1. CASE e[1] \in D
    BY <1>4, <2>1 DEF NoEdgeLeaves
  <2>2. CASE e[1] \in P
    <3>1. e[2] \in Successors(graph, e[1])
      BY DEF Successors, IsDirectedGraph
    <3> QED
      BY <1>9, <2>2, <3>1
  <2> QED
    BY <2>1, <2>2
<1>12. ASSUME NEW m \in StronglyWith(n) PROVE m \in P
  <2>1. m \in ReachedFrom(n) /\ n \in ReachedFrom(m)
    BY DEF StronglyWith
  <2>2. m \in D \cup P
    BY <1>2, <1>10, <1>11, <2>1, ReachWithin
  <2>3. CASE m \in D
    <3>1. D \in SUBSET graph.node
      BY <1>10
    <3>2. ReachedFrom(m) \subseteq D
      BY <1>4, <2>3, <3>1, ReachWithin
    <3> QED
      BY <1>2, <1>5, <2>1, <3>2
  <2> QED
    BY <2>2, <2>3
<1> QED
  BY <1>8, <1>11, <1>12 DEF D

\* The call of a root ends: what is left on the stack is below it, and so is the caller,
\* whose lowlink is not above its own number.
LEMMA RootConnects ==
  ASSUME IsDirectedGraph(graph), Numbered, Connected, NEW n, Returned(n),
         lowlink[n] = indices[n], NEW P, Taken(n, P)
  PROVE  Connected'
<1> DEFINE l == Len(calls)
           c == calls[l - 1].node
<1>1. UNCHANGED <<graph, indices>>
  BY DEF Returned
<1>2. /\ n \in Range(stack) /\ n = calls[l].node
      /\ \A i \in DOMAIN calls' :
           /\ i \in DOMAIN calls /\ i < l /\ calls'[i] = calls[i]
           /\ indices[calls[i].node] < indices[n]
      /\ \A i \in DOMAIN calls : i \in DOMAIN calls' \/ i = l
  BY Callers
<1>3. \A x \in Range(stack) :
        \/ lowlink'[x] = lowlink[x]
        \/ l # 1 /\ x = c /\ lowlink'[x] = lowlink[n] /\ lowlink[n] < lowlink[x] /\ l - 1 \in DOMAIN calls'
  BY Callers
<1>4. \A x \in Range(stack) : indices[x] \in Nat /\ lowlink[x] \in Int /\ lowlink[x] <= indices[x]
  BY DEF Numbered, Connected, LowReached
<1>5. l \in Nat /\ DOMAIN calls = 1 .. l /\ l \in DOMAIN calls /\ Len(calls') = l - 1
      /\ DOMAIN calls' = 1 .. (l - 1) /\ calls[l].todo = {}
  BY DEF Returned
<1>6. \A i \in DOMAIN calls : calls[i].node \in Range(stack)
  BY DEF Numbered
<1>7. /\ Range(stack') = {y \in Range(stack) : indices[y] < indices[n]}
      /\ \A a \in DOMAIN stack' : a \in DOMAIN stack /\ stack'[a] = stack[a]
      /\ UNION Range(components') = (UNION Range(components)) \cup P
  BY DEF Taken
<1>8. \A x \in Range(stack) : lowlink'[x] = lowlink[x]
  <2> SUFFICES ASSUME NEW x \in Range(stack), l # 1, x = c, lowlink[n] < lowlink[x], l - 1 \in DOMAIN calls'
               PROVE  FALSE
    BY <1>3
  <2>1. indices[c] < indices[n]
    BY <1>2
  <2>2. lowlink[x] <= indices[x] /\ indices[x] \in Nat /\ lowlink[x] \in Int
        /\ indices[n] \in Nat
    BY <1>2, <1>4
  <2> HIDE DEF c, l
  <2> QED
    BY <2>1, <2>2
<1> HIDE DEF c, l
<1>9. Searching'
  <2>1. NoEdgeLeaves((UNION Range(components)) \cup P)
    BY RootIsStrong
  <2>2. NoEdgeLeaves(UNION Range(components))'
    BY <1>1, <1>7, <2>1 DEF NoEdgeLeaves
  <2>3. \A i \in DOMAIN calls' : calls'[i].todo \subseteq Successors(graph', calls'[i].node)
    BY <1>1, <1>2 DEF Connected, Searching
  <2> QED
    BY <2>2, <2>3 DEF Searching
<1>10. Rising'
  <2> SUFFICES ASSUME NEW a \in DOMAIN stack', NEW b \in DOMAIN stack', a < b
               PROVE  indices[stack[a]] < indices[stack[b]]
    BY <1>1, <1>7 DEF Rising
  <2>1. a \in DOMAIN stack /\ b \in DOMAIN stack
    BY <1>7
  <2> QED
    BY <2>1 DEF Connected, Rising
<1>11. Below'
  <2> SUFFICES ASSUME NEW i \in DOMAIN calls', NEW y \in Range(stack'),
                      indices[calls[i].node] <= indices[y]
               PROVE  y \in ReachedFrom(calls[i].node)
    BY <1>1, <1>2 DEF Below, ReachedFrom, NoEdgeLeaves
  <2> QED
    BY <1>2, <1>7 DEF Connected, Below
<1>12. Above'
  <2> SUFFICES ASSUME NEW y \in Range(stack')
               PROVE  \E i \in DOMAIN calls' : indices[calls[i].node] <= indices[y]
                                               /\ calls[i].node \in ReachedFrom(y)
    BY <1>1, <1>2 DEF Above, ReachedFrom, NoEdgeLeaves
  <2>1. y \in Range(stack) /\ indices[y] < indices[n]
    BY <1>7
  <2>2. PICK i \in DOMAIN calls : indices[calls[i].node] <= indices[y] /\ calls[i].node \in ReachedFrom(y)
    BY <2>1 DEF Connected, Above
  <2>3. i # l
    BY <1>2, <1>4, <2>1, <2>2
  <2> QED
    BY <1>2, <2>2, <2>3
<1>13. LowReached'
  <2> SUFFICES ASSUME NEW x \in Range(stack')
               PROVE  lowlink'[x] <= indices[x]
                      /\ \E y \in Range(stack') : indices[y] = lowlink'[x] /\ y \in ReachedFrom(x)
    BY <1>1 DEF LowReached, ReachedFrom, NoEdgeLeaves
  <2>1. x \in Range(stack) /\ indices[x] < indices[n]
    BY <1>7
  <2>2. lowlink[x] <= indices[x]
    BY <1>4, <2>1
  <2>3. PICK y \in Range(stack) : indices[y] = lowlink[x] /\ y \in ReachedFrom(x)
    BY <2>1 DEF Connected, LowReached
  <2>4. indices[y] < indices[n]
    BY <1>2, <1>4, <2>1, <2>2, <2>3
  <2> QED
    BY <1>7, <1>8, <2>1, <2>2, <2>3, <2>4
<1>14. Followed'
  <2> SUFFICES ASSUME NEW x \in Range(stack'), NEW z \in Successors(graph, x), z \notin DOMAIN indices
               PROVE  \E i \in DOMAIN calls' : calls'[i].node = x /\ z \in calls'[i].todo
    BY <1>1 DEF Followed
  <2>1. x \in Range(stack)
    BY <1>7
  <2>2. PICK i \in DOMAIN calls : calls[i].node = x /\ z \in calls[i].todo
    BY <2>1 DEF Connected, Followed
  <2> QED
    BY <1>2, <1>5, <2>2
<1>15. LowCovers'
  <2> SUFFICES ASSUME NEW i \in DOMAIN calls', NEW x \in Range(stack'), NEW z \in Range(stack'),
                      LiesWith(i, x)', z \in Successors(graph, x),
                      ~ (x = calls[i].node /\ z \in calls[i].todo)
               PROVE  lowlink'[calls[i].node] <= indices[z]
    BY <1>1, <1>2 DEF LowCovers
  <2>1. i \in DOMAIN calls /\ i < l /\ calls[i].node \in Range(stack) /\ i \in Nat /\ i + 1 \in DOMAIN calls
    BY <1>2, <1>5, <1>6
  <2>2. x \in Range(stack) /\ z \in Range(stack) /\ indices[x] < indices[n]
    BY <1>7
  <2>3. indices[calls[i].node] <= indices[x]
    BY <1>1, <1>2 DEF LiesWith
  <2>4. indices[x] < indices[calls[i + 1].node]
    <3>1. CASE i + 1 = l
      BY <1>2, <2>2, <3>1
    <3>2. CASE i + 1 # l
      <4>1. i < Len(calls') /\ i + 1 \in DOMAIN calls'
        BY <1>5, <2>1, <3>2
      <4> QED
        BY <1>1, <1>2, <4>1 DEF LiesWith
    <3> QED
      BY <3>1, <3>2
  <2>5. LiesWith(i, x)
    BY <2>3, <2>4 DEF LiesWith
  <2>6. lowlink[calls[i].node] <= indices[z]
    BY <2>1, <2>2, <2>5 DEF Connected, LowCovers
  <2> QED
    BY <1>8, <2>1, <2>6
<1> QED
  BY <1>9, <1>10, <1>11, <1>12, <1>13, <1>14, <1>15 DEF Connected

\* tarjan_scc: every step keeps the components strong and the rest of the search in order.
LEMMA SearchKeeps ==
  IInv /\ SInv /\ CInv /\ (ScanNode \/ TreeEdge \/ OtherEdge \/ Leave) => CInv'
<1> SUFFICES ASSUME IInv, SInv, CInv, ScanNode \/ TreeEdge \/ OtherEdge \/ Leave PROVE CInv'
  OBVIOUS
<1>1. phase = "components" /\ Connected /\ ComponentsAreStrong
  BY DEF CInv, ScanNode, TreeEdge, OtherEdge, Leave
<1>2. Numbered
  BY <1>1, CallsRise
<1>3. CASE ScanNode \/ TreeEdge
  <2>1. PICK n : Entered(n)
    BY <1>1, <1>3, CallsEnter
  <2>2. Connected'
    BY <1>1, <1>2, <2>1, EnteredConnects
  <2>3. UNCHANGED <<phase, graph, components>>
    BY <2>1 DEF Entered
  <2> QED
    BY <1>1, <2>2, <2>3, StrongStays DEF CInv
<1>4. CASE OtherEdge
  <2>1. PICK m : Compared(m)
    BY <1>1, <1>4, OtherEdgeCompares
  <2>2. Connected'
    BY <1>1, <1>2, <2>1, ComparedConnects
  <2>3. UNCHANGED <<phase, graph, components>>
    BY <2>1 DEF Compared
  <2> QED
    BY <1>1, <2>2, <2>3, StrongStays DEF CInv
<1>5. CASE Leave
  <2>1. PICK n : n = Top.node
    OBVIOUS
  <2>2. /\ Returned(n)
        /\ lowlink[n] # indices[n] => UNCHANGED <<stack, components>>
        /\ lowlink[n] = indices[n] => \E p \in DOMAIN stack : \E P : stack[p] = n /\ Pops(n, p, P)
    BY <1>5, <2>1, LeaveReturns
  <2>3. UNCHANGED <<phase, graph>>
    BY <2>2 DEF Returned
  <2>4. CASE lowlink[n] # indices[n]
    <3>1. Connected'
      BY <1>1, <1>2, <2>2, <2>4, InnerConnects
    <3> QED
      BY <1>1, <2>2, <2>3, <2>4, <3>1, StrongStays DEF CInv
  <2>5. CASE lowlink[n] = indices[n]
    <3>1. PICK p \in DOMAIN stack : \E P : stack[p] = n /\ Pops(n, p, P)
      BY <2>2, <2>5
    <3>2. PICK P : stack[p] = n /\ Pops(n, p, P)
      BY <3>1
    <3>3. stack \in Seq(graph.node)
      BY DEF SInv, Stacked
    <3>4. Taken(n, P)
      BY <1>1, <1>2, <3>2, <3>3, PopsTake
    <3>5. IsDirectedGraph(graph)
      BY DEF IInv, GraphsOK
    <3>6. P = StronglyWith(n)
      BY <1>1, <1>2, <2>2, <2>5, <3>4, <3>5, RootIsStrong
    <3>7. Connected'
      BY <1>1, <1>2, <2>2, <2>5, <3>4, <3>5, RootConnects
    <3>8. \A r \in DOMAIN components' : components'[r] = StronglyWith(r)
      BY <1>1, <3>4, <3>6 DEF Taken, ComponentsAreStrong
    <3>9. ASSUME NEW r \in DOMAIN components' PROVE components'[r] = StronglyWith(r)'
      BY <2>3, <3>8 DEF StronglyWith, ReachedFrom, NoEdgeLeaves
    <3> QED
      BY <1>1, <2>3, <3>7, <3>9 DEF CInv, ComponentsAreStrong
  <2> QED
    BY <2>4, <2>5
<1> QED
  BY <1>3, <1>4, <1>5

\* When no call runs, nothing is on the stack: the components have every node.
LEMMA OthersStrong ==
  IInv /\ SInv /\ CInv /\ (BeginCondense \/ AddComponent \/ EndCondense \/ ScanUnmarked \/ OrderEdge
                           \/ Mark \/ EndOrder \/ UNCHANGED graphVars) => CInv'
<1> SUFFICES ASSUME IInv, SInv, CInv, BeginCondense \/ AddComponent \/ EndCondense \/ ScanUnmarked
                    \/ OrderEdge \/ Mark \/ EndOrder \/ UNCHANGED graphVars
             PROVE  CInv'
  OBVIOUS
<1>1. UNCHANGED <<graph, tarjan>>
  BY DEF BeginCondense, AddComponent, EndCondense, ScanUnmarked, Visit, OrderEdge, Mark,
         EndOrder, graphVars, tarjan
<1>2. UNCHANGED <<graph, components, indices, lowlink, stack>>
  BY <1>1 DEF tarjan
<1>3. \A r \in DOMAIN components' : components'[r] = StronglyWith(r)'
  <2>1. \A r \in DOMAIN components : components[r] = StronglyWith(r)
    BY DEF CInv, ComponentsAreStrong
  <2> QED
    BY <1>2, <2>1 DEF StronglyWith, ReachedFrom, NoEdgeLeaves
<1>4. CASE UNCHANGED graphVars
  <2>1. UNCHANGED <<phase, calls>>
    BY <1>4 DEF graphVars
  <2>2. phase = "components" => Connected'
    <3>1. Searching' = Searching /\ Rising' = Rising
      BY <1>2, <2>1 DEF Searching, Rising, NoEdgeLeaves
    <3>2. Below' = Below /\ Above' = Above /\ LowReached' = LowReached
      BY <1>2, <2>1 DEF Below, Above, LowReached, ReachedFrom, NoEdgeLeaves
    <3>3. Followed' = Followed /\ LowCovers' = LowCovers
      BY <1>2, <2>1 DEF Followed, LowCovers, LiesWith
    <3> QED
      BY <3>1, <3>2, <3>3 DEF CInv, Connected
  <2> QED
    BY <1>2, <1>3, <2>1, <2>2 DEF CInv, ComponentsAreStrong
<1>5. CASE BeginCondense
  <2>1. phase = "components" /\ calls = << >> /\ graph.node = DOMAIN indices /\ phase' = "condense"
    BY <1>5 DEF BeginCondense
  <2>2. Range(stack) = {}
    BY <2>1 DEF CInv, Connected, Above
  <2>3. UNION Range(components) = graph.node
    BY <2>1, <2>2 DEF SInv, Stacked
  <2> QED
    BY <1>2, <1>3, <2>1, <2>3 DEF CInv, ComponentsAreStrong
<1>6. CASE AddComponent \/ EndCondense \/ ScanUnmarked \/ OrderEdge \/ Mark \/ EndOrder
  <2>1. phase \in {"condense", "order"} /\ phase' # "components"
    BY <1>6 DEF AddComponent, EndCondense, ScanUnmarked, Visit, OrderEdge, Mark, EndOrder
  <2>2. components # << >> => UNION Range(components) = graph.node
    BY <2>1 DEF CInv, ComponentsAreStrong
  <2> QED
    BY <1>2, <1>3, <2>1, <2>2 DEF CInv, ComponentsAreStrong
<1> QED
  BY <1>4, <1>5, <1>6

\* tarjan_scc: of every directed graph, whatever the addresses and in every order of the
\* edges, what a root takes off the stack is its strongly connected component, and in the
\* end the components have every node.
THEOREM ComponentsAreThoseOfTheGraph == GraphSpec => []ComponentsAreStrong
<1>1. GraphInit => CInv
  <2> SUFFICES ASSUME GraphInit PROVE CInv
    OBVIOUS
  <2>1. /\ calls = << >> /\ stack = << >> /\ components = << >> /\ indices = << >>
    BY DEF GraphInit, StartTarjan
  <2>2. Connected
    BY <2>1 DEF Connected, Searching, Rising, Below, Above, LowReached, Followed, LowCovers,
                NoEdgeLeaves, Range
  <2>3. ComponentsAreStrong
    BY <2>1 DEF ComponentsAreStrong
  <2> QED
    BY <2>2, <2>3 DEF CInv
<1>2. IInv /\ SInv /\ CInv /\ [GraphNext]_graphVars => CInv'
  BY SearchKeeps, OthersStrong DEF GraphNext
<1>3. CInv => ComponentsAreStrong
  BY DEF CInv
<1> QED
  BY <1>1, <1>2, <1>3, Inductive, StackInductive, PTL DEF GraphSpec
=============================================================================
