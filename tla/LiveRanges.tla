----------------------------- MODULE LiveRanges -----------------------------
(***************************************************************************)
(* LiveRangeAnalysis on the sequences of one function: the ranges of index *)
(* values (RangeAnalysis), the constraint graph, its evaluation along the  *)
(* condensation.  Ranges flow from an index to the sequence it reads, and  *)
(* from a sequence to the one it was made of.                              *)
(*                                                                         *)
(* The code of a function is a sequence of values: index values, arguments *)
(* and instructions; a value is named by its place in it.                  *)
(***************************************************************************)
EXTENDS DirectedGraph

CONSTANTS
  Functions,   \* the functions the analysis may be run on
  Size,        \* sequences have Size elements
  None         \* no function; the null pointer

\* A bound of a range: the number it stands for; whether it can be materialised at any
\* instruction; ConstantExpression, EndExpression, or another.
Bound == [value : 0 .. 2 * Size, available : BOOLEAN, form : {"constant", "end", "other"}]

Constant(c) == [value |-> c, available |-> TRUE, form |-> "constant"]
Argument(a) == [value |-> a, available |-> TRUE, form |-> "other"]
Variable(v) == [value |-> v, available |-> FALSE, form |-> "other"]
EndBound    == [value |-> Size, available |-> FALSE, form |-> "end"]

IndexOps   == {"constant", "argument", "induction", "bounded", "overdefined", "opaque"}
ReadOps    == {"IndexRead", "IndexGet"}
SharingOps == {"UsePHI", "IndexWrite", "PHI"}
UnimplementedOps == {"SeqInsert", "SeqInsertSeq", "SeqRemove", "SeqSwap", "SeqSwapWithin"}
DefiningOps == SharingOps \cup UnimplementedOps \cup {"SeqCopy", "SeqAlloc"}

\* [op, of, at, within, lo, hi]: the sequences it uses; its index (of a copy, where it
\* starts), if it has one, and whether it is in the loop that index is the induction
\* variable of; for an index, the first number it takes and the one after the last.
Value ==
  [op : IndexOps \cup ReadOps \cup DefiningOps \cup {"sequence", "call"},
   of : Seq(Nat), at : Nat, within : BOOLEAN, lo : 0 .. Size, hi : 0 .. Size]

ASSUME FunctionsAssumption == \A fn \in Functions : fn \in Seq(Value)

VARIABLES
  fn,        \* the function
  line,      \* the instruction add_uses_to_graph is at
  range,     \* node_prop: the range of each node, or None
  todo,      \* components left, in topological order
  members    \* nodes left of the component in hand

rangeVars == <<fn, line, range, todo, members>>

Op(v)    == fn[v].op
IsIndex(v) == Op(v) \in IndexOps

-----------------------------------------------------------------------------
(* RangeAnalysis *)

\* A constant, and an argument, is both bounds of its range: nothing is in it; an induction variable has
\* its start and exit values, overdefined has the whole sequence.
Bounds(i) ==
  CASE i.op = "constant"    -> <<Constant(i.lo), Constant(i.lo)>>
    [] i.op = "argument"    -> <<Argument(i.lo), Argument(i.lo)>>
    [] i.op = "induction"   -> <<Constant(i.lo), Constant(i.hi)>>
    [] i.op = "bounded"     -> <<Constant(i.lo), Variable(i.hi)>>
    [] i.op = "overdefined" -> <<Constant(0), EndBound>>

\* A range object: its bounds, and where it was allocated.
RangeOf(v) == [lower |-> Bounds(fn[v])[1], upper |-> Bounds(fn[v])[2], made |-> <<v, v>>]

\* get_value_range is MEMOIR_UNREACHABLE for an instruction that is no induction
\* variable, and where it is used outside its loop.
HasRange(v) ==
  LET i == fn[fn[v].at]
  IN  /\ i.op # "opaque"
      /\ i.op \in {"induction", "bounded", "overdefined"} => fn[v].within

-----------------------------------------------------------------------------
(* construct *)

\* Values of sequence type are visited, and the users of those that are instructions.
IsVisited(v) == Op(v) \in ReadOps => Op(fn[v].of[1]) # "sequence"

\* Nodes and edges an instruction adds, in order; an edge that cannot be added fails
\* MEMOIR_ASSERT, but for those of indices.
Edges(v) ==
  IF ~IsVisited(v) THEN << >>
  ELSE IF Op(v) \in ReadOps THEN <<<<fn[v].at, fn[v].of[1]>>>>
  ELSE IF Op(v) \in SharingOps \cup UnimplementedOps \cup {"SeqCopy"}
       THEN [k \in DOMAIN fn[v].of |-> <<v, fn[v].of[k]>>]
       ELSE << >>

NodesOf(v) ==
  (IF Op(v) \in DefiningOps THEN {v} ELSE {}) \cup UNION {{e[1], e[2]} : e \in Range(Edges(v))}

Aborts(v) ==
  \/ Op(v) \in ReadOps \cup {"SeqCopy"} /\ IsVisited(v) /\ ~HasRange(v)
  \/ Op(v) \notin ReadOps /\ ~IsInjective(Edges(v))

StartConstruct(f) ==
  /\ fn = f /\ line = 1 /\ phase = "construct" /\ graph = NoGraph
  /\ range = << >> /\ todo = << >> /\ members = {}

Construct ==
  /\ phase = "construct" /\ line <= Len(fn)
  /\ IF Aborts(line)
     THEN phase' = "aborted" /\ UNCHANGED <<graph, range, line>>
     ELSE /\ graph' = FoldSeq(LAMBDA e, G : AddEdge(G, e[1], e[2]),
                              [graph EXCEPT !.node = @ \cup NodesOf(line)], Edges(line))
          /\ range' = [v \in graph'.node |->
                         IF v \in DOMAIN range THEN range[v]
                         ELSE IF IsIndex(v) THEN RangeOf(v) ELSE None]
          /\ line' = line + 1 /\ UNCHANGED phase
  /\ UNCHANGED <<fn, todo, members, address, calls, tarjan, condensation, topological>>

EndConstruct ==
  /\ phase = "construct" /\ line > Len(fn)
  /\ phase' = "components"
  /\ UNCHANGED <<rangeVars, graph, address, calls, tarjan, condensation, topological>>

-----------------------------------------------------------------------------
(* evaluate *)

Sum(a, b) ==
  [value |-> a.value + b.value, available |-> a.available /\ b.available, form |-> "other"]

\* The constraint of an edge: what a user of to says of to.  A copy shifts by its start.
Propagated(from, to) ==
  IF Op(from) # "SeqCopy" \/ range[from] = None THEN range[from]
  ELSE LET start == RangeOf(fn[from].at)
       IN  [lower |-> Sum(start.lower, range[from].lower),
            upper |-> Sum(start.upper, range[from].upper),
            made  |-> <<from, to>>]

Incoming(G, n) == {m \in Predecessors(G, n) : Op(m) \in UnimplementedOps \/ Propagated(m, n) # None}

Unimplemented(G, n) == \E m \in Predecessors(G, n) : Op(m) \in UnimplementedOps

BeginEvaluate ==
  /\ phase = "ordered" /\ fn # None
  /\ phase' = "evaluate" /\ todo' = order
  /\ UNCHANGED <<fn, line, range, members, graph, address, calls, tarjan, condensation, topological>>

\* The root takes what comes in along the condensation; two ranges cannot be merged.
EvaluateRoot ==
  /\ phase = "evaluate" /\ todo # << >> /\ members = {}
  /\ LET r  == Head(todo)
         in == Incoming(condensation, r)
         known == IF range[r] = None THEN {} ELSE {r}
     IN  IF Unimplemented(condensation, r) \/ Cardinality(in) + Cardinality(known) > 1
         THEN phase' = "aborted" /\ UNCHANGED <<range, todo, members>>
         ELSE /\ range' = IF in = {} THEN range
                          ELSE [range EXCEPT ![r] = Propagated(CHOOSE m \in in : TRUE, r)]
              /\ members' = components[r] \ {r}
              /\ todo' = Tail(todo)
              /\ UNCHANGED phase
  /\ UNCHANGED <<fn, line, graph, address, calls, tarjan, condensation, topological>>

\* Variant: a node that gets no range is tried again.
EvaluateMemberAgain ==
  /\ phase = "evaluate"
  /\ \E n \in members :
       LET in == {Propagated(m, n) : m \in Incoming(graph, n)} \cup ({range[n]} \ {None})
       IN  IF Unimplemented(graph, n) \/ Cardinality(in) > 1
           THEN phase' = "aborted" /\ UNCHANGED <<range, members>>
           ELSE /\ range' = IF in = {} THEN range
                            ELSE [range EXCEPT ![n] = CHOOSE r \in in : TRUE]
                /\ members' = IF in = {} THEN members ELSE members \ {n}
                /\ UNCHANGED phase
  /\ UNCHANGED <<fn, line, todo, graph, address, calls, tarjan, condensation, topological>>

\* The other nodes of the component take what comes in along the graph, each once.
EvaluateMember ==
  /\ phase = "evaluate"
  /\ \E n \in members :
       LET in == {Propagated(m, n) : m \in Incoming(graph, n)} \cup ({range[n]} \ {None})
       IN  IF Unimplemented(graph, n) \/ Cardinality(in) > 1
           THEN phase' = "aborted" /\ UNCHANGED <<range, members>>
           ELSE /\ range' = IF in = {} THEN range
                            ELSE [range EXCEPT ![n] = CHOOSE r \in in : TRUE]
                /\ members' = members \ {n}
                /\ UNCHANGED phase
  /\ UNCHANGED <<fn, line, todo, graph, address, calls, tarjan, condensation, topological>>

EndEvaluate ==
  /\ phase = "evaluate" /\ todo = << >> /\ members = {}
  /\ phase' = "evaluated"
  /\ UNCHANGED <<rangeVars, graph, address, calls, tarjan, condensation, topological>>

AnalysisNext ==
  \/ Construct \/ EndConstruct
  \/ GraphNext /\ UNCHANGED rangeVars
  \/ BeginEvaluate \/ EvaluateRoot \/ EvaluateMember \/ EndEvaluate

-----------------------------------------------------------------------------
(* What the program reads. *)

\* The numbers an index takes.
Numbers(v) ==
  CASE Op(v) \in {"constant", "argument"} -> {fn[v].lo}
    [] Op(v) \in {"induction", "bounded"} -> fn[v].lo .. (fn[v].hi - 1)
    [] OTHER -> 0 .. (Size - 1)

\* Elements of v that are read: of v itself, or of a sequence they end up in.  After k
\* rounds, along chains of k uses.
Demand ==
  LET D[k \in Nat] ==
        [v \in DOMAIN fn |->
           IF k = 0 THEN {}
           ELSE UNION {
             CASE Op(u) \in ReadOps -> Numbers(fn[u].at)
               [] Op(u) \in SharingOps -> D[k - 1][u]
               [] Op(u) = "SeqCopy" -> {e + s : e \in D[k - 1][u], s \in Numbers(fn[u].at)}
               [] OTHER -> 0 .. (Size - 1) : u \in {w \in DOMAIN fn : v \in Range(fn[w].of)}}]
  IN  D[Len(fn)]
=============================================================================
