---------------------------- MODULE DeadElements ----------------------------
(***************************************************************************)
(* DeadElementElimination: every write of an element, and every insertion, *)
(* gets a guard that its index is in the live range of its result.         *)
(***************************************************************************)
EXTENDS LiveRanges

VARIABLES
  visited,   \* the values whose live range was looked at
  guards     \* the guard of each rewritten instruction: [lower, upper], or None

elementVars == <<visited, guards>>
vars == <<graphVars, rangeVars, elementVars>>

IsInstruction(v) == Op(v) \notin {"constant", "argument", "sequence"}

IgnoreUpper(r) == r.upper.form = "end"
IgnoreLower(r) == r.lower.form = "constant" /\ r.lower.value = 0
Available(r)   == (IgnoreUpper(r) \/ r.upper.available) /\ (IgnoreLower(r) \/ r.lower.available)

\* Variant: the upper bound of the range is live.
GuardThrough(v) ==
  [lower |-> IF IgnoreLower(range[v]) THEN None ELSE range[v].lower,
   upper |-> IF IgnoreUpper(range[v]) THEN None
             ELSE [range[v].upper EXCEPT !.value = @ - 1]]

\* The bounds the index is compared with; an insertion is compared with the upper one only.
Guard(v) ==
  [lower |-> IF IgnoreLower(range[v]) \/ Op(v) = "SeqInsert" THEN None ELSE range[v].lower,
   upper |-> IF IgnoreUpper(range[v]) THEN None ELSE range[v].upper]

NoGuard == [lower |-> None, upper |-> None]

\* run: a range is dereferenced whether there is one or not.
Eliminate ==
  /\ phase \in {"evaluated", "eliminate"}
  /\ \E v \in graph.node \ visited :
       /\ visited' = visited \cup {v}
       /\ IF ~IsInstruction(v) THEN phase' = "eliminate" /\ UNCHANGED guards
          ELSE IF range[v] = None THEN phase' = "undefined" /\ UNCHANGED guards
          ELSE IF Op(v) \notin {"IndexWrite", "SeqInsert"} \/ ~Available(range[v])
                  \/ (IgnoreUpper(range[v]) /\ IgnoreLower(range[v]))
               THEN phase' = "eliminate" /\ UNCHANGED guards
          ELSE IF Guard(v) = NoGuard THEN phase' = "aborted" /\ UNCHANGED guards
          ELSE phase' = "eliminate" /\ guards' = With(guards, v, Guard(v))
  /\ UNCHANGED <<rangeVars, graph, address, calls, tarjan, condensation, topological>>

EndEliminate ==
  /\ phase \in {"evaluated", "eliminate"} /\ visited = graph.node
  /\ phase' = "eliminated"
  /\ UNCHANGED <<rangeVars, elementVars, graph, address, calls, tarjan, condensation, topological>>

EliminationNext ==
  \/ AnalysisNext /\ UNCHANGED elementVars
  \/ Eliminate
  \/ EndEliminate

\* One thread runs the passes.
Ended == phase \in {"eliminated", "aborted", "undefined", "cyclic"} \/ (phase = "ordered" /\ fn = None)

-----------------------------------------------------------------------------
(* Properties *)

\* The passes end: every call of tarjan_scc and of topological_order returns, and every
\* component and every node of it is evaluated, cycles in the graph or not.
PassesEnd == <>Ended

\* The numbers a guard lets through.
Passes(g, e) ==
  /\ g.lower # None => g.lower.value <= e
  /\ g.upper # None => e < g.upper.value

\* run: an element that is read later is still written: the guard of a write is true for
\* every number its index takes that is an element read of the write's result, or of what
\* is made of it.
GuardsKeepDemand ==
  \A w \in DOMAIN guards :
    Op(w) = "IndexWrite" =>
      \A e \in Numbers(fn[w].at) \cap Demand[w] : Passes(guards[w], e)
=============================================================================
