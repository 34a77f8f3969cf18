---------------------------- MODULE FieldElision ----------------------------
(***************************************************************************)
(* FieldElision.hpp: fields of struct types become associative arrays that *)
(* main allocates and that are passed along to every function using one.   *)
(*                                                                         *)
(* A function is a sequence of calls and accesses of structs.  A struct    *)
(* value of a function is <<type, name>>.                                  *)
(***************************************************************************)
EXTENDS Integers, Sequences, SequencesExt, FiniteSets

CONSTANTS
  Programs,    \* [function -> its instructions]; a function is <<name>>; Main is one of them
  Elisions,    \* candidates to choose from: [type -> groups of fields]
  External,    \* a function that is only declared
  None         \* no function: an indirect call; a null pointer; no struct stored

AccessOps == {"StructRead", "StructWrite", "StructGet"}

VARIABLES
  phase,       \* "analyze", "traverse", "order", "allocate", "rewrite", "elided"
  body,        \* the functions of the module: their instructions
  candidates,  \* fields_to_elide: [type -> sequence of groups]
  used,        \* function_to_used_fields
  frames,      \* calls of traverse_call_graph_node: [node, next, visited]
  params,      \* function_to_argument_order: [function -> sequence of <<type, group>>]
  values,      \* function_to_elision_values: [function -> <<type, group>> -> value]
  rewritten    \* functions whose calls and accesses were updated

vars == <<phase, body, candidates, used, frames, params, values, rewritten>>

Main       == <<"main">>
CloneOf(f) == <<"clone", f[1]>>
Functions  == {f \in DOMAIN body : f \notin {CloneOf(g) : g \in DOMAIN body}}
Cloned     == {f \in Functions : CloneOf(f) \in DOMAIN body}

IsAccess(i) == i.op \in AccessOps
IsCall(i)   == i.op = "call"

-----------------------------------------------------------------------------
(* Analysis *)

TypeOf(v) == v[1]

\* Values of f that are passed to a function that is external or unknown.
Escaping(f) ==
  UNION {i.passed : i \in {j \in Range(body[f]) : IsCall(j) /\ j.callee \in {External, None}}}

Escaped == {TypeOf(v) : v \in UNION {Escaping(f) : f \in DOMAIN body}}

\* The access uses the struct it is to, and the struct it stores.
StructsOf(i) == {i.object, i.stored} \ {None}

Accessed(f) ==
  (UNION {{<<TypeOf(v), i.field>> : v \in StructsOf(i)} : i \in {j \in Range(body[f]) : IsAccess(j)}})
    \cap ((DOMAIN candidates) \X Nat)

\* The fields of a type are no candidates any more once a value of it escapes.
Analyze ==
  /\ phase = "analyze"
  /\ candidates' = [t \in DOMAIN candidates \ Escaped |-> candidates[t]]
  /\ phase' = IF candidates' = << >> THEN "elided" ELSE "traverse"
  /\ used' = [f \in DOMAIN body |-> {}]
  /\ frames' = IF candidates' = << >> THEN << >> ELSE <<[node |-> Main, next |-> 1, visited |-> {Main}]>>
  /\ UNCHANGED <<body, params, values, rewritten>>

-----------------------------------------------------------------------------
(* The call graph *)

Top    == Last(frames)
Callee == body[Top.node][Top.next].callee
Next1(s) == [s EXCEPT ![Len(s)].next = @ + 1]

HasEdge == frames # << >> /\ Top.next <= Len(body[Top.node])

\* Not a call, of an unknown function, or of one that has no body.
SkipEdge ==
  /\ phase = "traverse" /\ HasEdge
  /\ IsCall(body[Top.node][Top.next]) => Callee \in {None, External}
  /\ frames' = Next1(frames)
  /\ UNCHANGED <<phase, body, candidates, used, params, values, rewritten>>

\* A callee on the way here adds what is known of it so far.
SeenEdge ==
  /\ phase = "traverse" /\ HasEdge /\ IsCall(body[Top.node][Top.next])
  /\ Callee \in Top.visited
  /\ used' = [used EXCEPT ![Top.node] = @ \cup used[Callee]]
  /\ frames' = Next1(frames)
  /\ UNCHANGED <<phase, body, candidates, params, values, rewritten>>

\* visited is passed by value: only what leads here is in it.
VisitEdge ==
  /\ phase = "traverse" /\ HasEdge /\ IsCall(body[Top.node][Top.next])
  /\ Callee \notin Top.visited \cup {None, External}
  /\ frames' = Append(frames, [node |-> Callee, next |-> 1, visited |-> Top.visited \cup {Callee}])
  /\ UNCHANGED <<phase, body, candidates, used, params, values, rewritten>>

\* Variant: the caller does not take the fields of its callee.
LeaveNodeAlone ==
  /\ phase = "traverse" /\ frames # << >> /\ ~HasEdge
  /\ used' = [used EXCEPT ![Top.node] = @ \cup Accessed(Top.node)]
  /\ frames' = IF Len(frames) = 1 THEN << >> ELSE Next1(Front(frames))
  /\ UNCHANGED <<phase, body, candidates, params, values, rewritten>>

\* The function's own fields last; then its caller takes them all.
LeaveNode ==
  /\ phase = "traverse" /\ frames # << >> /\ ~HasEdge
  /\ LET mine == used[Top.node] \cup Accessed(Top.node)
         caller == frames[Len(frames) - 1].node
     IN  used' = IF Len(frames) = 1 THEN [used EXCEPT ![Top.node] = mine]
                 ELSE [used EXCEPT ![Top.node] = mine, ![caller] = @ \cup mine]
  /\ frames' = IF Len(frames) = 1 THEN << >> ELSE Next1(Front(frames))
  /\ UNCHANGED <<phase, body, candidates, params, values, rewritten>>

EndTraverse ==
  /\ phase = "traverse" /\ frames = << >>
  /\ phase' = "order"
  /\ UNCHANGED <<body, candidates, used, frames, params, values, rewritten>>

-----------------------------------------------------------------------------
(* Versions of the functions *)

Group(t, n) == CHOOSE k \in DOMAIN candidates[t] : n \in candidates[t][k]

IsElided(t, n) == t \in DOMAIN candidates /\ \E k \in DOMAIN candidates[t] : n \in candidates[t][k]

Groups(f) == {<<u[1], Group(u[1], u[2])>> : u \in {v \in used[f] : IsElided(v[1], v[2])}}

\* The order of an ordered_multimap: by type; within a type as the fields were found.
Orders(S) ==
  {s \in [1 .. Cardinality(S) -> S] :
     /\ IsInjective(s)
     /\ \A i, j, k \in DOMAIN s : i < j /\ j < k /\ s[i][1] = s[k][1] => s[j][1] = s[i][1]}

\* Every function that uses a field, but main, is cloned with an argument for each group.
OrderArguments ==
  /\ phase = "order"
  /\ \E f \in {g \in Functions : used[g] # {}} \ DOMAIN params :
       \E order \in Orders(Groups(f)) :
         /\ params' = [g \in DOMAIN params \cup {f} |-> IF g = f THEN order ELSE params[g]]
         /\ IF f = Main THEN UNCHANGED <<body, values>>
            ELSE /\ body' = [g \in DOMAIN body \cup {CloneOf(f)} |->
                               IF g = CloneOf(f) THEN body[f] ELSE body[g]]
                 /\ values' = [g \in DOMAIN values \cup {CloneOf(f)} |->
                                 IF g # CloneOf(f) THEN values[g]
                                 ELSE [p \in Range(order) |->
                                         [argument |-> CHOOSE i \in DOMAIN order : order[i] = p]]]
  /\ UNCHANGED <<phase, candidates, used, frames, rewritten>>

\* main allocates an array for each group, all of one field.
Allocate ==
  /\ phase = "order" /\ {g \in Functions : used[g] # {}} \subseteq DOMAIN params
  /\ IF \E t \in DOMAIN candidates : \E k \in DOMAIN candidates[t] : Cardinality(candidates[t][k]) # 1
     THEN phase' = "aborted" /\ UNCHANGED values
     ELSE /\ values' = [g \in DOMAIN values \cup {Main} |->
                          IF g # Main THEN values[g]
                          ELSE [p \in UNION {{t} \X DOMAIN candidates[t] : t \in DOMAIN candidates} |->
                                  [allocation |-> p]]]
          /\ phase' = "rewrite"
  /\ UNCHANGED <<body, candidates, used, frames, params, rewritten>>

-----------------------------------------------------------------------------
(* Rewriting *)

ValueIn(f, p) == IF f \in DOMAIN values /\ p \in DOMAIN values[f] THEN values[f][p] ELSE None

RewriteCall(f, i) ==
  IF i.callee \notin Cloned THEN i
  ELSE [i EXCEPT !.callee = CloneOf(i.callee),
                 !.arrays = [k \in DOMAIN params[i.callee] |-> ValueIn(f, params[i.callee][k])]]

\* A StructGet is taken for a write and left as it is.
RewriteAccess(f, i) ==
  IF i.op \in {"StructRead", "StructWrite"} /\ IsElided(TypeOf(i.object), i.field)
  THEN [i EXCEPT !.op = "Assoc", !.arrays = <<ValueIn(f, <<TypeOf(i.object), Group(TypeOf(i.object), i.field)>>)>>]
  ELSE i

Rewrite ==
  /\ phase = "rewrite"
  /\ \E f \in DOMAIN body \ (Cloned \cup rewritten) :
       /\ body' = [body EXCEPT ![f] =
                     [k \in DOMAIN body[f] |-> IF IsCall(body[f][k]) THEN RewriteCall(f, body[f][k])
                                               ELSE RewriteAccess(f, body[f][k])]]
       /\ rewritten' = rewritten \cup {f}
  /\ UNCHANGED <<phase, candidates, used, frames, params, values>>

\* The originals are erased.
Cleanup ==
  /\ phase = "rewrite" /\ rewritten = DOMAIN body \ Cloned
  /\ body' = [f \in DOMAIN body \ Cloned |-> body[f]]
  /\ phase' = "elided"
  /\ UNCHANGED <<candidates, used, frames, params, values, rewritten>>

ElisionInit ==
  /\ phase = "analyze"
  /\ body \in Programs /\ candidates \in Elisions
  /\ used = << >> /\ frames = << >> /\ params = << >> /\ values = << >> /\ rewritten = {}

ElisionNext ==
  \/ Analyze
  \/ SkipEdge \/ SeenEdge \/ VisitEdge \/ LeaveNode \/ EndTraverse
  \/ OrderArguments \/ Allocate \/ Rewrite \/ Cleanup

ElisionSpec == ElisionInit /\ [][ElisionNext]_vars

-----------------------------------------------------------------------------
(* Programs *)

\* A call is of a function of the module, of an external or an unknown one; nothing but calls
\* and accesses of structs is in a function.
IsModule(P) ==
  /\ IsFiniteSet(DOMAIN P) /\ Main \in DOMAIN P /\ {External, None} \cap DOMAIN P = {}
  /\ \A f \in DOMAIN P :
       /\ f = <<f[1]>> /\ CloneOf(f) \notin {External, None}
       /\ P[f] \in Seq(Range(P[f]))
       /\ \A i \in Range(P[f]) :
            IF IsCall(i)
            THEN /\ {"op", "callee", "arrays"} \subseteq DOMAIN i
                 /\ i.callee \in DOMAIN P \cup {External, None} /\ i.arrays = << >>
            ELSE /\ {"op", "object", "field", "arrays"} \subseteq DOMAIN i
                 /\ IsAccess(i) /\ i.object # None /\ i.field \in Nat

\* Functions call themselves, but not each other: what calls has a higher rank.
IsRank(P, rank) ==
  \A f \in DOMAIN P : \A i \in Range(P[f]) :
    IsCall(i) /\ i.callee \in DOMAIN P \ {f} => rank[i.callee] < rank[f]

IsLayered(P) == \E rank \in [DOMAIN P -> 0 .. Cardinality(DOMAIN P)] : IsRank(P, rank)

\* Of a field that may be elided no address is taken.
IsElidable(P, C) ==
  /\ IsFiniteSet(UNION {{t} \X DOMAIN C[t] : t \in DOMAIN C})
  /\ None \notin [argument : Nat] \cup [allocation : UNION {{t} \X DOMAIN C[t] : t \in DOMAIN C}]
  /\ \A f \in DOMAIN P : \A i \in Range(P[f]) :
       i.op = "StructGet" /\ TypeOf(i.object) \in DOMAIN C =>
         \A k \in DOMAIN C[TypeOf(i.object)] : i.field \notin C[TypeOf(i.object)][k]

ProgramsAreElidable ==
  \A P \in Programs : IsModule(P) /\ IsLayered(P) /\ \A C \in Elisions : IsElidable(P, C)

-----------------------------------------------------------------------------
(* Properties *)

\* What a value is in a call of a function with these arrays.
Array(v, arrays) ==
  CASE v = None -> None
    [] "allocation" \in DOMAIN v -> v.allocation
    [] OTHER -> arrays[v.argument]

\* An activation of a function: which, with which arrays.  The activations of its calls:
Made(a) ==
  {<<i.callee, [k \in DOMAIN i.arrays |-> Array(i.arrays[k], a[2])]>> :
     i \in {j \in Range(body[a[1]]) : IsCall(j) /\ j.callee \in DOMAIN body}}

\* The activations that the program makes, at most k calls deep.
Deep[k \in Nat] ==
  IF k = 0 THEN {<<Main, << >>>>} ELSE Deep[k - 1] \cup UNION {Made(a) : a \in Deep[k - 1]}

Activations == Deep[2 * Cardinality(DOMAIN body)]

\* transform: "there is a route from the entry function to each function where an access
\* resides": wherever an elided field is accessed, in every call of the function the access
\* is to the one array of that field; the other fields are still accessed in the struct.
AccessesReachArray ==
  phase = "elided" =>
    \A a \in Activations : \A i \in Range(body[a[1]]) :
      /\ ~IsCall(i) =>
           IF IsElided(TypeOf(i.object), i.field)
           THEN i.op = "Assoc" /\ Array(i.arrays[1], a[2]) = <<TypeOf(i.object), Group(TypeOf(i.object), i.field)>>
           ELSE i.op \in AccessOps
      /\ IsCall(i) => i.callee \in DOMAIN body \cup {External, None}
=============================================================================
