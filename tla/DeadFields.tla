----------------------------- MODULE DeadFields -----------------------------
(***************************************************************************)
(* DeadFieldElimination.hpp, run on what field elision leaves: fields that *)
(* are not accessed are taken out of the definition of their type, and the *)
(* accesses to the fields behind them are renumbered.                      *)
(***************************************************************************)
EXTENDS FieldElision

CONSTANTS
  Definitions,   \* the struct types: [type -> sequence of fields]
  MaxFields      \* none has more

VARIABLES
  definition,   \* the definitions as they are now
  accesses,     \* live_fields: [type -> [<<function, place>> -> field it is recorded for]]
  checked       \* types that were transformed

fieldVars == <<definition, accesses, checked>>

At(a) == body[a[1]][a[2]]

\* The accesses with a struct of type t that does not escape: one it is to, one it stores,
\* or, where a field was elided, one that is the key.
UsersOf(t) ==
  {a \in UNION {{f} \X DOMAIN body[f] : f \in DOMAIN body} :
     /\ At(a).op \in AccessOps \cup {"Assoc"}
     /\ \E v \in StructsOf(At(a)) \ Escaping(a[1]) : TypeOf(v) = t}

Fields(t) == DOMAIN definition[t]

Users == UNION {UsersOf(t) : t \in DOMAIN definition}

\* field_index is only set for an access to a struct: for others it is what it happens to be.
AnalyzeFields ==
  /\ phase = "elided"
  /\ \E garbage \in [{a \in Users : ~IsAccess(At(a))} -> 1 .. MaxFields + 1] :
       accesses' = [t \in {u \in DOMAIN definition : UsersOf(u) # {}} |->
                      [a \in UsersOf(t) |-> IF IsAccess(At(a)) THEN At(a).field ELSE garbage[a]]]
  /\ phase' = "fields"
  /\ UNCHANGED <<body, candidates, used, frames, params, values, rewritten, definition, checked>>

Dead(t) == Fields(t) \ Range(accesses[t])

\* Variant: only the access to the field right behind moves.
RenumberedNext(t, a) ==
  At(a).field - IF a \in DOMAIN accesses[t] /\ accesses[t][a] - 1 \in Dead(t) THEN 1 ELSE 0

\* From the last field to the first, each dead one moves the accesses recorded for the fields
\* behind it down by one, whatever they are to.
Renumbered(t, a) ==
  LET down[n \in 1 .. Len(definition[t]) + 1] ==
        IF n > Len(definition[t]) THEN At(a).field
        ELSE down[n + 1] -
               IF /\ n \in Dead(t) /\ a \in DOMAIN accesses[t]
                  /\ accesses[t][a] \in n + 1 .. Len(definition[t]) /\ n <= down[n + 1]
               THEN 1 ELSE 0
  IN  down[1]

\* An access that is to no struct is not expected behind a dead field.
Unexpected(t) ==
  \E a \in DOMAIN accesses[t] :
    /\ ~IsAccess(At(a)) /\ accesses[t][a] \in Fields(t)
    /\ \E n \in Dead(t) : n < accesses[t][a]

RemoveFields ==
  /\ phase = "fields"
  /\ \E t \in DOMAIN accesses \ checked :
       IF Unexpected(t) THEN phase' = "aborted" /\ UNCHANGED <<body, definition, checked>>
       ELSE /\ definition' = [definition EXCEPT ![t] =
                                [k \in 1 .. Cardinality(Fields(t) \ Dead(t)) |->
                                   @[CHOOSE n \in Fields(t) \ Dead(t) :
                                       Cardinality({m \in Fields(t) \ Dead(t) : m < n}) = k - 1]]]
            /\ body' = [f \in DOMAIN body |-> [k \in DOMAIN body[f] |->
                          IF IsAccess(body[f][k])
                          THEN [body[f][k] EXCEPT !.field = Renumbered(t, <<f, k>>)]
                          ELSE body[f][k]]]
            /\ checked' = checked \cup {t}
            /\ UNCHANGED phase
  /\ UNCHANGED <<candidates, used, frames, params, values, rewritten, accesses>>

EndFields ==
  /\ phase = "fields" /\ checked = DOMAIN accesses
  /\ phase' = "done"
  /\ UNCHANGED <<body, candidates, used, frames, params, values, rewritten, fieldVars>>

FieldsInit == definition = Definitions /\ accesses = << >> /\ checked = {}

FieldsNext ==
  \/ ElisionNext /\ UNCHANGED fieldVars
  \/ AnalyzeFields \/ RemoveFields \/ EndFields

FieldsSpec == ElisionInit /\ FieldsInit /\ [][FieldsNext]_<<vars, fieldVars>>

-----------------------------------------------------------------------------
(* Programs *)

\* What P accesses does not escape, and is the field that is meant; where a struct of another
\* type is stored, that type has no field of this number.
IsMeant(P) ==
  \A f \in DOMAIN P : \A i \in {j \in Range(P[f]) : ~IsCall(j)} :
    LET t == TypeOf(i.object)
    IN  /\ {"stored", "meant"} \subseteq DOMAIN i
        /\ t \in DOMAIN Definitions /\ i.field \in DOMAIN Definitions[t]
        /\ i.meant = Definitions[t][i.field]
        /\ \A c \in Range(P[f]) : IsCall(c) /\ c.callee \in {External, None} => i.object \notin c.passed
        /\ \A v \in StructsOf(i) : TypeOf(v) \in DOMAIN Definitions \ {t} =>
             i.field \notin DOMAIN Definitions[TypeOf(v)]

FieldsAreMeant ==
  /\ \A t \in DOMAIN Definitions : Definitions[t] \in Seq(Range(Definitions[t]))
  /\ \A P \in Programs : IsMeant(P)

-----------------------------------------------------------------------------
(* Properties *)

\* transform: after both passes an access to a struct is to the field it was to before, in
\* the definition as it is now.
AccessesKeepField ==
  phase = "done" =>
    \A f \in DOMAIN body : \A i \in Range(body[f]) :
      IsAccess(i) => i.field \in DOMAIN definition[TypeOf(i.object)] /\ definition[TypeOf(i.object)][i.field] = i.meant
=============================================================================
