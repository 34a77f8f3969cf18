-------------------------- MODULE DeadCollections --------------------------
(***************************************************************************)
(* DeadCollectionElimination.hpp: one round that deletes the collections   *)
(* and types nobody uses, and the assertions of types with what they name. *)
(*                                                                         *)
(* A program is a sequence of values [op, uses, name]: uses are places in  *)
(* it, name is that of the struct type it defines or asks for.             *)
(***************************************************************************)
EXTENDS Integers, Sequences, SequencesExt, FiniteSets

CONSTANTS Codes, Nameless

CollectionOps == {"Alloc", "Insert", "Remove", "Copy", "Swap", "View"}
TypeOps       == {"Type", "StructType"}
AssertOps     == {"AssertStructType", "AssertCollectionType", "ReturnType"}

VARIABLES
  code,      \* the program
  place,     \* the instruction visited next
  dead,      \* dead_values
  dropped,   \* taken out of its block, its operands dropped
  deleted

deadVars == <<code, place, dead, dropped, deleted>>

\* Uses of v by instructions that have their operands.
Uses(v) ==
  {u \in (DOMAIN code) \X (1 .. 2) :
     u[1] \notin dropped /\ u[2] \in DOMAIN code[u[1]].uses /\ code[u[1]].uses[u[2]] = v}

HasNUses(v, n) == Cardinality(Uses(v)) = n

\* Variant: the type of an assertion goes with it, whoever else uses it.
DiscoveredAll(v) ==
  CASE code[v].op \in CollectionOps \cup TypeOps -> IF HasNUses(v, 0) THEN {v} ELSE {}
    [] code[v].op \in AssertOps -> {v, code[v].uses[1]}
    [] OTHER -> {}

\* visit: what an instruction adds; a struct's definition adds nothing.
Discovered(v) ==
  CASE code[v].op \in CollectionOps \cup TypeOps -> IF HasNUses(v, 0) THEN {v} ELSE {}
    [] code[v].op \in AssertOps -> {v} \cup {t \in {code[v].uses[1]} : HasNUses(t, 1)}
    [] OTHER -> {}

VisitInstruction ==
  /\ place <= Len(code)
  /\ dead' = dead \cup Discovered(place)
  /\ place' = place + 1
  /\ UNCHANGED <<code, dropped, deleted>>

DropReferences ==
  /\ place > Len(code)
  /\ \E v \in dead \ dropped : dropped' = dropped \cup {v}
  /\ UNCHANGED <<code, place, dead, deleted>>

Delete ==
  /\ place > Len(code) /\ dropped = dead
  /\ \E v \in dead \ deleted : deleted' = deleted \cup {v}
  /\ UNCHANGED <<code, place, dead, dropped>>

CollectionsInit == code \in Codes /\ place = 1 /\ dead = {} /\ dropped = {} /\ deleted = {}

CollectionsNext == VisitInstruction \/ DropReferences \/ Delete

CollectionsSpec == CollectionsInit /\ [][CollectionsNext]_deadVars

-----------------------------------------------------------------------------
(* Properties *)

\* Assertions make no values; what they name is not a struct's definition itself, which would go
\* with them.
AssertionsAreApart ==
  \A c \in Codes : c \in Seq(Range(c)) /\ \A v \in DOMAIN c :
    /\ Range(c[v].uses) \subseteq {w \in DOMAIN c : c[w].op \notin AssertOps}
    /\ c[v].op \in AssertOps => 1 \in DOMAIN c[v].uses /\ c[c[v].uses[1]].op # "DefineStructType"

\* transform: nothing that is left uses a deleted value, and every struct type that is left
\* asked for by name still has the definition it had.
LeftIsWhole ==
  LET Left == DOMAIN code \ deleted
      Defined(S, n) == \E v \in S : code[v].op = "DefineStructType" /\ code[v].name = n
  IN  /\ \A v \in deleted : HasNUses(v, 0)
      /\ \A v \in Left : code[v].name # Nameless /\ Defined(DOMAIN code, code[v].name)
                           => Defined(Left, code[v].name)
=============================================================================
