----------------------------- MODULE KeyFolding -----------------------------
(***************************************************************************)
(* KeyFolding.hpp: an associative array of which every key is an element   *)
(* of one collection becomes a collection that is accessed as that one is: *)
(* a sequence by index, an associative array by its key.                   *)
(*                                                                         *)
(* A program is a sequence of values [op, uses, what, fn]: uses are places *)
(* in it; what is, of an allocation, the kind of its keys or of the size   *)
(* of a sequence, of a parameter its number, of a call the functions that  *)
(* it may call; fn is the function the value is in.                        *)
(***************************************************************************)
EXTENDS Integers, Sequences, SequencesExt, FiniteSets

CONSTANTS
  KeyPrograms,
  Unhandled      \* a null pointer among the collections referenced

VARIABLES
  stage,        \* "next", "uses", "keys", "sources", "fold", "erase"
  origin,       \* the program as it was
  folded,       \* as it is
  left,         \* assoc_allocations not looked at yet
  alloc,        \* the one looked at
  work, seen,   \* worklist, visited
  keyUses,      \* assoc_accesses: [allocation -> accesses]; each has one key
  keyIndex,     \* key_to_index: [access -> value]
  referenced,   \* collections_referenced
  folds,        \* key_folds
  done          \* of these, those that were transformed

foldVars == <<stage, origin, folded, left, alloc, work, seen, keyUses, keyIndex, referenced, folds, done>>

KeyedOps == {"AssocRead", "AssocWrite", "AssocGet"}
ElementGets == {"IndexGet", "AssocGet"}
PHIOps   == {"UsePHI", "DefPHI"}

ValuesWith(o, f) == {v \in DOMAIN origin : origin[v].op = o /\ origin[v].fn \in f}

UsedBy(v) == {u \in DOMAIN origin : v \in Range(origin[u].uses)}

-----------------------------------------------------------------------------
(* Analysis *)

Passed(c, v) == {n \in DOMAIN origin[c].uses : origin[c].uses[n] = v}

\* The parameters that the calls of v are passed as: of all functions that may be called.
ParametersFor(v) ==
  UNION {{p \in ValuesWith("Argument", origin[c].what) : origin[p].what \in Passed(c, v)} :
           c \in {u \in UsedBy(v) : origin[u].op = "Call"}}

\* Variant: what a function is passed is not followed.
FollowedHere(v) == {u \in UsedBy(v) : origin[u].op \in PHIOps \cup {"PHI"}}

\* Not what an access makes of v: the new version of a write is not followed.
Followed(v) == {u \in UsedBy(v) : origin[u].op \in PHIOps \cup {"PHI"}} \cup ParametersFor(v)

\* The next associative array; of keys that are no references to structs, nothing is asked.
NextAssoc ==
  /\ stage = "next" /\ left # {}
  /\ \E a \in left :
       /\ left' = left \ {a}
       /\ IF origin[a].what = "ref"
          THEN /\ alloc' = a /\ work' = {a} /\ seen' = {} /\ stage' = "uses"
               /\ keyUses' = [keyUses EXCEPT ![a] = {}]
          ELSE UNCHANGED <<alloc, work, seen, stage, keyUses>>
  /\ UNCHANGED <<origin, folded, keyIndex, referenced, folds, done>>

FollowUses ==
  /\ stage = "uses" /\ work # {}
  /\ \E v \in {CHOOSE w \in work : TRUE} :
       /\ work' = (work \cup Followed(v)) \ (seen \cup {v})
       /\ seen' = seen \cup {v}
       /\ keyUses' = [keyUses EXCEPT ![alloc] = @ \cup {u \in UsedBy(v) : origin[u].op \in KeyedOps}]
  /\ UNCHANGED <<stage, origin, folded, left, alloc, keyIndex, referenced, folds, done>>

KeyOf(x) == origin[x].uses[2]

\* Each key has to be the result of a get; its collection is looked for, its index is kept.
CheckKeys ==
  /\ stage = "uses" /\ work = {}
  /\ IF \E x \in keyUses[alloc] : origin[KeyOf(x)].op \notin ElementGets
     THEN stage' = "next" /\ UNCHANGED <<work, seen, keyIndex, referenced>>
     ELSE /\ stage' = "sources"
          /\ work' = {origin[KeyOf(x)].uses[1] : x \in keyUses[alloc]}
          /\ seen' = {} /\ referenced' = {}
          /\ keyIndex' = [x \in DOMAIN keyIndex |->
                            IF x \in keyUses[alloc] THEN origin[KeyOf(x)].uses[2] ELSE keyIndex[x]]
  /\ UNCHANGED <<origin, folded, left, alloc, keyUses, folds, done>>

\* gather_returned_values
ReturnedBy(f) == UNION {Range(origin[r].uses) : r \in ValuesWith("Return", f)}

\* Past the operands of a call is its callee, which nothing handles; what is further on is not defined.
OperandAt(c, n) == IF n \in DOMAIN origin[c].uses THEN origin[c].uses[n] ELSE Unhandled

\* gather_possible_arguments: of the calls in a function that may call that function itself,
\* which need not be the function of the parameter.
PossibleArguments(p) ==
  {OperandAt(c, origin[p].what) :
     c \in {d \in DOMAIN origin : origin[d].op = "Call" /\ origin[d].fn \in origin[d].what}}

\* Up the chain of definitions; what is not handled ends there.
SourcesOf(v) ==
  LET i == origin[v]
  IN  CASE v = Unhandled -> {}
        [] i.op \in PHIOps \cup {"IndexWrite", "AssocWrite"} -> {i.uses[1]}
        [] i.op = "PHI" -> Range(i.uses)
        [] i.op = "Call" -> ReturnedBy(i.what)
        [] i.op = "Argument" -> PossibleArguments(v)
        [] OTHER -> {}

ReferencedAt(v) ==
  CASE v = Unhandled \/ origin[v].op = "Null" -> {Unhandled}
    [] origin[v].op \in {"Sequence", "AssocArray"} -> {v}
    [] OTHER -> {}

FollowSources ==
  /\ stage = "sources" /\ work # {}
  /\ \E v \in {CHOOSE w \in work : TRUE} :
       /\ work' = (work \cup SourcesOf(v)) \ (seen \cup {v})
       /\ seen' = seen \cup {v}
       /\ referenced' = referenced \cup ReferencedAt(v)
  /\ UNCHANGED <<stage, origin, folded, left, alloc, keyUses, keyIndex, folds, done>>

\* Variant: one of several collections will do.
FoldableOntoSome(r) == r # {} /\ Unhandled \notin r

Foldable(r) == Cardinality(r) = 1 /\ Unhandled \notin r

Decide ==
  /\ stage = "sources" /\ work = {}
  /\ stage' = "next"
  /\ folds' = IF Foldable(referenced)
              THEN [a \in DOMAIN folds \cup {alloc} |->
                      IF a = alloc THEN CHOOSE c \in referenced : TRUE ELSE folds[a]]
              ELSE folds
  /\ UNCHANGED <<origin, folded, left, alloc, work, seen, keyUses, keyIndex, referenced, done>>

-----------------------------------------------------------------------------
(* Transformation *)

EndAnalysis ==
  /\ stage = "next" /\ left = {}
  /\ stage' = "fold"
  /\ UNCHANGED <<origin, folded, left, alloc, work, seen, keyUses, keyIndex, referenced, folds, done>>

\* get_index_function
IndexOp(o) == CASE o = "AssocRead" -> "IndexRead" [] o = "AssocWrite" -> "IndexWrite"
                [] o = "AssocGet" -> "IndexGet" [] OTHER -> o

\* A constant, or a parameter of whatever function.
SizeIsAvailable(size) == size # "computed"

\* The allocation is replaced in place; where no size is known all is left as it is.
FoldOnto(a) ==
  LET base == origin[folds[a]]
      \* The key of an access is replaced by the index that was used to get it.
      Refolded(o, i, x) == IF x \in keyUses[a] THEN [i EXCEPT !.op = o, !.uses[2] = keyIndex[x]] ELSE i
  IN  folded' =
        IF base.op = "AssocArray"
        THEN [x \in DOMAIN folded |-> IF x = a THEN [folded[x] EXCEPT !.what = base.what]
                                      ELSE Refolded(folded[x].op, folded[x], x)]
        ELSE IF SizeIsAvailable(base.what)
        THEN [x \in DOMAIN folded |-> IF x = a THEN [folded[x] EXCEPT !.op = "Sequence", !.what = base.what]
                                      ELSE Refolded(IndexOp(folded[x].op), folded[x], x)]
        ELSE folded

Fold ==
  /\ stage = "fold"
  /\ \E a \in DOMAIN folds \ done :
       /\ FoldOnto(a)
       /\ done' = done \cup {a}
  /\ UNCHANGED <<stage, origin, left, alloc, work, seen, keyUses, keyIndex, referenced, folds>>

EndFolding ==
  /\ stage = "fold" /\ done = DOMAIN folds
  /\ stage' = "erase"
  /\ UNCHANGED <<origin, folded, left, alloc, work, seen, keyUses, keyIndex, referenced, folds, done>>

KeysInit ==
  /\ stage = "next" /\ origin \in KeyPrograms /\ folded = origin
  /\ left = {v \in DOMAIN origin : origin[v].op = "AssocArray"}
  /\ alloc = 0 /\ work = {} /\ seen = {} /\ referenced = {} /\ done = {} /\ folds = << >>
  /\ keyUses = [v \in DOMAIN origin |-> {}] /\ keyIndex = [v \in DOMAIN origin |-> 0]

KeysNext ==
  NextAssoc \/ FollowUses \/ CheckKeys \/ FollowSources \/ Decide \/ EndAnalysis \/ Fold \/ EndFolding

-----------------------------------------------------------------------------
(* Properties *)

\* What may be at v when program p runs: <<allocation, version>>; each operation that moves
\* elements makes a new version.
MayBe(p) ==
  LET Moves == {"IndexInsert", "IndexRemove", "AssocInsert", "AssocRemove"}
      Into(a) == {p[c].uses[p[a].what] : c \in {d \in DOMAIN p : p[d].op = "Call" /\ p[a].fn \in p[d].what}}
      Outof(c) == UNION {Range(p[r].uses) : r \in {s \in DOMAIN p : p[s].op = "Return" /\ p[s].fn \in p[c].what}}
      Before(v) == CASE p[v].op = "Argument" -> Into(v)
                     [] p[v].op = "Call" -> Outof(v)
                     [] p[v].op = "PHI" -> Range(p[v].uses)
                     [] p[v].op \in PHIOps \cup Moves \cup {"IndexWrite", "AssocWrite"} -> {p[v].uses[1]}
                     [] OTHER -> {}
      D[k \in 0 .. Len(p)] ==
        [v \in DOMAIN p |->
           IF p[v].op \in {"Sequence", "AssocArray"} THEN {<<v, v>>}
           ELSE IF k = 0 THEN {}
           ELSE LET all == UNION {D[k - 1][u] : u \in Before(v)}
                IN  IF p[v].op \in Moves THEN {<<e[1], v>> : e \in all} ELSE all]
  IN  D[Len(p)]

\* transform: after it each collection is accessed as what it is, by index or by key.
AccessesFitCollection ==
  stage = "erase" =>
    LET at == MayBe(folded)
        ByIndex == {"IndexRead", "IndexWrite", "IndexGet", "IndexInsert", "IndexRemove"}
        ByKey   == KeyedOps \cup {"AssocHas", "AssocInsert", "AssocRemove", "AssocKeys"}
    IN  \A x \in DOMAIN folded :
          /\ folded[x].op \in ByIndex => \A e \in at[folded[x].uses[1]] : folded[e[1]].op = "Sequence"
          /\ folded[x].op \in ByKey => \A e \in at[folded[x].uses[1]] : folded[e[1]].op = "AssocArray"

\* KeyFolding.hpp:549: a size that is an argument of the function containing the array is
\* available to its allocation.
SizesAreInScope ==
  stage = "erase" =>
    \A a \in DOMAIN folds : folded[a].op = "Sequence" /\ folded[a].what = "parameter" => origin[a].fn = origin[folds[a]].fn

\* analyze: all keys of an array that was folded are elements of one collection in one version,
\* the one it is folded onto, and stand for what they were got by: equal keys, and only they,
\* become equal indices.
KeysBecomeIndices ==
  stage = "erase" =>
    LET at == MayBe(origin)
        Accesses(a) == {x \in DOMAIN origin : origin[x].op \in KeyedOps /\ \E e \in at[origin[x].uses[1]] : e[1] = a}
        IsFolded(a) == origin[folds[a]].op = "AssocArray" \/ SizeIsAvailable(origin[folds[a]].what)
    IN  \A a \in {b \in DOMAIN folds : IsFolded(b)} :
          \E e \in {f \in UNION Range(at) : f[1] = folds[a]} :
            \A x \in Accesses(a) :
              /\ origin[KeyOf(x)].op \in ElementGets
              /\ at[origin[KeyOf(x)].uses[1]] = {e}
              /\ folded[x].uses[2] = origin[KeyOf(x)].uses[2]
=============================================================================
