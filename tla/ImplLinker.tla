----------------------------- MODULE ImplLinker -----------------------------
(***************************************************************************)
(* The pass memoir-impl-linker (transforms/impl_linker, lowering/          *)
(* ImplLinker.cpp) makes the data structures a program allocates out of    *)
(* the macros in runtime/backend; SSA destruction then looks up, by name,  *)
(* the function that each operation is lowered to.  What both know of one  *)
(* another is how the name of a function is made of the types.             *)
(***************************************************************************)
EXTENDS RuntimeTypes

VARIABLES
  linked,    \* [seqs, assocs, structs]: what is implemented; or None
  lowered,   \* how far destruction is in its Visits; or None
  missing    \* the functions it looked up in vain

linkVars == <<linked, lowered, missing>>

\* INSTANTIATE_stl_vector, INSTANTIATE_stl_unordered_map
VectorFunctions == {"allocate", "free", "get", "read", "write", "copy", "remove", "remove_range",
                    "insert_element", "insert", "insert_range", "swap", "size"}
MapFunctions == {"allocate", "free", "has", "get", "read", "write", "insert", "remove", "size", "keys"}

-----------------------------------------------------------------------------
(* Names *)

\* get_code: of a struct and of a collection not which one.
RECURSIVE CodeOf(_, _)
CodeOf(table, a) ==
  LET t == table[a]
  IN  CASE t.code = "struct" -> <<"struct">>
        [] t.code = "ref" -> CodeOf(table, t.of[1]) \o <<"ref">>
        [] t.code \in CollectionCodes -> <<"collection">>
        [] OTHER -> <<t.code>>

\* memoir_to_c_type: there is none for a collection.
RECURSIVE HasCType(_, _)
HasCType(table, a) ==
  CASE table[a].code \in CollectionCodes -> FALSE
    [] table[a].code = "ref" -> HasCType(table, table[a].of[1])
    [] OTHER -> TRUE

\* TypeConverter: a struct has its fields within it; there is no layout for a collection but an
\* array of one dimension.
RECURSIVE HasLayout(_, _)
HasLayout(table, a) ==
  LET t == table[a]
      PartsHave == \A n \in DOMAIN t.of : HasLayout(table, t.of[n])
  IN  CASE t.code \in {"ref", "struct"} -> PartsHave
        [] t.code = "static_tensor" -> PartsHave /\ Len(t.what) = 1
        [] OTHER -> t.code \notin CollectionCodes

SeqName(table, e, f)      == <<"stl_vector", CodeOf(table, e), f>>
AssocName(table, k, e, f) == <<"stl_unordered_map", CodeOf(table, k), CodeOf(table, e), f>>

-----------------------------------------------------------------------------
(* The linker: s is the state of the analysis and the linker. *)

\* Variant: each allocation is implemented.
InsertAlways(seq, x) == Append(seq, x)

\* insert_unique
InsertUnique(seq, x) == IF x \in Range(seq) THEN seq ELSE Append(seq, x)

ImplementType(s, a) == IF s.types[a].code = "struct" THEN [s EXCEPT !.structs = @ \cup {a}] ELSE s

ImplementSeq(s, e) == [ImplementType(s, e) EXCEPT !.seqs = InsertUnique(@, e)]

\* Variant: the keys of an associative array get no vector.
ImplementAssocOnly(s, k, e) ==
  [ImplementType(ImplementType(s, k), e) EXCEPT !.assocs = InsertUnique(@, <<k, e>>)]

\* assoc_keys makes a sequence of the keys.
ImplementAssoc(s, k, e) ==
  ImplementSeq([ImplementType(ImplementType(s, k), e) EXCEPT !.assocs = InsertUnique(@, <<k, e>>)], k)

\* convert: ends the compiler at a type that has no layout.
Convert(s) == Then(s, LAMBDA r : IF HasLayout(r.types, r.answer) THEN r ELSE Abort(r))

\* What the pass does with one instruction; of tensors and structs it implements no allocation.
Implement(s, v) ==
  LET i == program[v]
      PartType(n, r) == Convert(NotNull(GetType(i.uses[n], r, MaxDepth)))
  IN  CASE i.op = "SequenceAlloc" -> Then(PartType(1, s), LAMBDA r : ImplementSeq(r, r.answer))
        [] i.op = "AssocArrayAlloc" ->
             Then(PartType(1, s), LAMBDA r : Then(PartType(2, r), LAMBDA q : ImplementAssoc(q, r.answer, q.answer)))
        [] i.op = "DefineStructType" -> Then(Convert(NotNull(GetType(v, s, MaxDepth))), LAMBDA r : ImplementType(r, r.answer))
        [] OTHER -> s

\* emit: ends the compiler at a type that has no C type.
Emit(s) ==
  Then(s, LAMBDA r :
    IF \A a \in Range(r.seqs) \cup UNION {Range(p) : p \in Range(r.assocs)} : HasCType(r.types, a) THEN r ELSE Abort(r))

Implementations ==
  LET fresh == [State EXCEPT !.memo = [v \in DOMAIN program |-> None]]
               @@ [seqs |-> << >>, assocs |-> << >>, structs |-> {}]
  IN  Emit(FoldLeft(LAMBDA s, v : Then(s, LAMBDA r : Implement(r, v)), fresh, [v \in DOMAIN program |-> v]))

\* runOnModule
Link ==
  /\ status = "ok" /\ linked = None /\ executed = 0 /\ asked = Unasked
  /\ \E s \in {Implementations} :
       /\ Becomes(s)
       /\ linked' = [seqs |-> s.seqs, assocs |-> s.assocs, structs |-> s.structs]
  /\ UNCHANGED <<program, asked, source, runtimeVars, lowered, missing>>

\* The functions that what is linked defines.
Defined ==
  {SeqName(types, e, f) : e \in Range(linked.seqs), f \in VectorFunctions}
  \cup {AssocName(types, p[1], p[2], f) : p \in Range(linked.assocs), f \in MapFunctions}

-----------------------------------------------------------------------------
(* SSADestruction.cpp *)

\* The functions an operation on a sequence may be lowered to.
SeqFunctions(op) ==
  CASE op = "IndexRead" -> {"read"}
    [] op = "IndexGet" -> {"get"}
    [] op = "IndexWrite" -> {"write"}
    [] op = "Insert" -> {"insert_element", "insert"}
    [] op = "Remove" -> {"remove_range"}
    [] op = "Copy" -> {"copy"}
    [] op = "Swap" -> {"swap"}
    [] OTHER -> {}

AssocFunctions(op) ==
  CASE op = "AssocRead" -> {"read"}
    [] op = "AssocGet" -> {"get"}
    [] op = "AssocWrite" -> {"write"}
    [] op = "AssocInsert" -> {"insert"}
    [] op = "AssocRemove" -> {"remove"}
    [] op = "AssocHas" -> {"has"}
    [] op = "AssocKeys" -> {"keys"}
    [] OTHER -> {}

\* Elements of static tensors are reached without a call.
Inline(op, code) == op \in {"IndexRead", "IndexGet", "IndexWrite"} /\ code \in {"static_tensor", "tensor"}

\* Instructions of no result, or of a result that is neither an object nor a type.
NoObjects == ReadOps \cup MutOps \cup AssertOps \cup {"AssocHas", "ReturnType"}

\* Before it visits a function the pass asks for the types of its parameters; if it has none, of all
\* values that are objects or types (reads of references aside).
AskedFirst(f) ==
  LET In(ops) == SelectSeq([v \in DOMAIN program |-> v], LAMBDA v : program[v].fn = f /\ program[v].op \in ops)
  IN  IF In({"Argument"}) # << >> THEN In({"Argument"}) ELSE In(VisitedOps \ NoObjects)

\* Function after function: None for its first questions, then its values; those without objects
\* are skipped.
Visits ==
  LET Of(f) == IF AskedFirst(f) = << >> THEN << >>
               ELSE <<[fn |-> f, value |-> None]>> \o
                    SelectSeq([v \in DOMAIN program |-> [fn |-> program[v].fn, value |-> v]], LAMBDA x : x.fn = f)
  IN  FlattenSeq([n \in DOMAIN FunctionsOf(program) |-> Of(FunctionsOf(program)[n])])

BeginDestruction ==
  /\ status = "ok" /\ linked # None /\ lowered = None
  /\ lowered' = 0 /\ memo' = [v \in DOMAIN program |-> None]
  /\ UNCHANGED <<program, types, edgeTypes, status, asked, source, runtimeVars, linked, missing>>

AskFirst(f) ==
  /\ \E s \in {FoldLeft(LAMBDA q, v : Then(q, LAMBDA r : GetType(v, r, MaxDepth)), State, AskedFirst(f))} : Becomes(s)
  /\ UNCHANGED missing

\* A collection of the type at a: the functions op calls on it.
LoweredTo(op, table, a) ==
  LET t == table[a]
  IN  IF t.code = "sequence" THEN {SeqName(table, t.of[1], f) : f \in SeqFunctions(op)}
      ELSE {AssocName(table, t.of[1], t.of[2], f) : f \in AssocFunctions(op)}

LoweredOps == {op \in ReadOps \cup GetOps \cup WriteOps \cup EditOps \cup AssocOps \cup {"Swap", "AssocKeys"} :
                 SeqFunctions(op) \cup AssocFunctions(op) # {}}

\* MEMOIR_SANITIZE(dyn_cast<...>(TypeAnalysis::analyze(...)))
Fits(s, op) ==
  /\ s.answer # None
  /\ \/ s.types[s.answer].code = "sequence" /\ SeqFunctions(op) # {}
     \/ s.types[s.answer].code = "assoc_array" /\ AssocFunctions(op) # {}
     \/ Inline(op, s.types[s.answer].code)
        /\ (s.types[s.answer].code = "static_tensor" => HasLayout(s.types, s.answer))

\* A visitor finds the type of the collection, and by it the function to call.
LowerAccess(v) ==
  LET op == program[v].op
  IN  /\ op \in LoweredOps
      /\ \E s \in {GetType(program[v].uses[1], State, MaxDepth)} :
           \/ /\ ~ (s.status = "ok" /\ Fits(s, op))
              /\ Becomes(IF s.status = "ok" THEN Abort(s) ELSE s)
              /\ UNCHANGED missing
           \/ /\ s.status = "ok" /\ Fits(s, op) /\ Becomes(s)
              /\ missing' = missing \cup
                   (IF Inline(op, s.types[s.answer].code) THEN {} ELSE LoweredTo(op, s.types, s.answer) \ Defined)

\* The types an allocation is of.
LowerAllocation(v) ==
  LET i == program[v]
      parts == Each(i.uses, State, LAMBDA u, r : NotNull(GetType(u, r, MaxDepth)))
  IN  /\ i.op \in {"SequenceAlloc", "AssocArrayAlloc"}
      /\ \E s \in {parts} :
           /\ Becomes(s)
           /\ missing' = IF s.status # "ok" THEN missing
                         ELSE missing \cup
                              ((IF i.op = "SequenceAlloc" THEN {SeqName(s.types, s.answer[1], "allocate")}
                                ELSE {AssocName(s.types, s.answer[1], s.answer[2], "allocate")}) \ Defined)

\* Structs are lowered to loads and stores (TypeLayout), and what is mutable already is left.
LowerOther(v) ==
  /\ program[v].op \notin LoweredOps \cup {"SequenceAlloc", "AssocArrayAlloc"}
  /\ UNCHANGED <<types, memo, edgeTypes, status, missing>>

Lower ==
  /\ status = "ok" /\ lowered # None /\ lowered < Len(Visits)
  /\ lowered' = lowered + 1
  /\ \E x \in {Visits[lowered + 1]} :
       IF x.value = None THEN AskFirst(x.fn)
       ELSE LowerAccess(x.value) \/ LowerAllocation(x.value) \/ LowerOther(x.value)
  /\ UNCHANGED <<program, asked, source, runtimeVars, linked>>

-----------------------------------------------------------------------------

LinkedProgramInit == TypesOfProgramInit /\ linked = None /\ lowered = None /\ missing = {}

LinkedProgramNext == (linked = None /\ TypesOfProgramNext /\ UNCHANGED linkVars) \/ Link \/ BeginDestruction \/ Lower

LinkedProgramSpec == LinkedProgramInit /\ [][LinkedProgramNext]_<<inferVars, runtimeVars, linkVars>>

-----------------------------------------------------------------------------
(* Properties *)

\* ImplLinker: each function that destruction calls is defined; it would end with an error at
\* some and leave the operation of others where its collection is no runtime object any more.
CallsAreImplemented == status = "ok" => missing = {}

\* ImplLinker::emit: no function is defined twice.
DefinedOnce ==
  linked # None =>
    /\ \A m, n \in DOMAIN linked.seqs : CodeOf(types, linked.seqs[m]) = CodeOf(types, linked.seqs[n]) => m = n
    /\ \A m, n \in DOMAIN linked.assocs :
         (\A x \in {1, 2} : CodeOf(types, linked.assocs[m][x]) = CodeOf(types, linked.assocs[n][x])) => m = n
=============================================================================
