---------------------------- MODULE TypeAnalysis ----------------------------
(***************************************************************************)
(* TypeAnalysis.cpp: the type of a value, found on demand and remembered   *)
(* until the analysis is invalidated.                                      *)
(*                                                                         *)
(* A program is a sequence of values [op, uses, what, fn]: uses are places *)
(* in it; what is a name, number, global or set of callees; fn is the      *)
(* function a value is in.  A question about a value is answered by        *)
(* operators that pass the state of the analysis on.                       *)
(***************************************************************************)
EXTENDS TypeTables

CONSTANTS
  Programs,    \* the programs to choose from
  Questions,   \* the bound on the questions asked
  MaxDepth     \* more calls of getType_helper within one another never return

VARIABLES
  program,
  types,       \* the type objects of the compiler; they are never freed
  memo,        \* value_to_type
  edgeTypes,   \* edge_types: [PHI -> types found so far]
  asked,       \* the last question and its answer
  status       \* "ok", "aborted" by an assertion, "overflow" of the stack

typeVars == <<program, types, memo, edgeTypes, asked, status>>

StructOps   == {"DefineStructType", "StructType", "StructAlloc"}
DerivedOps  == {"StaticTensorType", "TensorType", "AssocArrayType", "SequenceType"}
AllocOps    == {"TensorAlloc", "AssocArrayAlloc", "SequenceAlloc"}
ReadOps     == {"StructRead", "IndexRead", "AssocRead"}
GetOps      == {"StructGet", "IndexGet", "AssocGet"}
WriteOps    == {"IndexWrite", "AssocWrite"}
PHIOps      == {"UsePHI", "DefPHI", "ArgPHI", "RetPHI"}
EditOps     == {"Insert", "Remove", "Copy", "View", "ExtractValue"}
AssocOps    == {"AssocInsert", "AssocRemove", "AssocHas"}
MutOps      == {"MutInsert", "MutRemove", "MutAppend", "MutSplit", "MutSwapWithin"}
ForwardOps  == WriteOps \cup PHIOps \cup EditOps \cup AssocOps
AssertOps   == {"AssertStructType", "AssertCollectionType"}
VisitedOps  == {"Swap", "AssocKeys", "ReturnType", "Call", "IndirectCall", "Load", "PHI"}
               \cup StructOps \cup DerivedOps \cup AllocOps \cup ReadOps \cup GetOps \cup ForwardOps
               \cup MutOps \cup AssertOps
NoInstruction == {"Argument", "Null"}

TypeCodeOf(op) ==
  CASE op = "StaticTensorType" -> "static_tensor"
    [] op \in {"TensorType", "TensorAlloc"} -> "tensor"
    [] op \in {"AssocArrayType", "AssocArrayAlloc"} -> "assoc_array"
    [] OTHER -> "sequence"

-----------------------------------------------------------------------------
(* The state of the analysis: types, memo, visited, edges, edgeTypes, answer, status *)

Answer(s, t) == [s EXCEPT !.answer = t]
Abort(s)     == [s EXCEPT !.answer = None, !.status = "aborted"]
Overflow(s)  == [s EXCEPT !.answer = None, !.status = "overflow"]

Then(s, Rest(_)) == IF s.status = "ok" THEN Rest(s) ELSE s
NotNull(s)       == IF s.status = "ok" /\ s.answer = None THEN Abort(s) ELSE s
Memoize(v, s)    == Then(s, LAMBDA r : [r EXCEPT !.memo[v] = r.answer])

GetObject(s, t) ==
  LET found == Intern(s.types, t) IN [s EXCEPT !.types = found.types, !.answer = found.at]

\* The answers for several operands, one after the other.
Each(operands, s, Get(_, _)) ==
  FoldLeft(LAMBDA before, u :
             Then(before, LAMBDA r : Then(Get(u, r), LAMBDA q : Answer(q, Append(r.answer, q.answer)))),
           Answer(s, << >>), operands)

UsersOf(v, ops) ==
  SetToSortSeq({w \in DOMAIN program : program[w].op \in ops /\ v \in Range(program[w].uses)}, <)

RECURSIVE Helper(_, _, _)

\* getType: each question starts with nothing visited, also one asked within another.
GetType(v, s, depth) == Helper(v, [s EXCEPT !.visited = {}, !.edges = {}], depth)

\* getCollectionType: of a struct, the array of the field.
CollectionOf(i, s, depth) ==
  Then(NotNull(GetType(i.uses[1], s, depth)),
       LAMBDA r : LET t == r.types[r.answer]
                  IN  IF i.op \in {"StructRead", "StructGet"}
                      THEN IF t.code # "struct" THEN Abort(r)
                           ELSE GetObject(r, TypeRecord("field_array", <<r.answer>>, i.what))
                      ELSE IF t.code \in CollectionCodes THEN r ELSE Abort(r))

Element(i, s, depth) ==
  Then(CollectionOf(i, s, depth), LAMBDA r : NotNull(Answer(r, ElementType(r.types, r.answer))))

\* Variant: what is read stays a reference.
UnwrapNot(s) == s

\* What is read through a reference is what it refers to.
Unwrap(s) ==
  Then(s, LAMBDA r : IF r.types[r.answer].code = "ref" THEN Answer(r, r.types[r.answer].of[1]) ELSE r)

\* ReturnValue returns something that is no object, or nothing.
ReturnsPointer(f) == \E w \in DOMAIN program : program[w].fn = f /\ program[w].op = "Return"

\* getReturnType: what it is annotated with, or the one type of all it returns.
ReturnTypeOf(f, s, depth) ==
  LET In(op) == SetToSortSeq({w \in DOMAIN program : program[w].fn = f /\ program[w].op = op}, <)
      First(w, r) == Helper(program[w].uses[1], r, depth)
  IN  CASE In("ReturnType") # << >> -> First(In("ReturnType")[1], s)
        [] OTHER -> Then(Each(In("Return"), s, First),
                         LAMBDA r : IF Cardinality(Range(r.answer)) = 1 THEN Answer(r, r.answer[1]) ELSE Abort(r))

VisitSwap(i, s, depth) ==
  Then(Helper(i.uses[1], s, depth),
       LAMBDA r : IF r.answer # None THEN Memoize(i.uses[2], r)
                  ELSE Memoize(i.uses[1], Helper(i.uses[2], r, depth)))

VisitKeys(i, s, depth) ==
  Then(NotNull(Helper(i.uses[1], s, depth)),
       LAMBDA r : IF r.types[r.answer].code # "assoc_array" THEN Abort(r)
                  ELSE GetObject(r, TypeRecord("sequence", <<KeyType(r.types, r.answer)>>, None)))

\* Of an indirect call, the functions it may call must return the same; and that is dropped.
VisitCall(v, s, depth) ==
  LET callees == SetToSortSeq(program[v].what, LAMBDA f, g : f < g)
  IN  CASE ~ ReturnsPointer(callees[1]) -> Answer(s, None)
        [] program[v].op = "Call" -> Memoize(v, ReturnTypeOf(callees[1], s, depth))
        [] OTHER -> Memoize(v, Then(Each(callees, s, LAMBDA f, r : ReturnTypeOf(f, r, depth)),
                                    LAMBDA r : IF Cardinality(Range(r.answer)) = 1 THEN Answer(r, None) ELSE Abort(r)))

Incoming(v, u, s, depth) ==
  IF <<v, u>> \in s.edges THEN s
  ELSE Then(Helper(u, [s EXCEPT !.edges = @ \cup {<<v, u>>}], depth),
            LAMBDA r : [r EXCEPT !.edgeTypes[v] = @ \cup ({r.answer} \ {None})])

\* A PHI whose incoming values have no or several types is not remembered.
VisitPHI(v, s, depth) ==
  Then(FoldLeft(LAMBDA before, u : Then(before, LAMBDA r : Incoming(v, u, r, depth)), s, program[v].uses),
       LAMBDA r : IF Cardinality(r.edgeTypes[v]) # 1 THEN Answer(r, None)
                  ELSE Memoize(v, Answer(r, CHOOSE t \in r.edgeTypes[v] : TRUE)))

\* A load of a global has the type of what is stored to it.
VisitLoad(v, s, depth) ==
  LET stores == {w \in DOMAIN program : program[w].op = "Store" /\ program[w].what = program[v].what}
  IN  IF stores = {} THEN Answer(s, None)
      ELSE Memoize(v, NotNull(Helper(program[CHOOSE w \in stores : TRUE].uses[1], s, depth)))

VisitDefinition(v, s, depth) ==
  Memoize(v, Then(Each(program[v].uses, s, LAMBDA u, r : Helper(u, r, depth)),
                  LAMBDA r : GetObject(r, StructRecord(v, program[v].what, r.answer))))

\* CHECK_MEMOIZED: a value that is being visited has no type for now.
Checked(v, s, Visit(_)) ==
  CASE s.memo[v] # None -> Answer(s, s.memo[v])
    [] v \in s.visited -> Answer(s, None)
    [] OTHER -> Visit([s EXCEPT !.visited = @ \cup {v}])

\* A struct type is that of a definition of its name.
VisitStructType(v, s, depth) ==
  LET definitions == {w \in DOMAIN program : program[w].op = "DefineStructType" /\ program[w].what = program[v].what}
      w == CHOOSE d \in definitions : TRUE
  IN  IF definitions = {} THEN Abort(s)
      ELSE Memoize(v, NotNull(Checked(w, s, LAMBDA r : VisitDefinition(w, r, depth))))

\* The type instructions ask getType for their operands; allocations go on with this question.
VisitMade(i, s, Get(_, _)) ==
  Then(Each(i.uses, s, LAMBDA u, r : NotNull(Get(u, r))),
       LAMBDA r : GetObject(r, TypeRecord(TypeCodeOf(i.op), r.answer, i.what)))
VisitDerived(v, s, depth)    == Memoize(v, VisitMade(program[v], s, LAMBDA u, r : GetType(u, r, depth)))
VisitAllocation(v, s, depth) == Memoize(v, VisitMade(program[v], s, LAMBDA u, r : Helper(u, r, depth)))

Visit(v, s, depth) ==
  LET i == program[v]
  IN  CASE i.op = "DefineStructType" -> VisitDefinition(v, s, depth)
        [] i.op = "StructType" -> VisitStructType(v, s, depth)
        [] i.op \in DerivedOps -> VisitDerived(v, s, depth)
        [] i.op \in AllocOps -> VisitAllocation(v, s, depth)
        [] i.op \in ReadOps -> Memoize(v, Unwrap(Element(i, s, depth)))
        [] i.op \in GetOps -> Memoize(v, Element(i, s, depth))
        [] i.op \in ForwardOps \cup MutOps -> Memoize(v, Helper(i.uses[1], s, depth))
        [] i.op \in AssertOps \cup {"ReturnType", "StructAlloc"} -> Memoize(v, NotNull(Helper(i.uses[1], s, depth)))
        [] i.op = "Swap" -> Memoize(v, VisitSwap(i, s, depth))
        [] i.op = "AssocKeys" -> Memoize(v, VisitKeys(i, s, depth))
        [] i.op \in {"Call", "IndirectCall"} -> VisitCall(v, s, depth)
        [] i.op = "PHI" -> VisitPHI(v, s, depth)
        [] i.op = "Load" -> VisitLoad(v, s, depth)

VisitInstruction(v, s, depth) ==
  LET i == program[v]
  IN  CASE i.op = "PrimitiveType" -> GetObject(s, TypeRecord(i.what, << >>, None))
        [] i.op = "ReferenceType" -> Then(NotNull(GetType(i.uses[1], s, depth)),
                                          LAMBDA r : GetObject(r, TypeRecord("ref", <<r.answer>>, None)))
        [] i.op \in VisitedOps -> Checked(v, s, LAMBDA r : Visit(v, r, depth))
        [] OTHER -> Answer(s, None)

\* A value that gives no type itself may be asserted to have one.
Asserted(v, s, depth) ==
  Then(FoldLeft(LAMBDA before, u : IF before.answer # None THEN before
                                   ELSE Then(before, LAMBDA r : VisitInstruction(u, r, depth)),
                s, UsersOf(v, AssertOps)),
       LAMBDA r : IF r.answer = None THEN r ELSE Memoize(v, r))

\* getType_helper
Helper(v, s, depth) ==
  IF depth = 0 THEN Overflow(s)
  ELSE Then(IF program[v].op \in NoInstruction THEN Answer(s, None) ELSE VisitInstruction(v, s, depth - 1),
            LAMBDA r : IF r.answer # None \/ program[v].op = "Null" THEN r ELSE Asserted(v, r, depth - 1))

-----------------------------------------------------------------------------

State == [types |-> types, memo |-> memo, visited |-> {}, edges |-> {}, edgeTypes |-> edgeTypes,
          answer |-> None, status |-> status]

Becomes(s) ==
  types' = s.types /\ memo' = s.memo /\ edgeTypes' = s.edgeTypes /\ status' = s.status

Unasked == [value |-> None, answer |-> None, count |-> 0]

\* analyze
Analyze ==
  /\ status = "ok" /\ asked.count < Questions
  /\ \E v \in DOMAIN program :
       LET r == GetType(v, State, MaxDepth)
       IN  Becomes(r) /\ asked' = [value |-> v, answer |-> r.answer, count |-> asked.count + 1]
  /\ UNCHANGED program

\* invalidate; the types found on the edges of PHIs stay.
Invalidate ==
  /\ status = "ok" /\ asked.value # None
  /\ memo' = [v \in DOMAIN program |-> None]
  /\ asked' = [Unasked EXCEPT !.count = asked.count]
  /\ UNCHANGED <<program, types, edgeTypes, status>>

TypesInit ==
  /\ program \in Programs
  /\ types = << >> /\ memo = [v \in DOMAIN program |-> None]
  /\ edgeTypes = [v \in DOMAIN program |-> {}]
  /\ asked = Unasked /\ status = "ok"

-----------------------------------------------------------------------------
(* Properties *)

\* The types, by what they are, that the rules of the language give the values of a program;
\* with flow, parameters have those of what is passed for them.  A has has that of its
\* collection, and an indirect call none.
Declared(p, flow) ==
  LET Field(D, d, n) == UNION {D[p[w].uses[n]] : w \in {x \in DOMAIN p : p[x].op = "DefineStructType" /\ p[x].what = d[2]}}
      Elements(D, i) ==
        UNION {IF d[1] = "struct" THEN Field(D, d, i.what)
               ELSE {IF d[1] = "assoc_array" THEN d[2][2] ELSE d[2][1]} : d \in D[i.uses[1]]}
      Referred(d) == IF d[1] = "ref" THEN d[2][1] ELSE d
      Made(D, i)  == IF Len(i.uses) = 1 THEN {<<TypeCodeOf(i.op), <<d>>, i.what>> : d \in D[i.uses[1]]}
                     ELSE {<<TypeCodeOf(i.op), <<d, e>>, i.what>> : d \in D[i.uses[1]], e \in D[i.uses[2]]}
      In(f, op)   == {w \in DOMAIN p : p[w].fn = f /\ p[w].op = op}
      Returns(D, f) == UNION {D[p[w].uses[1]] : w \in In(f, IF In(f, "ReturnType") # {} THEN "ReturnType" ELSE "Return")}
      Passed(D, i, f) == UNION {D[p[w].uses[i.what]] : w \in {x \in DOMAIN p : p[x].op = "Call" /\ p[x].what = {f}}}
      Rule(D, i) ==
        CASE i.op = "PrimitiveType" -> {<<i.what, << >>, None>>}
          [] i.op = "ReferenceType" -> {<<"ref", <<d>>, None>> : d \in D[i.uses[1]]}
          [] i.op \in {"DefineStructType", "StructType"} -> {<<"struct", i.what>>}
          [] i.op \in DerivedOps \cup AllocOps -> Made(D, i)
          [] i.op \in GetOps -> Elements(D, i)
          [] i.op \in ReadOps -> {Referred(d) : d \in Elements(D, i)}
          [] i.op \in {"Swap", "PHI"} -> UNION {D[u] : u \in Range(i.uses)}
          [] i.op = "AssocKeys" -> {<<"sequence", <<d[2][1]>>, None>> : d \in D[i.uses[1]]}
          [] i.op = "Call" -> UNION {Returns(D, f) : f \in {g \in i.what : In(g, "Return") # {}}}
          [] i.op = "IndirectCall" -> {}
          [] i.op = "Load" -> UNION {D[p[w].uses[1]] : w \in {x \in DOMAIN p : p[x].op = "Store" /\ p[x].what = i.what}}
          [] i.op = "Argument" -> IF flow THEN Passed(D, i, i.fn) ELSE {}
          [] i.op \in VisitedOps -> D[i.uses[1]]
          [] OTHER -> {}
      Asserts(D, v) == UNION {D[w] : w \in {x \in DOMAIN p : p[x].op \in AssertOps /\ p[x].uses[2] = v}}
      RECURSIVE Grow(_)
      Grow(D) == LET more == [v \in DOMAIN p |-> Rule(D, p[v]) \cup Asserts(D, v)]
                 IN  IF more = D THEN D ELSE Grow(more)
  IN  Grow([v \in DOMAIN p |-> {}])

\* getType: in whatever order values are asked for, and whatever is remembered, the answer is
\* the type the value has, and there is none only where the rules give none.
AnswersAgree ==
  asked.value # None /\ status = "ok" =>
    Declared(program, FALSE)[asked.value] =
      IF asked.answer = None THEN {} ELSE {Denotation(types)[asked.answer]}

\* No type has two objects.
TypesAreUnique == OneObjectPerType(types)
=============================================================================
