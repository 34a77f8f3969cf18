--------------------------- MODULE TypeInference ----------------------------
(***************************************************************************)
(* TypeInference.cpp: parameters and results are annotated with the types  *)
(* that are found for them, by instructions Builder.hpp makes.             *)
(***************************************************************************)
EXTENDS TypeAnalysis

VARIABLE source   \* the number of values before the pass, or None

inferVars == <<typeVars, source>>

CallsOf(p, f) ==
  SetToSortSeq({w \in DOMAIN p : p[w].op = "Call" /\ p[w].what = {f}}, <)
ParametersOf(p, f) == SetToSortSeq({w \in DOMAIN p : p[w].op = "Argument" /\ p[w].fn = f}, <)
FunctionsOf(p) == SetToSortSeq({p[w].fn : w \in DOMAIN p}, <)

-----------------------------------------------------------------------------
(* infer: passes on the state of the analysis and notes, the annotations to come. *)

RECURSIVE Infer(_, _, _)

Noted(kind, x, r) ==
  IF r.answer = None THEN r
  ELSE [r EXCEPT !.notes = {n \in @ : n.kind # kind \/ n.of # x} \cup {[kind |-> kind, of |-> x, type |-> r.answer]}]

\* The first call that has a type for the operand; its function is inferred first.
FromCalls(a, s, depth) ==
  LET At(c, r) == Then(Infer(program[c].fn, r, depth),
                       LAMBDA q : GetType(program[c].uses[program[a].what], q, MaxDepth))
  IN  FoldLeft(LAMBDA before, c : IF before.answer # None THEN before ELSE Then(before, LAMBDA r : At(c, r)),
               s, CallsOf(program, program[a].fn))

\* infer_argument_type
InferArgument(a, s, depth) ==
  IF UsersOf(a, AssertOps) # << >> THEN s
  ELSE Then(GetType(a, s, MaxDepth),
            LAMBDA r : Then(IF r.answer # None THEN r ELSE FromCalls(a, r, depth), LAMBDA q : Noted("argument", a, q)))

\* infer_return_type: a function that returns an object counts as annotated.
InferReturn(f, s) ==
  LET Of(op) == SetToSortSeq({w \in DOMAIN program : program[w].fn = f /\ program[w].op = op /\ program[w].uses # << >>}, <)
  IN  IF ReturnsPointer(f) \/ Of("ReturnType") # << >> THEN s
      ELSE Then(FoldLeft(LAMBDA before, w : IF before.answer # None THEN before
                                            ELSE Then(before, LAMBDA r : GetType(program[w].uses[1], r, MaxDepth)),
                         Answer(s, None), Of("ReturnValue")),
                LAMBDA r : Noted("return", f, r))

Infer(f, s, depth) ==
  IF depth = 0 THEN Overflow(s)
  ELSE Then(FoldLeft(LAMBDA before, a : Then(before, LAMBDA r : InferArgument(a, Answer(r, None), depth - 1)),
                     s, ParametersOf(program, f)),
            LAMBDA r : InferReturn(f, r))

-----------------------------------------------------------------------------
(* MemOIRBuilder *)

\* Variant: of an associative array the value type is made first, and taken for that of the keys.
PartsSwapped(t) == Reverse(t.of)

\* The types a type is made of, in the order of the operands of its instruction.
Parts(t) == t.of

\* The instructions for the parts, then the one of the type.
CreateMade(b, t, Create(_, _)) ==
  LET made == FoldLeft(LAMBDA c, u : LET d == Create(c, u) IN [d EXCEPT !.places = Append(c.places, d.at)],
                       [b EXCEPT !.places = << >>], Parts(t))
      op   == CASE t.code = "assoc_array" -> "AssocArrayType"
                [] t.code = "sequence" -> "SequenceType"
                [] OTHER -> "ReferenceType"
  IN  [made EXCEPT !.program = Append(@, [op |-> op, uses |-> made.places, what |-> None, fn |-> b.fn]),
                   !.at = Len(made.program) + 1, !.places = << >>]

\* CreateTypeInst: none for boolean and u2, nor for tensors.
RECURSIVE CreateTypeInst(_, _, _)
CreateTypeInst(b, table, a) ==
  LET t == table[a]
      Emit(op, what) == [b EXCEPT !.program = Append(@, [op |-> op, uses |-> << >>, what |-> what, fn |-> b.fn]),
                                  !.at = Len(b.program) + 1]
  IN  CASE t.code \in {"boolean", "u2", "static_tensor", "tensor"} -> [b EXCEPT !.ok = FALSE]
        [] t.code \in PrimitiveCodes -> Emit("PrimitiveType", t.code)
        [] t.code = "struct" -> Emit("StructType", t.what)
        [] t.code = "field_array" -> CreateTypeInst(b, table, t.of[1])
        [] OTHER -> CreateMade(b, t, LAMBDA c, u : CreateTypeInst(c, table, u))

Builder(p) == [program |-> p, at |-> None, places |-> << >>, fn |-> None, ok |-> TRUE]

\* CreateAssertTypeInst, CreateReturnTypeInst
Annotate(b, table, note) ==
  LET f    == IF note.kind = "argument" THEN program[note.of].fn ELSE note.of
      made == CreateTypeInst([b EXCEPT !.fn = f], table, note.type)
      op   == CASE note.kind = "return" -> "ReturnType"
                [] table[note.type].code = "struct" -> "AssertStructType"
                [] OTHER -> "AssertCollectionType"
      uses == IF note.kind = "argument" THEN <<made.at, note.of>> ELSE <<made.at>>
  IN  IF ~ made.ok THEN made
      ELSE [made EXCEPT !.program = Append(@, [op |-> op, uses |-> uses, what |-> None, fn |-> f])]

-----------------------------------------------------------------------------

Inferred ==
  LET fresh == [State EXCEPT !.memo = [v \in DOMAIN program |-> None]] @@ [notes |-> {}]
  IN  FoldLeft(LAMBDA s, f : Then(s, LAMBDA r : Infer(f, r, MaxDepth)), fresh, FunctionsOf(program))

Annotated(s) ==
  FoldLeft(LAMBDA b, n : IF b.ok THEN Annotate(b, s.types, n) ELSE b, Builder(program), SetToSeq(s.notes))

\* The pass: what is remembered is dropped, all functions are inferred, then all is annotated.
RunTypeInference ==
  /\ status = "ok" /\ source = None
  /\ \E s \in {Inferred} : \E b \in {Annotated(s)} :
       LET Extended(f, new) == [v \in DOMAIN b.program |-> IF v \in DOMAIN program THEN f[v] ELSE new]
       IN  /\ types' = s.types /\ memo' = Extended(s.memo, None) /\ edgeTypes' = Extended(s.edgeTypes, {})
           /\ status' = IF s.status = "ok" /\ ~ b.ok THEN "aborted" ELSE s.status
           /\ program' = b.program
  /\ source' = Len(program)
  /\ asked' = [Unasked EXCEPT !.count = asked.count]

-----------------------------------------------------------------------------
(* Properties *)

\* TypeInference: what is annotated has the type of all that is passed for it, and a parameter
\* that is passed a value of a known type is annotated.
InferredAgree ==
  source # None /\ status = "ok" =>
    LET known == Declared(SubSeq(program, 1, source), FALSE)
        flow  == Declared(SubSeq(program, 1, source), TRUE)
        now   == Declared(program, FALSE)
    IN  \A a \in 1 .. source :
          program[a].op = "Argument" =>
            /\ now[a] \subseteq flow[a]
            /\ (\E c \in Range(CallsOf(program, program[a].fn)) : known[program[c].uses[program[a].what]] # {})
               => now[a] # {}
=============================================================================
