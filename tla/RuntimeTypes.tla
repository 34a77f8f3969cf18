---------------------------- MODULE RuntimeTypes ----------------------------
(***************************************************************************)
(* runtime/src/detail/types.cpp: the type objects a program makes when it  *)
(* runs unlowered, and its type assertions.  The values of a program are   *)
(* executed in turn; an object is named by the value that allocates it.    *)
(***************************************************************************)
EXTENDS TypeInference

VARIABLES
  runtimeTypes,  \* the type objects; the place of one is its address
  made,          \* [value -> the type it makes, or of the object it makes]
  executed,      \* the number of values executed
  failed         \* an assertion did not hold

runtimeVars == <<runtimeTypes, made, executed, failed>>

MakerOps == AllocOps \cup {"StructAlloc", "AssocKeys"}

-----------------------------------------------------------------------------
(* types.cpp *)

\* Structs are found by name, whatever their fields.
Kept(a, b) == a.code = b.code /\ a.what = b.what /\ (a.code # "struct" => a.of = b.of)

\* Variant: sequence types are not kept.
GetNewSequence(table, t) ==
  LET found == {a \in DOMAIN table : Kept(table[a], t)}
  IN  IF t.code \in {"assoc_array", "ref", "sequence"} \/ found = {} THEN [types |-> Append(table, t), at |-> Len(table) + 1]
      ELSE [types |-> table, at |-> CHOOSE a \in found : TRUE]

\* Types of associative arrays and references are made anew each time.
Get(table, t) ==
  LET found == {a \in DOMAIN table : Kept(table[a], t)}
  IN  IF t.code \in {"assoc_array", "ref"} \/ found = {} THEN [types |-> Append(table, t), at |-> Len(table) + 1]
      ELSE [types |-> table, at |-> CHOOSE a \in found : TRUE]

\* A struct that is there already gets its fields now.
Define(table, t) ==
  LET got == Get(table, t) IN [got EXCEPT !.types[got.at].of = t.of]

Lengths(t) == IF t.code = "tensor" THEN [d \in 1 .. t.what |-> 0] ELSE t.what

\* equals: parts of sequences and associative arrays are compared by address.
RECURSIVE Equal(_, _, _)
Equal(table, a, b) ==
  LET s == table[a]
      t == table[b]
      tensors == {"tensor", "static_tensor"}
  IN  CASE s.code = "struct" -> a = b
        [] s.code \in tensors -> t.code \in tensors /\ Lengths(s) = Lengths(t) /\ Equal(table, s.of[1], t.of[1])
        [] s.code = "ref" -> t.code = "ref" /\ Equal(table, s.of[1], t.of[1])
        [] OTHER -> s.code = t.code /\ s.of = t.of

-----------------------------------------------------------------------------

\* The allocations the objects of a value may be from.
ObjectsOf(p) ==
  LET In(f)      == {w \in DOMAIN p : p[w].fn = f /\ p[w].op = "Return"}
      Rule(D, v) ==
        LET i == p[v]
        IN  CASE i.op \in MakerOps -> {v}
              [] i.op \in {"PHI", "Swap"} -> UNION {D[u] : u \in Range(i.uses)}
              [] i.op \in {"Call", "IndirectCall"} -> UNION {D[p[w].uses[1]] : w \in UNION {In(f) : f \in i.what}}
              [] i.op = "Argument" -> UNION {D[p[w].uses[i.what]] : w \in Range(CallsOf(p, i.fn))}
              [] i.op \in ForwardOps -> D[i.uses[1]]
              [] OTHER -> {}
      RECURSIVE Grow(_)
      Grow(D) == LET more == [v \in DOMAIN p |-> Rule(D, v)] IN IF more = D THEN D ELSE Grow(more)
  IN  Grow([v \in DOMAIN p |-> {}])

Code(op) == IF op = "ReferenceType" THEN "ref" ELSE TypeCodeOf(op)

Makes(got, v) == runtimeTypes' = got.types /\ made' = [made EXCEPT ![v] = got.at] /\ UNCHANGED failed

ExecuteType(v) ==
  LET i  == program[v]
      of == [n \in DOMAIN i.uses |-> made[i.uses[n]]]
  IN  \/ /\ i.op = "PrimitiveType"
         /\ Makes(Get(runtimeTypes, TypeRecord(i.what, << >>, None)), v)
      \/ /\ i.op \in DerivedOps \cup AllocOps \cup {"ReferenceType"}
         /\ Makes(Get(runtimeTypes, TypeRecord(Code(i.op), of, i.what)), v)
      \/ /\ i.op = "StructType"
         /\ Makes(Get(runtimeTypes, StructRecord(None, i.what, << >>)), v)
      \/ /\ i.op = "DefineStructType"
         /\ Makes(Define(runtimeTypes, StructRecord(None, i.what, of)), v)
      \/ /\ i.op = "StructAlloc"
         /\ Makes([types |-> runtimeTypes, at |-> of[1]], v)

\* assoc_keys
ExecuteKeys(v) ==
  /\ program[v].op = "AssocKeys"
  /\ \E o \in ObjectsOf(program)[program[v].uses[1]] :
       Makes(Get(runtimeTypes, TypeRecord("sequence", <<runtimeTypes[made[o]].of[1]>>, None)), v)

\* assert_struct_type, assert_collection_type, of an object that is there by now.
ExecuteAssert(v) ==
  /\ program[v].op \in AssertOps
  /\ \E o \in {x \in ObjectsOf(program)[program[v].uses[2]] : made[x] # None} :
       failed' = (failed \/ ~ Equal(runtimeTypes, made[program[v].uses[1]], made[o]))
  /\ UNCHANGED <<runtimeTypes, made>>

\* Other instructions make no types, set_return_type included.
ExecuteOther(v) ==
  /\ \/ program[v].op \notin DerivedOps \cup MakerOps \cup AssertOps
                             \cup {"PrimitiveType", "ReferenceType", "StructType", "DefineStructType"}
     \/ program[v].op \in AssertOps /\ \A x \in ObjectsOf(program)[program[v].uses[2]] : made[x] = None
  /\ UNCHANGED <<runtimeTypes, made, failed>>

Execute ==
  /\ status = "ok" /\ asked = Unasked /\ executed < Len(program)
  /\ executed' = executed + 1
  /\ ExecuteType(executed + 1) \/ ExecuteKeys(executed + 1) \/ ExecuteAssert(executed + 1) \/ ExecuteOther(executed + 1)
  /\ UNCHANGED inferVars

-----------------------------------------------------------------------------

TypesOfProgramInit ==
  /\ TypesInit /\ source = None
  /\ runtimeTypes = << >> /\ executed = 0 /\ failed = FALSE /\ made = [v \in DOMAIN program |-> None]

\* The compiler is done when the program runs.
Compile ==
  /\ executed = 0
  /\ \/ Analyze /\ UNCHANGED <<source, made>>
     \/ Invalidate /\ UNCHANGED <<source, made>>
     \/ RunTypeInference /\ made' = [v \in DOMAIN program' |-> None]
  /\ UNCHANGED <<runtimeTypes, executed, failed>>

TypesOfProgramNext == Compile \/ Execute

TypesOfProgramSpec == TypesOfProgramInit /\ [][TypesOfProgramNext]_<<inferVars, runtimeVars>>

-----------------------------------------------------------------------------
(* Properties *)

\* type_checking.cpp: no assertion fails, neither one of the program nor one that was inferred.
AssertionsHold == ~ failed
=============================================================================
