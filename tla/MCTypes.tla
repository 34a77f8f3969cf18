------------------------------ MODULE MCTypes -------------------------------
(***************************************************************************)
(* Small programs to find, infer and execute the types of, and to link.   *)
(***************************************************************************)
EXTENDS ImplLinker

I(op, uses, what, fn) == [op |-> op, uses |-> uses, what |-> what, fn |-> fn]
Main(op, uses)   == I(op, uses, None, 1)
Callee(op, uses) == I(op, uses, None, 2)

\* 1 a primitive, 2 a key, 3 a sequence and 4 an array of the primitive, 5 a struct with a field
\* of type 1 and one of type f, 6 that struct, 7 a reference to it.
Preamble(code, f) ==
  << I("PrimitiveType", << >>, code, 1), I("PrimitiveType", << >>, "u64", 1),
     Main("SequenceType", <<1>>), Main("AssocArrayType", <<2, 1>>),
     I("DefineStructType", <<1, f>>, <<"S">>, 1), I("StructType", << >>, <<"S">>, 1), Main("ReferenceType", <<6>>) >>

Alloc(e, assoc) == IF assoc THEN Main("AssocArrayAlloc", <<2, e>>) ELSE Main("SequenceAlloc", <<e>>)
Prefix(assoc)   == IF assoc THEN "Assoc" ELSE "Index"

\* A collection that is written in a loop and read; of a reference that is read, a field.
Loops ==
  {Preamble("i8", 2) \o
   <<Alloc(e, assoc), Main("PHI", order), Main(Prefix(assoc) \o "Write", <<9>>), Main(Prefix(assoc) \o get, <<9>>)>> \o
   (IF assoc THEN <<Main("AssocKeys", <<10>>), Main("AssocHas", <<8>>)>>
             ELSE <<Main("Copy", <<10>>), Main("Swap", <<8, 12>>), Main("MutSwapWithin", <<8>>)>>) \o
   (IF e = 7 /\ get = "Read" THEN <<I("StructRead", <<11>>, 1, 1)>> ELSE << >>)
   : e \in {1, 3, 4, 6, 7}, assoc \in BOOLEAN, order \in {<<8, 10>>, <<10, 8>>}, get \in {"Read", "Get"}}

\* Function 2 writes what it is passed in a loop and returns it, or a value of it.
Called(code, e, assoc, more) ==
  Preamble(code, 2) \o
  <<Alloc(e, assoc), I("Call", <<8>>, {2}, 1), I("Argument", << >>, 1, 2), Callee("PHI", <<10, 12>>),
    Callee(Prefix(assoc) \o "Write", <<11>>)>> \o more

Returns == Callee("Return", <<11>>)

Calls ==
  {Called(code, e, assoc, more) : code \in {"i8", "boolean"}, e \in {1, 3}, assoc \in BOOLEAN,
     more \in {<<Returns>>, <<Returns, I("Call", <<12>>, {2}, 2)>>, <<Returns, I("IndirectCall", <<8>>, {2}, 1)>>,
               <<Callee("AssocHas", <<12>>), Callee("ReturnValue", <<13>>)>>, <<Callee("ReturnValue", << >>)>>}}
  \cup
  {Called("i8", 1, assoc, <<Returns, Callee(op, IF op = "ReturnType" THEN <<t>> ELSE <<t, 10>>)>>) :
     op \in {"ReturnType", "AssertCollectionType"}, assoc \in {FALSE}, t \in {3}}

\* Objects with fields, globals, null, and tensors.
Objects ==
  {Preamble("f32", f) \o
   <<Main("StructAlloc", <<6>>), I(get, <<8>>, 2, 1), I("Store", <<8>>, <<"g">>, 1), I("Load", << >>, <<"g">>, 1),
     Main("AssertStructType", <<6, 8>>), Main("Null", << >>), Main("PHI", <<13, 11>>)>> \o more
   : f \in {2, 3, 4}, get \in {"StructRead", "StructGet"},
     more \in {<<I("StaticTensorType", <<1>>, <<2, 3>>, 1), I("TensorType", <<1>>, 2, 1), I("TensorAlloc", <<1>>, 2, 1),
                 Main("IndexRead", <<17>>), Main("AssertCollectionType", <<16, 17>>)>>,
               <<I("Call", <<8>>, {2}, 1), I("Argument", << >>, 1, 2), I("StructRead", <<16>>, 1, 2),
                 Callee("ReturnValue", <<17>>)>>}}

\* Function 2 is passed a collection of references.
References == {Called("i8", 7, assoc, <<Callee("Return", <<11>>)>>) : assoc \in BOOLEAN}

\* The keys of an array, which are of the type of a sequence that is allocated, or of another.
Keyed ==
  {Preamble("i8", 2) \o
   <<Main("AssocArrayAlloc", <<k, e>>), Main("SequenceAlloc", <<1>>), Main("AssocKeys", <<8>>), Main(op, <<10>>),
     Main("AssocArrayAlloc", <<k, e>>), Main("AssocInsert", <<12>>), Main("AssocRemove", <<13>>)>>
   : k \in {1, 2, 7}, e \in {1, 6}, op \in {"IndexRead", "Insert", "Remove"}}

\* Sequences of two struct types.
TwoStructs ==
  {Preamble("i8", 2) \o
   <<I("DefineStructType", <<1>>, <<"T">>, 1), Main("SequenceAlloc", <<6>>), Main("SequenceAlloc", <<8>>)>>}

\* Programs that the code links or asserts wrongly: MCTypes_beyond.cfg.
Beyond == References \cup TwoStructs

MCPrograms == Loops \cup Calls \cup Objects \cup Keyed
=============================================================================
