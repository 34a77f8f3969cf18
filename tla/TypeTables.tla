----------------------------- MODULE TypeTables -----------------------------
(***************************************************************************)
(* Types.cpp: the compiler has one object for each type, and compares      *)
(* types by address.  A sequence of types stands for all tables; a type's  *)
(* place in it is its address.                                             *)
(***************************************************************************)
EXTENDS Integers, Sequences, SequencesExt, FiniteSets

CONSTANT None   \* a null pointer

\* of: addresses of the types it is made of; what: name, index, dimensions or lengths.
TypeRecord(code, of, what) == [code |-> code, of |-> of, what |-> what, definition |-> None]
StructRecord(definition, name, fields) ==
  [code |-> "struct", of |-> fields, what |-> name, definition |-> definition]

SignedCodes   == {"i64", "i32", "i16", "i8", "i2"}
UnsignedCodes == {"u64", "u32", "u16", "u8", "u2", "boolean"}
IntegerCodes  == SignedCodes \cup UnsignedCodes
FloatingCodes == {"f32", "f64"}
PrimitiveCodes == IntegerCodes \cup FloatingCodes \cup {"ptr"}
CollectionCodes == {"field_array", "static_tensor", "tensor", "assoc_array", "sequence"}

-----------------------------------------------------------------------------

\* Of a struct the name counts; of a static tensor the number of dimensions: continue goes on
\* with the next length, not the next type.
SameKey(a, b) ==
  /\ a.code = b.code
  /\ CASE a.code = "struct" -> a.what = b.what
       [] a.code = "static_tensor" -> a.of = b.of /\ Len(a.what) = Len(b.what)
       [] OTHER -> a.of = b.of /\ a.what = b.what

FoundType(types, t) == {a \in DOMAIN types : SameKey(types[a], t)}

\* Variant: a reference type is made anew each time.
InternNewRef(types, t) ==
  IF t.code # "ref" /\ FoundType(types, t) # {} THEN [types |-> types, at |-> CHOOSE a \in FoundType(types, t) : TRUE]
  ELSE [types |-> Append(types, t), at |-> Len(types) + 1]

\* get and define: the type that is there already, whatever else the new one has; or a new one.
Intern(types, t) ==
  IF FoundType(types, t) # {} THEN [types |-> types, at |-> CHOOSE a \in FoundType(types, t) : TRUE]
  ELSE [types |-> Append(types, t), at |-> Len(types) + 1]

\* getElementType; the field of a struct may be null.
ElementType(types, a) ==
  LET t == types[a]
  IN  CASE t.code = "field_array" -> types[t.of[1]].of[t.what]
        [] t.code = "assoc_array" -> t.of[2]
        [] OTHER -> t.of[1]

KeyType(types, a) == types[a].of[1]

-----------------------------------------------------------------------------
(* Properties *)

\* What a type is, whatever its address: structs by name, the others by what they are made of.
Denotation(types) ==
  LET Known(D, t) == \A i \in DOMAIN t.of : t.of[i] \in DOMAIN D
      Meaning(D, t) == IF t.code = "struct" THEN <<"struct", t.what>>
                       ELSE <<t.code, [i \in DOMAIN t.of |-> D[t.of[i]]], t.what>>
      D[k \in 0 .. Len(types)] ==
        IF k = 0 THEN << >>
        ELSE LET before == D[k - 1]
             IN  [a \in {b \in DOMAIN types : types[b].code = "struct" \/ Known(before, types[b])} |->
                    Meaning(before, types[a])]
  IN  D[Len(types)]

\* Types.cpp, get: no type has two objects.
OneObjectPerType(types) ==
  LET D == Denotation(types)
  IN  /\ DOMAIN D = DOMAIN types
      /\ \A a, b \in DOMAIN types : D[a] = D[b] => a = b
=============================================================================
