----------------------------- MODULE TypeLayout -----------------------------
(***************************************************************************)
(* How a struct is lowered: TypeConverter::visitStructType lays the fields *)
(* out in the elements of an LLVM struct, packing integers narrower than a *)
(* byte into elements they share, and the destruction pass turns reads and *)
(* writes of fields into loads and stores of elements.                     *)
(*                                                                         *)
(* A number in memory is the natural number its bits stand for.            *)
(***************************************************************************)
EXTENDS Integers, Sequences, FiniteSetsExt

CONSTANTS
  StructTypes,  \* the struct types, sequences of field types
  Patterns,     \* bits that are written, where the field is wide enough for them
  None          \* there is no object yet

\* Booleans and the integer types u2 .. u64, i2 .. i64; a pointer has the width of an address.
IntegerWidths == {1, 2, 8, 16, 32, 64}

\* [int, width, signed, passed]: passed is the width of the C type a value is passed in.
FieldType ==
  [int : BOOLEAN, width : IntegerWidths, signed : BOOLEAN, passed : IntegerWidths]

\* get_next_size knows powers of 2 up to 256 bytes, four bit fields of the widest to a byte.
MostFields == 1024

ASSUME StructTypesAssumption ==
  StructTypes \subseteq {t \in Seq(FieldType) : Len(t) <= MostFields}

VARIABLES
  type,       \* the struct type
  field,      \* the field in hand
  width,      \* current_field_width
  offset,     \* current_field_offset
  elements,   \* llvm_field_types, as [int, width]
  offsets,    \* field_offsets
  ranges,     \* bit_field_ranges
  stage,      \* "layout" or "access"
  memory,     \* the elements of one object
  written,    \* the fields that were written; the program reads no other
  call        \* the access made last

layout == <<width, offset, elements, offsets, ranges>>
vars   == <<type, field, layout, stage, memory, written, call>>

-----------------------------------------------------------------------------
(* visitIntegerType *)

IsSize(n) == n \in {8, 16, 32, 64, 128}

PowersOf2 == {1, 2, 4, 8, 16, 32, 64, 128, 256}

\* get_next_size: what is over the last whole byte does not count.
NextSize(n) ==
  IF n < 8 THEN 8 ELSE 8 * Min({p \in PowersOf2 : p >= n \div 8})

Bits(w)      == [int |-> TRUE, width |-> w]
ElementOf(f) == [int |-> f.int, width |-> f.width]

IsBitField(f) == f.int /\ f.width # NextSize(f.width)

-----------------------------------------------------------------------------
(* visitStructType, one turn of the loop per field. *)

Extend(f, x, y) == [z \in DOMAIN f \cup {x} |-> IF z = x THEN y ELSE f[z]]

LayingOut == stage = "layout" /\ field <= Len(type)

\* Variant: a bit field does not go behind the one before it.
LayoutBitFieldAlone ==
  /\ LayingOut /\ IsBitField(type[field])
  /\ width' = type[field].width
  /\ ranges' = Extend(ranges, field, <<0, type[field].width>>)
  /\ offsets' = Append(offsets, offset)
  /\ field' = field + 1
  /\ UNCHANGED <<type, offset, elements, stage, memory, written, call>>

\* A bit field goes behind the one before it; where they fill an element it is made.
LayoutBitField ==
  /\ LayingOut /\ IsBitField(type[field])
  /\ LET end == width + type[field].width
     IN  /\ ranges' = Extend(ranges, field, <<width, end>>)
         /\ offsets' = Append(offsets, offset)
         /\ IF IsSize(end)
            THEN /\ elements' = elements \o <<Bits(end), ElementOf(type[field])>>
                 /\ width' = 0 /\ offset' = offset + 1
            ELSE width' = end /\ UNCHANGED <<elements, offset>>
  /\ field' = field + 1
  /\ UNCHANGED <<type, stage, memory, written, call>>

\* Variant: the element of the bit fields before is counted and not made.
LayoutFieldUnflushed ==
  /\ LayingOut /\ ~IsBitField(type[field])
  /\ LET at == IF width # 0 THEN offset + 1 ELSE offset
     IN  offsets' = Append(offsets, at) /\ offset' = at + 1
  /\ elements' = Append(elements, ElementOf(type[field]))
  /\ width' = 0
  /\ field' = field + 1
  /\ UNCHANGED <<type, ranges, stage, memory, written, call>>

\* Variant: the offset is recorded before the element of the bit fields is counted.
LayoutFieldEarly ==
  /\ LayingOut /\ ~IsBitField(type[field])
  /\ elements' = (IF width # 0 THEN Append(elements, Bits(width)) ELSE elements)
                    \o <<ElementOf(type[field])>>
  /\ offsets' = Append(offsets, offset)
  /\ offset' = IF width # 0 THEN offset + 2 ELSE offset + 1
  /\ width' = 0
  /\ field' = field + 1
  /\ UNCHANGED <<type, ranges, stage, memory, written, call>>

\* Another field ends the bit fields before it.
LayoutField ==
  /\ LayingOut /\ ~IsBitField(type[field])
  /\ LET at == IF width # 0 THEN offset + 1 ELSE offset
     IN  /\ elements' = (IF width # 0 THEN Append(elements, Bits(width)) ELSE elements)
                          \o <<ElementOf(type[field])>>
         /\ offsets' = Append(offsets, at)
         /\ offset' = at + 1
  /\ width' = 0
  /\ field' = field + 1
  /\ UNCHANGED <<type, ranges, stage, memory, written, call>>

EndLayout ==
  /\ stage = "layout" /\ field > Len(type)
  /\ elements' = IF width # 0 THEN Append(elements, Bits(NextSize(width))) ELSE elements
  /\ stage' = "access"
  /\ UNCHANGED <<type, field, width, offset, offsets, ranges, memory, written, call>>

-----------------------------------------------------------------------------
(* The lowered accesses. *)

\* The element a field is found in, counted from 1.
Element(i) == offsets[i] + 1
Start(i) == ranges[i][1]
End(i)   == ranges[i][2]
Packed(i) == i \in DOMAIN ranges

\* The element of field i holds it; of another element LLVM builds no load or store.
Placed(i) ==
  /\ Element(i) \in DOMAIN elements
  /\ IF Packed(i)
     THEN elements[Element(i)].int /\ End(i) <= elements[Element(i)].width
     ELSE elements[Element(i)] = ElementOf(type[i])

Low(v, n)         == v % 2^n
ShiftDown(v, n)   == v \div 2^n
\* Variant: the bits of a field that comes first.
WithoutFirst(v, s, e) == v - Low(v, e - s)
Without(v, s, e)  == v - Low(ShiftDown(v, s), e - s) * 2^s
SignExtend(v, from, to) == IF v < 2^(from - 1) THEN v ELSE v + 2^to - 2^from
IntCast(v, from, to, signed) ==
  IF to <= from THEN Low(v, to) ELSE IF signed THEN SignExtend(v, from, to) ELSE v

\* The number that bits of width w stand for.
Number(v, w, signed) == IF signed /\ v >= 2^(w - 1) THEN v - 2^w ELSE v

\* visitStructAllocInst: malloc clears nothing.
StructAlloc ==
  /\ stage = "access" /\ memory = None
  /\ \E ones \in BOOLEAN :
       memory' = [k \in DOMAIN elements |-> IF ones THEN 2^elements[k].width - 1 ELSE 0]
  /\ written' = {}
  /\ call' = <<"allocate", Len(type)>>
  /\ UNCHANGED <<type, field, layout, stage>>

Accessible(i) == stage = "access" /\ memory # None /\ Placed(i)

\* visitStructWriteInst: v is the value passed.
StructWrite(i, v) ==
  /\ Accessible(i)
  /\ LET k == Element(i)
         w == elements[k].width
     IN  memory' = [memory EXCEPT ![k] =
           IF Packed(i)
           THEN Low(IntCast(v, type[i].passed, w, FALSE), End(i) - Start(i)) * 2^Start(i)
                  + Without(@, Start(i), End(i))
           ELSE v]
  /\ written' = written \cup {i}
  /\ call' = <<"write", i, Number(v, type[i].passed, type[i].signed)>>
  /\ UNCHANGED <<type, field, layout, stage>>

(***************************************************************************)
(* The bits a read of a bit field ends with.  Those of a signed one are    *)
(* shifted up by the width of the field, not of the element, less where    *)
(* the field ends: by less than nothing, so that any bits may come out,    *)
(* unless it comes first, and then by nothing, as down again.              *)
(***************************************************************************)
BitsRead(i) ==
  LET n == End(i) - Start(i)
  IN  IF ~type[i].signed THEN {Low(ShiftDown(memory[Element(i)], Start(i)), n)}
      ELSE IF End(i) > type[i].width THEN 0 .. 2^elements[Element(i)].width - 1
      ELSE {Low(memory[Element(i)], n)}

\* visitStructReadInst
StructRead(i) ==
  /\ Accessible(i) /\ i \in written
  /\ \E v \in IF Packed(i)
              THEN {IntCast(b, elements[Element(i)].width, type[i].passed, type[i].signed) : b \in BitsRead(i)}
              ELSE {memory[Element(i)]} :
       call' = <<"read", i, Number(v, type[i].passed, type[i].signed)>>
  /\ UNCHANGED <<type, field, layout, stage, memory, written>>

-----------------------------------------------------------------------------

Init ==
  /\ type \in StructTypes
  /\ field = 1 /\ width = 0 /\ offset = 0 /\ elements = << >> /\ offsets = << >> /\ ranges = << >>
  /\ stage = "layout" /\ memory = None /\ written = {} /\ call = <<"init">>

\* The values passed for a field: its bits in the width of the C type.
Passed(f) == {IntCast(p, f.width, f.passed, f.signed) : p \in {q \in Patterns : q < 2^f.width}}

Access(i) == StructRead(i) \/ \E v \in Passed(type[i]) : StructWrite(i, v)

Next ==
  \/ LayoutBitField \/ LayoutField \/ EndLayout
  \/ StructAlloc \/ \E i \in DOMAIN type : Access(i)

Spec == Init /\ [][Next]_vars

-----------------------------------------------------------------------------
TypeOK ==
  /\ type \in StructTypes /\ field \in 1 .. Len(type) + 1
  /\ width \in Nat /\ offset \in 0 .. Len(elements)
  /\ elements \in Seq([int : BOOLEAN, width : Nat \ {0}])
  /\ offsets \in Seq(0 .. offset) /\ Len(offsets) = field - 1
  /\ DOMAIN ranges \subseteq DOMAIN offsets
  /\ \A i \in DOMAIN ranges : Start(i) \in Nat /\ End(i) \in Nat /\ Start(i) < End(i)
  /\ stage \in {"layout", "access"}

(***************************************************************************)
(* Two fields are in the same element only as bit fields in bits of their  *)
(* own.                                                                    *)
(***************************************************************************)
FieldsApart ==
  \A i, j \in DOMAIN offsets :
    i # j /\ offsets[i] = offsets[j] =>
      Packed(i) /\ Packed(j) /\ (End(i) <= Start(j) \/ End(j) <= Start(i))

(***************************************************************************)
(* w has, up to each field, the bits of the bit fields that no other field *)
(* ends.  Type t has room where they fill an element only with the last    *)
(* field, and what is left in the end is not cut by get_next_size.         *)
(***************************************************************************)
HasRoom(t, w) ==
  /\ w \in [0 .. Len(t) -> Nat] /\ w[0] = 0
  /\ \A i \in 1 .. Len(t) : w[i] = IF IsBitField(t[i]) THEN w[i - 1] + t[i].width ELSE 0
  /\ \A i \in 1 .. Len(t) : IsBitField(t[i]) =>
       (IsSize(w[i]) => i = Len(t)) /\ (i = Len(t) => w[i] <= NextSize(w[i]))

(***************************************************************************)
(* visitStructType records for every field the offset of the element that  *)
(* was made for it, wide enough for its bits.                              *)
(***************************************************************************)
FieldsPlaced == stage = "access" => \A i \in DOMAIN type : Placed(i)

(***************************************************************************)
(* The lowered accesses implement a record of numbers: a write changes no  *)
(* other field of the element it stores to, and a read returns the number  *)
(* written last, its sign included.                                        *)
(***************************************************************************)
FieldNumber(i) ==
  LET bits == IF Packed(i)
              THEN Low(ShiftDown(memory[Element(i)], Start(i)), End(i) - Start(i))
              ELSE memory[Element(i)]
  IN  Number(bits, type[i].width, type[i].signed)

Record == INSTANCE RecordStore WITH
  record <- IF memory = None THEN None ELSE [i \in DOMAIN type |-> FieldNumber(i)]

ImplementsRecord == Record!Spec
=============================================================================
