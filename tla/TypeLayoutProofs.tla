------------------------- MODULE TypeLayoutProofs --------------------------
(***************************************************************************)
(* For every set of struct types: the layout keeps its types, every field  *)
(* is recorded at an element that exists, and two fields share an element  *)
(* only in bits of their own.  For types with room, the element is the one *)
(* made for the field.                                                     *)
(***************************************************************************)
EXTENDS TypeLayout, SequenceTheorems, TLAPS

\* The fields in the element that is being filled are behind one another.
LastIsOpen ==
  \A i \in DOMAIN offsets :
    offsets[i] = offset => Packed(i) /\ width # 0 /\ End(i) <= width

\* A bit field has at most two bits, so that they never are more than get_next_size knows.
WidthBound == width <= 2 * (field - 1)

\* The element of the last bit fields exists, or is made when the layout ends.
ElementsExist ==
  \A i \in DOMAIN offsets :
    offsets[i] < Len(elements) \/ (stage = "layout" /\ offsets[i] = offset)

IInv == TypeOK /\ FieldsApart /\ LastIsOpen /\ WidthBound /\ ElementsExist

-----------------------------------------------------------------------------
(* Sizes. *)

\* The power of 2 that get_next_size takes.
LEMMA NextPower ==
  ASSUME NEW n \in Nat, NEW p \in PowersOf2, p >= n \div 8,
         \A q \in PowersOf2 : q >= n \div 8 => p <= q
  PROVE  NextSize(n) = IF n < 8 THEN 8 ELSE 8 * p
<1> DEFINE S == {q \in PowersOf2 : q >= n \div 8}
<1>1. PowersOf2 \subseteq Nat
  BY DEF PowersOf2
<1>2. p \in S /\ \A q \in S : p <= q
  OBVIOUS
<1>3. S \subseteq Nat
  BY <1>1
<1> HIDE DEF S
<1>4. \A x \in S : (\A y \in S : x <= y) => x = p
  BY <1>2, <1>3
<1>5. Min(S) = p
  BY <1>2, <1>4 DEF Min
<1> QED
  BY <1>5 DEF NextSize, S

LEMMA NextSizeType ==
  ASSUME NEW n \in Nat, n <= 2 * MostFields
  PROVE  NextSize(n) \in Nat \ {0}
<1>1. n \div 8 \in 0 .. 256
  BY DEF MostFields
<1>2. \E p \in PowersOf2 : p >= n \div 8 /\ \A q \in PowersOf2 : q >= n \div 8 => p <= q
  <2> PICK k \in 0 .. 256 : k = n \div 8
    BY <1>1
  <2> SUFFICES \E p \in PowersOf2 : p >= k /\ \A q \in PowersOf2 : q >= k => p <= q
    OBVIOUS
  <2>1. CASE k <= 1
    BY <2>1 DEF PowersOf2
  <2>2. CASE 1 < k /\ k <= 2
    BY <2>2 DEF PowersOf2
  <2>3. CASE 2 < k /\ k <= 4
    BY <2>3 DEF PowersOf2
  <2>4. CASE 4 < k /\ k <= 8
    BY <2>4 DEF PowersOf2
  <2>5. CASE 8 < k /\ k <= 16
    BY <2>5 DEF PowersOf2
  <2>6. CASE 16 < k /\ k <= 32
    BY <2>6 DEF PowersOf2
  <2>7. CASE 32 < k /\ k <= 64
    BY <2>7 DEF PowersOf2
  <2>8. CASE 64 < k /\ k <= 128
    BY <2>8 DEF PowersOf2
  <2>9. CASE 128 < k
    BY <2>9 DEF PowersOf2
  <2> QED
    BY <2>1, <2>2, <2>3, <2>4, <2>5, <2>6, <2>7, <2>8, <2>9
<1>3. PICK p \in PowersOf2 : p >= n \div 8 /\ \A q \in PowersOf2 : q >= n \div 8 => p <= q
  BY <1>2
<1>4. NextSize(n) = IF n < 8 THEN 8 ELSE 8 * p
  BY <1>3, NextPower
<1> QED
  BY <1>4 DEF PowersOf2

\* Sizes of whole bytes are sizes of their own.
LEMMA SizesAreNext == \A n \in {8, 16, 32, 64} : NextSize(n) = n
<1>1. NextSize(8) = 8
  BY NextPower DEF PowersOf2
<1>2. NextSize(16) = 16
  BY NextPower DEF PowersOf2
<1>3. NextSize(32) = 32
  BY NextPower DEF PowersOf2
<1>4. NextSize(64) = 64
  BY NextPower DEF PowersOf2
<1> QED
  BY <1>1, <1>2, <1>3, <1>4

\* Only booleans and two-bit integers are bit fields.
LEMMA BitFieldsAreNarrow ==
  ASSUME NEW f \in FieldType
  PROVE  f.width \in Nat \ {0} /\ (IsBitField(f) => f.width \in {1, 2})
BY SizesAreNext DEF FieldType, IsBitField, IntegerWidths

-----------------------------------------------------------------------------
(* Sequences. *)

LEMMA AppendElements ==
  ASSUME NEW S, NEW s \in Seq(S), NEW x
  PROVE  /\ x \in S => Append(s, x) \in Seq(S)
         /\ Len(Append(s, x)) = Len(s) + 1
         /\ DOMAIN Append(s, x) = DOMAIN s \cup {Len(s) + 1}
         /\ \A i \in DOMAIN s : Append(s, x)[i] = s[i]
         /\ Append(s, x)[Len(s) + 1] = x
OBVIOUS

LEMMA ConcatElements ==
  ASSUME NEW S, NEW s \in Seq(S), NEW t \in Seq(S)
  PROVE  s \o t \in Seq(S) /\ Len(s \o t) = Len(s) + Len(t)
OBVIOUS

LayoutElement == [int : BOOLEAN, width : Nat \ {0}]

LEMMA ElementsTyped ==
  /\ \A w \in Nat \ {0} : Bits(w) \in LayoutElement
  /\ \A f \in FieldType : ElementOf(f) \in LayoutElement
BY BitFieldsAreNarrow DEF Bits, ElementOf, LayoutElement, FieldType

-----------------------------------------------------------------------------
(* The steps. *)

LEMMA InitHolds == Init => IInv
<1> SUFFICES ASSUME Init PROVE IInv
  OBVIOUS
<1>1. type \in Seq(FieldType)
  BY StructTypesAssumption DEF Init
<1>2. TypeOK
  BY <1>1 DEF Init, TypeOK
<1> QED
  BY <1>2 DEF Init, IInv, FieldsApart, LastIsOpen, WidthBound, ElementsExist

\* What every step of the layout can use.
LEMMA FieldInHand ==
  ASSUME TypeOK, LayingOut
  PROVE  /\ type[field] \in FieldType
         /\ field \in Nat /\ field <= MostFields
         /\ offset \in Nat /\ offsets \in Seq(0 .. offset) /\ Len(offsets) = field - 1
         /\ DOMAIN offsets = 1 .. field - 1
<1>1. type \in Seq(FieldType) /\ Len(type) <= MostFields
  BY StructTypesAssumption DEF TypeOK
<1>2. field \in 1 .. Len(type) /\ Len(type) \in Nat
  BY <1>1 DEF TypeOK, LayingOut
<1>3. offset \in Nat /\ offsets \in Seq(0 .. offset) /\ Len(offsets) = field - 1
  BY DEF TypeOK
<1>4. DOMAIN offsets = 1 .. field - 1
  BY <1>3
<1>5. type[field] \in FieldType
  BY <1>1, <1>2
<1> QED
  BY <1>1, <1>2, <1>3, <1>4, <1>5 DEF MostFields

LEMMA LayoutBitFieldStep ==
  ASSUME IInv, LayoutBitField
  PROVE  IInv'
<1> DEFINE end == width + type[field].width
<1>1. /\ type[field] \in FieldType /\ field \in Nat /\ field <= MostFields
      /\ offsets \in Seq(0 .. offset) /\ Len(offsets) = field - 1 /\ DOMAIN offsets = 1 .. field - 1
  BY FieldInHand DEF IInv, LayoutBitField
<1>2. type[field].width \in {1, 2} /\ end \in Nat /\ width < end
  <2>1. IsBitField(type[field])
    BY DEF LayoutBitField
  <2>2. type[field].width \in {1, 2}
    BY <1>1, <2>1, BitFieldsAreNarrow
  <2>3. width \in Nat
    BY DEF IInv, TypeOK
  <2> QED
    BY <2>2, <2>3
<1>3. /\ offsets' = Append(offsets, offset)
      /\ Len(offsets') = field /\ DOMAIN offsets' = 1 .. field
      /\ \A i \in 1 .. field - 1 : offsets'[i] = offsets[i]
      /\ offsets'[field] = offset
  BY <1>1, AppendElements DEF LayoutBitField, IInv, TypeOK
<1>4. /\ DOMAIN ranges' = DOMAIN ranges \cup {field}
      /\ \A i \in DOMAIN ranges : ranges'[i] = ranges[i]
      /\ ranges'[field] = <<width, end>>
  BY <1>1 DEF LayoutBitField, Extend, IInv, TypeOK
<1>5. /\ \A i \in DOMAIN ranges : Start(i)' = Start(i) /\ End(i)' = End(i)
      /\ \A i : i = field => Packed(i)' /\ Start(i)' = width /\ End(i)' = end
      /\ \A i \in 1 .. field - 1 : Packed(i)' = Packed(i)
  BY <1>1, <1>4 DEF Start, End, Packed
<1>6. /\ offset \in Nat /\ Len(elements) \in Nat
      /\ elements' \in Seq(LayoutElement) /\ Len(elements) <= Len(elements')
      /\ \/ width' = end /\ offset' = offset
         \/ width' = 0 /\ offset' = offset + 1 /\ Len(elements') = Len(elements) + 2
  <2>1. elements \in Seq(LayoutElement) /\ offset \in Nat
    BY DEF IInv, TypeOK, LayoutElement
  <2>2. CASE IsSize(end)
    <3>1. PICK b \in LayoutElement, f \in LayoutElement : b = Bits(end) /\ f = ElementOf(type[field])
      BY <1>1, <1>2, ElementsTyped DEF IInv, TypeOK
    <3>2. elements' = elements \o <<b, f>> /\ width' = 0 /\ offset' = offset + 1
      BY <2>2, <3>1 DEF LayoutBitField
    <3> QED
      BY <2>1, <3>2, ConcatElements
  <2>3. CASE ~IsSize(end)
    BY <2>1, <2>3 DEF LayoutBitField
  <2> QED
    BY <2>2, <2>3
<1>7. TypeOK'
  <2>1. type' = type /\ field' = field + 1 /\ stage' = stage /\ field <= Len(type)
    BY DEF LayoutBitField, LayingOut
  <2>2. type' \in StructTypes /\ field' \in 1 .. Len(type') + 1 /\ stage' \in {"layout", "access"}
    BY <1>1, <2>1 DEF IInv, TypeOK
  <2>3. width' \in Nat /\ elements' \in Seq([int : BOOLEAN, width : Nat \ {0}])
    BY <1>2, <1>6 DEF LayoutElement
  <2>7. offset' \in 0 .. Len(elements')
    <3>1. offset <= Len(elements) /\ offset' \in Nat /\ Len(elements') \in Nat
      BY <1>6 DEF IInv, TypeOK
    <3> QED
      BY <1>6, <3>1
  <2>4. offsets' \in Seq(0 .. offset') /\ Len(offsets') = field' - 1
    <3>1. offsets \in Seq(0 .. offset') /\ offset \in 0 .. offset'
      BY <1>1, <1>6
    <3> QED
      BY <1>3, <2>1, <3>1, AppendElements
  <2>5. DOMAIN ranges' \subseteq DOMAIN offsets'
    BY <1>1, <1>3, <1>4 DEF IInv, TypeOK
  <2>6. \A i \in DOMAIN ranges' : Start(i)' \in Nat /\ End(i)' \in Nat /\ Start(i)' < End(i)'
    <3> SUFFICES ASSUME NEW i \in DOMAIN ranges'
                 PROVE  Start(i)' \in Nat /\ End(i)' \in Nat /\ Start(i)' < End(i)'
      OBVIOUS
    <3>1. CASE i = field
      BY <1>2, <1>5, <3>1 DEF IInv, TypeOK
    <3>2. CASE i \in DOMAIN ranges
      BY <1>5, <3>2 DEF IInv, TypeOK
    <3> QED
      BY <1>4, <3>1, <3>2
  <2> QED
    BY <2>2, <2>3, <2>4, <2>5, <2>6, <2>7 DEF TypeOK
<1>8. \A i \in 1 .. field - 1 : offsets[i] = offset => Packed(i) /\ End(i) <= width
  BY <1>1 DEF IInv, LastIsOpen
<1>9. FieldsApart'
  <2> SUFFICES ASSUME NEW i \in 1 .. field, NEW j \in 1 .. field, i # j, offsets'[i] = offsets'[j]
               PROVE  Packed(i)' /\ Packed(j)' /\ (End(i)' <= Start(j)' \/ End(j)' <= Start(i)')
    BY <1>3 DEF FieldsApart
  <2>1. CASE i # field /\ j # field
    <3>1. i \in DOMAIN offsets /\ j \in DOMAIN offsets /\ offsets[i] = offsets[j]
      BY <1>1, <1>3, <2>1
    <3>2. Packed(i) /\ Packed(j) /\ (End(i) <= Start(j) \/ End(j) <= Start(i))
      BY <3>1 DEF IInv, FieldsApart
    <3> QED
      BY <1>1, <1>5, <2>1, <3>2 DEF Packed
  <2>2. CASE i = field
    <3>1. j \in 1 .. field - 1 /\ offsets[j] = offset
      BY <1>1, <1>3, <2>2
    <3>2. Packed(j) /\ End(j) <= width
      BY <1>8, <3>1
    <3> QED
      BY <1>5, <2>2, <3>1, <3>2 DEF Packed
  <2>3. CASE j = field
    <3>1. i \in 1 .. field - 1 /\ offsets[i] = offset
      BY <1>1, <1>3, <2>3
    <3>2. Packed(i) /\ End(i) <= width
      BY <1>8, <3>1
    <3> QED
      BY <1>5, <2>3, <3>1, <3>2 DEF Packed
  <2> QED
    BY <2>1, <2>2, <2>3
<1>10. LastIsOpen'
  <2> SUFFICES ASSUME NEW i \in 1 .. field, offsets'[i] = offset'
               PROVE  Packed(i)' /\ width' # 0 /\ End(i)' <= width'
    BY <1>3 DEF LastIsOpen
  <2>1. offset' = offset /\ width' = end
    <3>1. offsets'[i] \in 0 .. offset
      <4>1. \A j \in 1 .. field - 1 : offsets[j] \in 0 .. offset
        BY <1>1 DEF IInv, TypeOK
      <4> QED
        BY <1>1, <1>3, <1>6, <4>1
    <3> QED
      BY <1>6, <3>1
  <2>2. CASE i = field
    BY <1>2, <1>5, <2>1, <2>2 DEF IInv, TypeOK
  <2>3. CASE i # field
    <3>1. Packed(i) /\ End(i) <= width /\ End(i) \in Nat /\ width \in Nat
      BY <1>1, <1>3, <1>8, <2>1, <2>3 DEF IInv, TypeOK, Packed
    <3> QED
      BY <1>1, <1>2, <1>5, <2>1, <2>3, <3>1 DEF Packed
  <2> QED
    BY <2>2, <2>3
<1>11. WidthBound'
  BY <1>1, <1>2, <1>6 DEF IInv, TypeOK, WidthBound, LayoutBitField
<1>12. ElementsExist'
  <2> SUFFICES ASSUME NEW i \in 1 .. field
               PROVE  offsets'[i] < Len(elements') \/ (stage' = "layout" /\ offsets'[i] = offset')
    BY <1>3 DEF ElementsExist
  <2>0. stage' = "layout" /\ offset <= Len(elements)
    BY DEF LayoutBitField, LayingOut, IInv, TypeOK
  <2>1. CASE i = field
    BY <1>3, <1>6, <2>0, <2>1 DEF IInv, TypeOK
  <2>2. CASE i # field
    <3>1. i \in DOMAIN offsets /\ offsets'[i] = offsets[i] /\ offsets[i] \in Nat
      <4>1. i \in DOMAIN offsets
        BY <1>1, <2>2
      <4>2. offsets'[i] = offsets[i]
        BY <1>3, <2>2
      <4>3. offsets[i] \in 0 .. offset
        BY <1>1, <4>1 DEF IInv, TypeOK
      <4> QED
        BY <1>1, <4>1, <4>2, <4>3
    <3>2. offsets[i] < Len(elements) \/ offsets[i] = offset
      BY <3>1 DEF IInv, ElementsExist
    <3> QED
      BY <1>6, <2>0, <3>1, <3>2 DEF IInv, TypeOK
  <2> QED
    BY <2>1, <2>2
<1> QED
  BY <1>7, <1>9, <1>10, <1>11, <1>12 DEF IInv

LEMMA LayoutFieldStep ==
  ASSUME IInv, LayoutField
  PROVE  IInv'
<1> DEFINE at == IF width # 0 THEN offset + 1 ELSE offset
<1>1. /\ type[field] \in FieldType /\ field \in Nat /\ field <= MostFields
      /\ offset \in Nat /\ offsets \in Seq(0 .. offset)
      /\ Len(offsets) = field - 1 /\ DOMAIN offsets = 1 .. field - 1
  BY FieldInHand DEF IInv, LayoutField
<1>2. at \in Nat /\ offset <= at /\ offset' = at + 1 /\ width' = 0 /\ ranges' = ranges
  BY <1>1 DEF LayoutField
<1>3. /\ offsets' = Append(offsets, at)
      /\ offsets' \in Seq(0 .. offset')
      /\ Len(offsets') = field /\ DOMAIN offsets' = 1 .. field
      /\ \A i \in 1 .. field - 1 : offsets'[i] = offsets[i] /\ offsets[i] \in 0 .. offset
      /\ offsets'[field] = at
  <2>1. offsets \in Seq(0 .. offset') /\ at \in 0 .. offset'
    BY <1>1, <1>2
  <2>2. offsets' = Append(offsets, at)
    BY DEF LayoutField
  <2> HIDE DEF at
  <2> QED
    BY <1>1, <2>1, <2>2, AppendElements
<1>4. \A i \in 1 .. field - 1 : offsets[i] # at
  <2> SUFFICES ASSUME NEW i \in 1 .. field - 1, offsets[i] = at PROVE FALSE
    OBVIOUS
  <2>1. offsets[i] = offset /\ width = 0
    BY <1>1, <1>3
  <2> QED
    BY <1>1, <2>1 DEF IInv, LastIsOpen
<1>5. elements' \in Seq(LayoutElement) /\ Len(elements') >= at + 1
  <2>1. elements \in Seq(LayoutElement) /\ offset <= Len(elements) /\ Len(elements) \in Nat
    BY DEF IInv, TypeOK, LayoutElement
  <2>2. PICK f \in LayoutElement : f = ElementOf(type[field])
    BY <1>1, ElementsTyped
  <2>3. <<f>> \in Seq(LayoutElement) /\ Len(<<f>>) = 1
    OBVIOUS
  <2>4. CASE width = 0
    <3>1. elements' = elements \o <<f>>
      BY <2>2, <2>4 DEF LayoutField
    <3> QED
      BY <1>1, <2>1, <2>3, <2>4, <3>1, ConcatElements
  <2>5. CASE width # 0
    <3>1. PICK b \in LayoutElement : b = Bits(width)
      BY <2>5, ElementsTyped DEF IInv, TypeOK
    <3>2. elements' = Append(elements, b) \o <<f>>
      BY <2>2, <2>5, <3>1 DEF LayoutField
    <3>3. Append(elements, b) \in Seq(LayoutElement) /\ Len(Append(elements, b)) = Len(elements) + 1
      BY <2>1, AppendElements
    <3> QED
      BY <1>1, <2>1, <2>3, <2>5, <3>2, <3>3, ConcatElements
  <2> QED
    BY <2>4, <2>5
<1>6. /\ \A i : Start(i)' = Start(i) /\ End(i)' = End(i) /\ Packed(i)' = Packed(i)
  BY <1>2 DEF Start, End, Packed
<1>7. TypeOK'
  <2>1. type' = type /\ field' = field + 1 /\ stage' = stage /\ field <= Len(type)
    BY DEF LayoutField, LayingOut
  <2>2. type' \in StructTypes /\ field' \in 1 .. Len(type') + 1 /\ stage' \in {"layout", "access"}
    BY <1>1, <2>1 DEF IInv, TypeOK
  <2>3. /\ width' \in Nat /\ offset' \in 0 .. Len(elements')
        /\ elements' \in Seq([int : BOOLEAN, width : Nat \ {0}])
    <3>1. Len(elements') \in Nat
      BY <1>5
    <3> QED
      BY <1>2, <1>5, <3>1 DEF LayoutElement
  <2>4. offsets' \in Seq(0 .. offset') /\ Len(offsets') = field' - 1
    BY <1>1, <1>3, <2>1
  <2>5. DOMAIN ranges' \subseteq DOMAIN offsets'
    BY <1>1, <1>2, <1>3 DEF IInv, TypeOK
  <2>6. \A i \in DOMAIN ranges' : Start(i)' \in Nat /\ End(i)' \in Nat /\ Start(i)' < End(i)'
    BY <1>2, <1>6 DEF IInv, TypeOK
  <2> QED
    BY <2>2, <2>3, <2>4, <2>5, <2>6 DEF TypeOK
<1>8. FieldsApart'
  <2> SUFFICES ASSUME NEW i \in 1 .. field, NEW j \in 1 .. field, i # j, offsets'[i] = offsets'[j]
               PROVE  Packed(i)' /\ Packed(j)' /\ (End(i)' <= Start(j)' \/ End(j)' <= Start(i)')
    BY <1>3 DEF FieldsApart
  <2>1. i \in DOMAIN offsets /\ j \in DOMAIN offsets /\ offsets[i] = offsets[j]
    BY <1>1, <1>3, <1>4
  <2> QED
    BY <1>6, <2>1 DEF IInv, FieldsApart
<1>9. LastIsOpen'
  <2> SUFFICES ASSUME NEW i \in 1 .. field, offsets'[i] = offset' PROVE FALSE
    BY <1>3 DEF LastIsOpen
  <2> QED
    BY <1>1, <1>2, <1>3
<1>10. WidthBound'
  BY <1>1, <1>2 DEF WidthBound, LayoutField
<1>11. ElementsExist'
  <2> SUFFICES ASSUME NEW i \in 1 .. field PROVE offsets'[i] < Len(elements')
    BY <1>3 DEF ElementsExist
  <2>1. offsets'[i] \in 0 .. at
    BY <1>1, <1>2, <1>3
  <2>2. Len(elements') \in Nat
    BY <1>5
  <2> QED
    BY <1>2, <1>5, <2>1, <2>2
<1> QED
  BY <1>7, <1>8, <1>9, <1>10, <1>11 DEF IInv

LEMMA EndLayoutStep ==
  ASSUME IInv, EndLayout
  PROVE  IInv'
<1>1. /\ UNCHANGED <<type, field, width, offset, offsets, ranges>>
      /\ stage' = "access"
  BY DEF EndLayout
<1>2. \A i : Start(i)' = Start(i) /\ End(i)' = End(i) /\ Packed(i)' = Packed(i)
  BY <1>1 DEF Start, End, Packed
<1>3. width \in Nat /\ width <= 2 * MostFields
  <2>1. type \in Seq(FieldType) /\ Len(type) <= MostFields /\ Len(type) \in Nat
    BY StructTypesAssumption DEF IInv, TypeOK
  <2> QED
    BY <2>1 DEF IInv, TypeOK, WidthBound, MostFields
<1>4. /\ elements' \in Seq(LayoutElement) /\ Len(elements') \in Nat /\ Len(elements) \in Nat
      /\ Len(elements') = IF width # 0 THEN Len(elements) + 1 ELSE Len(elements)
  <2>1. elements \in Seq(LayoutElement) /\ Len(elements) \in Nat
    BY DEF IInv, TypeOK, LayoutElement
  <2>2. CASE width # 0
    <3>1. PICK b \in LayoutElement : b = Bits(NextSize(width))
      BY <1>3, NextSizeType, ElementsTyped
    <3>2. elements' = Append(elements, b)
      BY <2>2, <3>1 DEF EndLayout
    <3> QED
      BY <2>1, <2>2, <3>2, AppendElements
  <2>3. CASE width = 0
    BY <2>1, <2>3 DEF EndLayout
  <2> QED
    BY <2>2, <2>3
<1>5. TypeOK'
  <2>1. offset' \in 0 .. Len(elements') /\ elements' \in Seq([int : BOOLEAN, width : Nat \ {0}])
    BY <1>1, <1>4 DEF IInv, TypeOK, LayoutElement
  <2>2. \A i \in DOMAIN ranges' : Start(i)' \in Nat /\ End(i)' \in Nat /\ Start(i)' < End(i)'
    BY <1>1, <1>2 DEF IInv, TypeOK
  <2> QED
    BY <1>1, <2>1, <2>2 DEF IInv, TypeOK
<1>6. FieldsApart' /\ LastIsOpen' /\ WidthBound'
  BY <1>1, <1>2 DEF IInv, FieldsApart, LastIsOpen, WidthBound
<1>7. ElementsExist'
  <2> SUFFICES ASSUME NEW i \in DOMAIN offsets PROVE offsets[i] < Len(elements')
    BY <1>1 DEF ElementsExist
  <2>1. offset \in Nat /\ offset <= Len(elements) /\ offsets[i] \in 0 .. offset
    BY DEF IInv, TypeOK
  <2>2. offsets[i] < Len(elements) \/ offsets[i] = offset
    BY DEF IInv, ElementsExist
  <2>3. offsets[i] = offset => width # 0
    BY DEF IInv, LastIsOpen
  <2> QED
    BY <1>4, <2>1, <2>2, <2>3
<1> QED
  BY <1>5, <1>6, <1>7 DEF IInv

LEMMA AccessStep ==
  ASSUME IInv, UNCHANGED <<type, field, layout, stage>>
  PROVE  IInv'
<1>1. UNCHANGED <<type, field, width, offset, elements, offsets, ranges, stage>>
  BY DEF layout
<1>2. \A i : Start(i)' = Start(i) /\ End(i)' = End(i) /\ Packed(i)' = Packed(i)
  BY <1>1 DEF Start, End, Packed
<1>3. TypeOK'
  BY <1>1, <1>2 DEF IInv, TypeOK
<1> QED
  BY <1>1, <1>2, <1>3 DEF IInv, FieldsApart, LastIsOpen, WidthBound, ElementsExist

LEMMA StepKeeps == IInv /\ [Next]_vars => IInv'
<1> SUFFICES ASSUME IInv, [Next]_vars PROVE IInv'
  OBVIOUS
<1>1. CASE LayoutBitField
  BY <1>1, LayoutBitFieldStep
<1>2. CASE LayoutField
  BY <1>2, LayoutFieldStep
<1>3. CASE EndLayout
  BY <1>3, EndLayoutStep
<1>4. CASE StructAlloc
  BY <1>4, AccessStep DEF StructAlloc
<1>5. CASE \E i \in DOMAIN type : Access(i)
  BY <1>5, AccessStep DEF Access, StructRead, StructWrite
<1>6. CASE UNCHANGED vars
  BY <1>6, AccessStep DEF vars
<1> QED
  BY <1>1, <1>2, <1>3, <1>4, <1>5, <1>6 DEF Next

-----------------------------------------------------------------------------

THEOREM Inductive == Spec => []IInv
<1>1. Init => IInv
  BY InitHolds
<1>2. IInv /\ [Next]_vars => IInv'
  BY StepKeeps
<1> QED
  BY <1>1, <1>2, PTL DEF Spec

\* visitStructType keeps its types and never records an offset past the elements there will be.
THEOREM TypeCorrect == Spec => []TypeOK
<1>1. IInv => TypeOK
  BY DEF IInv
<1> QED
  BY <1>1, Inductive, PTL

(***************************************************************************)
(* Of the layout of any struct: two fields are in one element only as bit  *)
(* fields in bits of their own.                                            *)
(***************************************************************************)
THEOREM FieldsAreApart == Spec => []FieldsApart
<1>1. IInv => FieldsApart
  BY DEF IInv
<1> QED
  BY <1>1, Inductive, PTL

-----------------------------------------------------------------------------
(* Types with room: where every field is placed. *)

\* The types the layout has room for; of the others TLC has types that violate FieldsPlaced.
Roomy(t) == \E w : HasRoom(t, w)

\* The bit fields before the field in hand.
Before == (CHOOSE w : HasRoom(type, w))[field - 1]

\* The offset is that of the next element, until the last bit field fills one.
Counted ==
  \/ width = Before /\ offset = Len(elements)
  \/ field = Len(type) + 1 /\ width = 0 /\ offset = Len(elements) - 1

\* A field has its element, or is a bit field of the one that comes next.
PlacedSoFar == \A i \in DOMAIN offsets : Placed(i) \/ (Packed(i) /\ offsets[i] = offset)

PInv == FieldsPlaced /\ (stage = "layout" => Counted /\ PlacedSoFar)

\* A field keeps its element while others are made behind.
LEMMA StaysPlaced ==
  ASSUME NEW i \in DOMAIN offsets, Placed(i), DOMAIN elements \subseteq DOMAIN elements',
         \A k \in DOMAIN elements : elements'[k] = elements[k],
         offsets'[i] = offsets[i], Packed(i)' = Packed(i),
         Packed(i) => End(i)' = End(i), type' = type
  PROVE  Placed(i)'
<1>1. Element(i)' = Element(i) /\ Element(i) \in DOMAIN elements
  BY DEF Element, Placed
<1>2. elements'[Element(i)] = elements[Element(i)] /\ Element(i) \in DOMAIN elements'
  BY <1>1
<1>3. Element(i)' \in DOMAIN elements' /\ elements'[Element(i)'] = elements[Element(i)]
  BY <1>1, <1>2
<1> QED
  BY <1>3 DEF Placed

\* What the layout has in hand, and the room there is for it.
LEMMA RoomInHand ==
  ASSUME IInv, PInv, LayingOut, Roomy(type)
  PROVE  /\ width = Before /\ offset = Len(elements) /\ Len(elements) \in Nat
         /\ elements \in Seq(LayoutElement) /\ DOMAIN elements = 1 .. Len(elements)
         /\ DOMAIN offsets = 1 .. (field - 1) /\ field \in 1 .. Len(type)
         /\ Len(type) \in Nat /\ offsets \in Seq(0 .. offset)
         /\ \A t, f : t = type /\ f = field + 1 =>
              (CHOOSE w : HasRoom(t, w))[f - 1]
                = IF IsBitField(type[field]) THEN width + type[field].width ELSE 0
         /\ IsBitField(type[field]) /\ IsSize(width + type[field].width) => field = Len(type)
         /\ PlacedSoFar
<1> DEFINE w == CHOOSE x : HasRoom(type, x)
<1>1. HasRoom(type, w)
  BY DEF Roomy
<1>2. stage = "layout" /\ field <= Len(type)
  BY DEF LayingOut
<1>3. type \in Seq(FieldType) /\ Len(type) \in Nat /\ field \in 1 .. (Len(type) + 1)
  BY StructTypesAssumption DEF IInv, TypeOK
<1>4. field \in 1 .. Len(type) /\ field # Len(type) + 1
  BY <1>2, <1>3
<1>5. width = Before /\ offset = Len(elements) /\ PlacedSoFar
  BY <1>2, <1>4 DEF PInv, Counted
<1>6. Before = w[field - 1]
  BY DEF Before
<1>7. elements \in Seq(LayoutElement)
  BY DEF IInv, TypeOK, LayoutElement
<1>8. Len(elements) \in Nat /\ DOMAIN elements = 1 .. Len(elements)
  BY <1>7
<1>9. DOMAIN offsets = 1 .. (field - 1) /\ offsets \in Seq(0 .. offset)
  BY FieldInHand DEF IInv
<1> HIDE DEF w
<1>10. w[field] = IF IsBitField(type[field]) THEN width + type[field].width ELSE 0
  BY <1>1, <1>4, <1>5, <1>6 DEF HasRoom
<1>11. IsBitField(type[field]) /\ IsSize(width + type[field].width) => field = Len(type)
  BY <1>1, <1>4, <1>10 DEF HasRoom
<1>12. (field + 1) - 1 = field
  BY <1>4
<1>13. \A t, f : t = type /\ f = field + 1 =>
         (CHOOSE x : HasRoom(t, x))[f - 1] = w[field]
  BY <1>12 DEF w
<1> QED
  BY <1>3, <1>4, <1>5, <1>7, <1>8, <1>9, <1>10, <1>11, <1>13

\* The open bit fields are within the width.
LEMMA OpenWithin ==
  ASSUME IInv, NEW i \in DOMAIN offsets, offsets[i] = offset
  PROVE  Packed(i) /\ width # 0 /\ End(i) <= width /\ End(i) \in Nat /\ width \in Nat
BY DEF IInv, LastIsOpen, TypeOK, Packed

\* A bit field opens an element, goes on with one, or fills it as the last field.
LEMMA BitFieldPlaces ==
  ASSUME IInv, PInv, LayoutBitField, Roomy(type)
  PROVE  PInv'
<1> DEFINE end == width + type[field].width
<1>1. LayingOut /\ IsBitField(type[field])
  BY DEF LayoutBitField
<1>2. /\ width = Before /\ offset = Len(elements) /\ Len(elements) \in Nat
      /\ elements \in Seq(LayoutElement) /\ DOMAIN elements = 1 .. Len(elements)
      /\ DOMAIN offsets = 1 .. (field - 1) /\ field \in 1 .. Len(type)
      /\ Len(type) \in Nat /\ offsets \in Seq(0 .. offset) /\ PlacedSoFar
  BY <1>1, RoomInHand
<1>3. /\ \A t, f : t = type /\ f = field + 1 => (CHOOSE w : HasRoom(t, w))[f - 1] = end
      /\ IsSize(end) => field = Len(type)
  BY <1>1, RoomInHand
<1>4. type' = type /\ field' = field + 1 /\ stage' = "layout"
  BY <1>1 DEF LayoutBitField, LayingOut
<1>5. Before' = end
  BY <1>3, <1>4 DEF Before
<1>6. /\ offsets' = Append(offsets, offset)
      /\ DOMAIN offsets' = 1 .. field
      /\ \A i \in 1 .. (field - 1) : offsets'[i] = offsets[i]
      /\ offsets'[field] = offset
  <2>1. Len(offsets) = field - 1
    BY DEF IInv, TypeOK
  <2>2. offsets' = Append(offsets, offset)
    BY DEF LayoutBitField
  <2> QED
    BY <1>2, <2>1, <2>2, AppendElements
<1>7. /\ \A i \in DOMAIN ranges : Start(i)' = Start(i) /\ End(i)' = End(i)
      /\ \A i : i = field => Packed(i)' /\ Start(i)' = width /\ End(i)' = end
      /\ \A i \in 1 .. (field - 1) : Packed(i)' = Packed(i)
  <2>1. /\ DOMAIN ranges' = DOMAIN ranges \cup {field}
        /\ \A i \in DOMAIN ranges : ranges'[i] = ranges[i]
        /\ ranges'[field] = <<width, end>>
    BY <1>2 DEF LayoutBitField, Extend, IInv, TypeOK
  <2> QED
    BY <1>2, <2>1 DEF Start, End, Packed
<1>8. end \in Nat /\ width \in Nat /\ width <= end
  <2>1. type[field] \in FieldType /\ width \in Nat
    BY <1>1, FieldInHand DEF IInv, TypeOK
  <2> QED
    BY <2>1, BitFieldsAreNarrow
<1>9. CASE ~ IsSize(end)
  <2>1. elements' = elements /\ offset' = offset /\ width' = end
    BY <1>9 DEF LayoutBitField
  <2>2. PlacedSoFar'
    <3> SUFFICES ASSUME NEW i \in 1 .. field
                 PROVE  Placed(i)' \/ (Packed(i)' /\ offsets'[i] = offset')
      BY <1>6 DEF PlacedSoFar
    <3>1. CASE i = field
      BY <1>6, <1>7, <2>1, <3>1
    <3>2. CASE i # field
      <4>1. i \in 1 .. (field - 1) /\ i \in DOMAIN offsets
        BY <1>2, <3>2
      <4>2. Packed(i) => End(i)' = End(i)
        BY <1>7 DEF Packed
      <4>3. Placed(i) => Placed(i)'
        BY <1>4, <1>6, <1>7, <2>1, <4>1, <4>2, StaysPlaced
      <4>4. Placed(i) \/ (Packed(i) /\ offsets[i] = offset)
        BY <1>2, <4>1 DEF PlacedSoFar
      <4> QED
        BY <1>6, <1>7, <2>1, <4>1, <4>3, <4>4
    <3> QED
      BY <3>1, <3>2
  <2>3. Counted'
    BY <1>2, <1>5, <2>1 DEF Counted
  <2> QED
    BY <1>4, <2>2, <2>3 DEF PInv, FieldsPlaced
<1>10. CASE IsSize(end)
  <2> DEFINE k == Len(elements) + 1
  <2>1. PICK f : f = ElementOf(type[field])
    OBVIOUS
  <2>2. elements' = elements \o <<Bits(end), f>> /\ offset' = offset + 1 /\ width' = 0
    BY <1>10, <2>1 DEF LayoutBitField
  <2>3. /\ Len(elements') = Len(elements) + 2 /\ DOMAIN elements' = 1 .. (Len(elements) + 2)
        /\ \A j \in DOMAIN elements : elements'[j] = elements[j]
        /\ elements'[k] = Bits(end) /\ k \in DOMAIN elements' /\ DOMAIN elements \subseteq DOMAIN elements'
    <3>1. elements \in Seq(LayoutElement) /\ Len(elements) \in Nat /\ DOMAIN elements = 1 .. Len(elements)
      BY <1>2
    <3> HIDE DEF end
    <3>2. elements' = [j \in 1 .. (Len(elements) + 2) |->
                         IF j <= Len(elements) THEN elements[j] ELSE <<Bits(end), f>>[j - Len(elements)]]
      BY <2>2, <3>1
    <3>3. Len(elements') = Len(elements) + 2
      BY <2>2, <3>1
    <3>4. (Len(elements) + 1) - Len(elements) = 1
      BY <3>1
    <3> QED
      BY <3>1, <3>2, <3>3, <3>4
  <2>4. ASSUME NEW i, Packed(i)', End(i)' <= end, offsets'[i] = offset PROVE Placed(i)'
    <3>1. Element(i)' = k
      BY <1>2, <2>4 DEF Element
    <3>2. elements'[Element(i)'] = Bits(end) /\ Element(i)' \in DOMAIN elements'
      BY <2>3, <3>1
    <3>3. Bits(end).int /\ Bits(end).width = end
      BY DEF Bits
    <3> HIDE DEF end
    <3> QED
      BY <2>4, <3>2, <3>3 DEF Placed
  <2>5. PlacedSoFar'
    <3> SUFFICES ASSUME NEW i \in 1 .. field PROVE Placed(i)'
      BY <1>6 DEF PlacedSoFar
    <3>1. CASE i = field
      <4>1. Packed(i)' /\ End(i)' = end /\ offsets'[i] = offset
        BY <1>6, <1>7, <3>1
      <4> QED
        BY <1>8, <2>4, <4>1
    <3>2. CASE i # field
      <4>1. i \in 1 .. (field - 1) /\ i \in DOMAIN offsets
        BY <1>2, <3>2
      <4>2. Packed(i) => End(i)' = End(i)
        BY <1>7 DEF Packed
      <4>3. CASE Placed(i)
        BY <1>4, <1>6, <1>7, <2>3, <4>1, <4>2, <4>3, StaysPlaced
      <4>4. CASE offsets[i] = offset
        <5>1. Packed(i) /\ End(i) <= width /\ End(i) \in Nat
          BY <4>1, <4>4, OpenWithin
        <5>2. Packed(i)' /\ End(i)' <= end
          BY <1>7, <1>8, <4>1, <4>2, <5>1
        <5> QED
          BY <1>6, <2>4, <4>1, <4>4, <5>2
      <4> QED
        BY <1>2, <4>1, <4>3, <4>4 DEF PlacedSoFar
    <3> QED
      BY <3>1, <3>2
  <2>6. Counted'
    <3>1. field' = Len(type') + 1 /\ offset' = Len(elements') - 1
      BY <1>2, <1>3, <1>4, <1>10, <2>2, <2>3
    <3> QED
      BY <2>2, <3>1 DEF Counted
  <2> QED
    BY <1>4, <2>5, <2>6 DEF PInv, FieldsPlaced
<1> QED
  BY <1>9, <1>10

\* Another field gets the element behind that of the bit fields before it.
LEMMA FieldPlaces ==
  ASSUME IInv, PInv, LayoutField, Roomy(type)
  PROVE  PInv'
<1> DEFINE at == IF width # 0 THEN offset + 1 ELSE offset
<1>1. LayingOut /\ ~IsBitField(type[field])
  BY DEF LayoutField
<1>2. /\ width = Before /\ offset = Len(elements) /\ Len(elements) \in Nat
      /\ elements \in Seq(LayoutElement) /\ DOMAIN elements = 1 .. Len(elements)
      /\ DOMAIN offsets = 1 .. (field - 1) /\ field \in 1 .. Len(type)
      /\ Len(type) \in Nat /\ offsets \in Seq(0 .. offset) /\ PlacedSoFar
  BY <1>1, RoomInHand
<1>3. \A t, f : t = type /\ f = field + 1 => (CHOOSE w : HasRoom(t, w))[f - 1] = 0
  BY <1>1, RoomInHand
<1>4. /\ type' = type /\ field' = field + 1 /\ stage' = "layout" /\ ranges' = ranges
      /\ width' = 0 /\ offset' = at + 1
  BY <1>1 DEF LayoutField, LayingOut
<1>5. Before' = 0
  BY <1>3, <1>4 DEF Before
<1>6. /\ DOMAIN offsets' = 1 .. field
      /\ \A i \in 1 .. (field - 1) : offsets'[i] = offsets[i]
      /\ offsets'[field] = at
  <2>1. Len(offsets) = field - 1
    BY DEF IInv, TypeOK
  <2>2. offsets' = Append(offsets, at)
    BY DEF LayoutField
  <2> HIDE DEF at
  <2>3. offsets' = Append(offsets, at) /\ offsets \in Seq(0 .. offset)
    BY <1>2, <2>2
  <2> QED
    BY <1>2, <2>1, <2>3, AppendElements
<1>7. /\ \A i : Start(i)' = Start(i) /\ End(i)' = End(i) /\ Packed(i)' = Packed(i)
      /\ ~ Packed(field)
  <2>1. DOMAIN ranges \subseteq 1 .. (field - 1)
    BY <1>2 DEF IInv, TypeOK
  <2> QED
    BY <1>2, <1>4, <2>1 DEF Start, End, Packed
<1>8. PICK f : f = ElementOf(type[field])
  OBVIOUS
<1>9. /\ Len(elements') = at + 1 /\ DOMAIN elements' = 1 .. (at + 1) /\ at \in Nat
      /\ DOMAIN elements \subseteq DOMAIN elements'
      /\ \A j \in DOMAIN elements : elements'[j] = elements[j]
      /\ elements'[at + 1] = f
      /\ width # 0 => elements'[offset + 1] = Bits(width) /\ offset + 1 \in DOMAIN elements'
  <2>1. elements \in Seq(LayoutElement) /\ Len(elements) \in Nat /\ DOMAIN elements = 1 .. Len(elements)
        /\ offset = Len(elements)
    BY <1>2
  <2>2. CASE width = 0
    <3>1. elements' = elements \o <<f>>
      BY <1>8, <2>2 DEF LayoutField
    <3>2. at = Len(elements)
      BY <2>1, <2>2
    <3> HIDE DEF at
    <3> QED
      BY <2>1, <2>2, <3>1, <3>2
  <2>3. CASE width # 0
    <3>1. PICK b : b = Bits(width)
      OBVIOUS
    <3>2. elements' = Append(elements, b) \o <<f>>
      BY <1>8, <2>3, <3>1 DEF LayoutField
    <3>3. at = Len(elements) + 1
      BY <2>1, <2>3
    <3> HIDE DEF at
    <3>4. PICK e : e = Append(elements, b)
      OBVIOUS
    <3>5. /\ e \in Seq(LayoutElement \cup {b}) /\ Len(e) = at /\ DOMAIN e = 1 .. at /\ at \in Nat
          /\ \A j \in DOMAIN elements : e[j] = elements[j]
          /\ e[at] = b
      BY <2>1, <3>3, <3>4
    <3>6. elements' = e \o <<f>>
      BY <3>2, <3>4
    <3>7. /\ Len(elements') = at + 1 /\ DOMAIN elements' = 1 .. (at + 1)
          /\ \A j \in 1 .. at : elements'[j] = e[j]
          /\ elements'[at + 1] = f
      BY <3>5, <3>6
    <3> QED
      BY <2>1, <3>1, <3>3, <3>5, <3>7
  <2> QED
    BY <2>2, <2>3
<1>10. ASSUME NEW i \in 1 .. field PROVE Placed(i)'
  <2>1. CASE i = field
    <3>1. Element(i)' = at + 1
      BY <1>6, <2>1 DEF Element
    <3>2. ~ Packed(i)' /\ elements'[Element(i)'] = ElementOf(type'[i]) /\ Element(i)' \in DOMAIN elements'
      BY <1>4, <1>7, <1>8, <1>9, <2>1, <3>1
    <3> QED
      BY <3>2 DEF Placed
  <2>2. CASE i # field
    <3>1. i \in 1 .. (field - 1) /\ i \in DOMAIN offsets
      BY <1>2, <2>2
    <3>2. CASE Placed(i)
      BY <1>4, <1>6, <1>7, <1>9, <3>1, <3>2, StaysPlaced
    <3>3. CASE offsets[i] = offset
      <4>1. Packed(i) /\ width # 0 /\ End(i) <= width
        BY <3>1, <3>3, OpenWithin
      <4>2. Element(i)' = offset + 1
        BY <1>6, <3>1, <3>3 DEF Element
      <4>3. elements'[Element(i)'] = Bits(width) /\ Element(i)' \in DOMAIN elements'
        BY <1>9, <4>1, <4>2
      <4>4. Packed(i)' /\ End(i)' <= width
        BY <1>7, <4>1
      <4> QED
        BY <4>3, <4>4 DEF Placed, Bits
    <3> QED
      BY <1>2, <3>1, <3>2, <3>3 DEF PlacedSoFar
  <2> QED
    BY <2>1, <2>2
<1>11. PlacedSoFar'
  BY <1>6, <1>10 DEF PlacedSoFar
<1>12. Counted'
  BY <1>4, <1>5, <1>9 DEF Counted
<1> QED
  BY <1>4, <1>11, <1>12 DEF PInv, FieldsPlaced

\* The bit fields that are left get an element of a whole size, which has room for them.
LEMMA EndPlaces ==
  ASSUME IInv, PInv, EndLayout, Roomy(type)
  PROVE  PInv'
<1> DEFINE w == CHOOSE x : HasRoom(type, x)
<1> DEFINE size == NextSize(width)
<1>1. HasRoom(type, w)
  BY DEF Roomy
<1>2. /\ UNCHANGED <<type, field, width, offset, offsets, ranges>>
      /\ stage = "layout" /\ stage' = "access" /\ field > Len(type)
  BY DEF EndLayout
<1>3. type \in Seq(FieldType) /\ Len(type) \in Nat /\ DOMAIN type = 1 .. Len(type)
      /\ field \in 1 .. (Len(type) + 1) /\ width \in Nat
  BY StructTypesAssumption DEF IInv, TypeOK
<1>4. field = Len(type) + 1
  BY <1>2, <1>3
<1>5. elements \in Seq(LayoutElement) /\ Len(elements) \in Nat /\ DOMAIN elements = 1 .. Len(elements)
  BY DEF IInv, TypeOK, LayoutElement
<1>6. DOMAIN offsets = DOMAIN type
  <2>1. offsets \in Seq(0 .. offset) /\ Len(offsets) = field - 1
    BY DEF IInv, TypeOK
  <2> QED
    BY <1>3, <1>4, <2>1
<1>7. Counted /\ PlacedSoFar
  BY <1>2 DEF PInv
<1>8. \A i : Start(i)' = Start(i) /\ End(i)' = End(i) /\ Packed(i)' = Packed(i)
  BY <1>2 DEF Start, End, Packed
<1>9. ASSUME width # 0 PROVE width <= size /\ offset = Len(elements)
  <2>1. width = Before /\ offset = Len(elements)
    BY <1>7, <1>9 DEF Counted
  <2>2. width = w[Len(type)]
    BY <1>3, <1>4, <2>1 DEF Before
  <2> HIDE DEF w, size
  <2>3. w[0] = 0
    BY <1>1 DEF HasRoom
  <2>4. Len(type) \in 1 .. Len(type)
    BY <1>3, <1>9, <2>2, <2>3
  <2>5. IsBitField(type[Len(type)])
    BY <1>1, <1>9, <2>2, <2>4 DEF HasRoom
  <2>6. w[Len(type)] <= NextSize(w[Len(type)])
    BY <1>1, <2>4, <2>5 DEF HasRoom
  <2> QED
    BY <2>1, <2>2, <2>6 DEF size
<1> HIDE DEF w
<1>10. /\ DOMAIN elements \subseteq DOMAIN elements'
       /\ \A j \in DOMAIN elements : elements'[j] = elements[j]
       /\ width # 0 => elements'[Len(elements) + 1] = Bits(size)
                       /\ Len(elements) + 1 \in DOMAIN elements'
  <2>1. CASE width = 0
    BY <2>1 DEF EndLayout
  <2>2. CASE width # 0
    <3>1. PICK b : b = Bits(size)
      OBVIOUS
    <3>2. elements' = Append(elements, b)
      BY <2>2, <3>1 DEF EndLayout
    <3> QED
      BY <1>5, <3>1, <3>2, AppendElements
  <2> QED
    BY <2>1, <2>2
<1>11. ASSUME NEW i \in DOMAIN type PROVE Placed(i)'
  <2>1. i \in DOMAIN offsets
    BY <1>6
  <2>2. CASE Placed(i)
    BY <1>2, <1>8, <1>10, <2>1, <2>2, StaysPlaced
  <2>3. CASE offsets[i] = offset
    <3>1. Packed(i) /\ width # 0 /\ End(i) <= width /\ End(i) \in Nat
      BY <2>1, <2>3, OpenWithin
    <3>2. Element(i)' = Len(elements) + 1
      BY <1>2, <1>9, <2>3, <3>1 DEF Element
    <3>3. elements'[Element(i)'] = Bits(size) /\ Element(i)' \in DOMAIN elements'
      BY <1>10, <3>1, <3>2
    <3>4. size \in Nat
      <4>1. Len(type) <= MostFields
        BY StructTypesAssumption DEF IInv, TypeOK
      <4>2. width <= 2 * MostFields
        BY <1>3, <1>4, <4>1 DEF IInv, WidthBound, MostFields
      <4> QED
        BY <1>3, <4>2, NextSizeType
    <3>5. Packed(i)' /\ End(i)' <= size
      <4>1. width <= size
        BY <1>9, <3>1
      <4> HIDE DEF size
      <4> QED
        BY <1>3, <1>8, <3>1, <3>4, <4>1
    <3> HIDE DEF size
    <3> QED
      BY <3>3, <3>5 DEF Placed, Bits
  <2> QED
    BY <1>7, <2>1, <2>2, <2>3 DEF PlacedSoFar
<1> QED
  BY <1>2, <1>11 DEF PInv, FieldsPlaced

LEMMA AccessPlaces ==
  ASSUME PInv, UNCHANGED <<type, field, layout, stage>>
  PROVE  PInv'
<1>1. UNCHANGED <<type, field, width, offset, elements, offsets, ranges, stage>>
  BY DEF layout
<1>2. \A i : Placed(i)' = Placed(i) /\ Packed(i)' = Packed(i)
  BY <1>1 DEF Placed, Packed, Element, End
<1>3. Before' = Before
  BY <1>1 DEF Before
<1> QED
  BY <1>1, <1>2, <1>3 DEF PInv, FieldsPlaced, Counted, PlacedSoFar

LEMMA InitPlaces ==
  ASSUME Init, Roomy(type)
  PROVE  PInv
<1> DEFINE w == CHOOSE x : HasRoom(type, x)
<1>1. HasRoom(type, w)
  BY DEF Roomy
<1>2. field = 1 /\ width = 0 /\ offset = 0 /\ elements = << >> /\ offsets = << >> /\ stage = "layout"
  BY DEF Init
<1>3. Before = w[0]
  BY <1>2 DEF Before
<1> HIDE DEF w
<1>4. Counted
  BY <1>1, <1>2, <1>3 DEF HasRoom, Counted
<1>5. PlacedSoFar
  BY <1>2 DEF PlacedSoFar
<1> QED
  BY <1>2, <1>4, <1>5 DEF PInv, FieldsPlaced

LEMMA StepPlaces ==
  ASSUME \A t \in StructTypes : Roomy(t)
  PROVE  IInv /\ PInv /\ [Next]_vars => PInv'
<1> SUFFICES ASSUME IInv, PInv, [Next]_vars PROVE PInv'
  OBVIOUS
<1> Roomy(type)
  BY DEF IInv, TypeOK
<1>1. CASE LayoutBitField
  BY <1>1, BitFieldPlaces
<1>2. CASE LayoutField
  BY <1>2, FieldPlaces
<1>3. CASE EndLayout
  BY <1>3, EndPlaces
<1>4. CASE StructAlloc
  BY <1>4, AccessPlaces DEF StructAlloc
<1>5. CASE \E i \in DOMAIN type : Access(i)
  BY <1>5, AccessPlaces DEF Access, StructRead, StructWrite
<1>6. CASE UNCHANGED vars
  BY <1>6, AccessPlaces DEF vars
<1> QED
  BY <1>1, <1>2, <1>3, <1>4, <1>5, <1>6 DEF Next

(***************************************************************************)
(* Of structs with room, visitStructType records for every field the       *)
(* offset of the element that was made for it, wide enough for its bits.   *)
(***************************************************************************)
THEOREM FieldsArePlaced ==
  ASSUME \A t \in StructTypes : Roomy(t)
  PROVE  Spec => []FieldsPlaced
<1>1. Init => PInv
  BY InitPlaces DEF Init
<1>2. IInv /\ PInv /\ [Next]_vars => PInv'
  BY StepPlaces
<1>3. PInv => FieldsPlaced
  BY DEF PInv
<1> QED
  BY <1>1, <1>2, <1>3, Inductive, PTL DEF Spec
=============================================================================
