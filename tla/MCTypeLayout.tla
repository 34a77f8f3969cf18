---------------------------- MODULE MCTypeLayout ----------------------------
(* Struct types of up to MaxFields fields. *)
EXTENDS TypeLayout

CONSTANT MaxFields

Field(int, bits, signed, passed) ==
  [int |-> int, width |-> bits, signed |-> signed, passed |-> passed]
Bool == Field(TRUE, 1, FALSE, 1)
U2   == Field(TRUE, 2, FALSE, 8)
U8   == Field(TRUE, 8, FALSE, 8)
I2   == Field(TRUE, 2, TRUE, 8)
Ptr  == Field(FALSE, 8, FALSE, 8)

Types(fields) == UNION {[1 .. n -> fields] : n \in 1 .. MaxFields}

\* The bits, up to each field, of the bit fields that no other field ends.
BitsUpTo(t) ==
  LET w[i \in 0 .. Len(t)] ==
        IF i > 0 /\ IsBitField(t[i]) THEN w[i - 1] + t[i].width ELSE 0
  IN  w
\* Signed bit fields have an element of their own that is no wider.
SignedApart(t) ==
  \A i \in DOMAIN t :
    IsBitField(t[i]) /\ t[i].signed =>
      /\ i < Len(t) /\ ~IsBitField(t[i + 1])
      /\ i > 1 => ~IsBitField(t[i - 1])

Good == {t \in Types({Bool, U2, U8, I2, Ptr}) : HasRoom(t, BitsUpTo(t)) /\ SignedApart(t)}

\* Signed bit fields in an element that is wider.
Signed == {<<I2>>, <<Bool, I2>>}

Seen == <<type, field, layout, stage, memory, written>>
=============================================================================
