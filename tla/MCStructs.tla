----------------------------- MODULE MCStructs -----------------------------
(* Programs of main and two functions over two struct types; blocks of values. *)
EXTENDS DeadFields, DeadCollections, KeyFolding

-----------------------------------------------------------------------------
(* Field elision and dead fields *)

S == "S"
T == "T"
F == <<"f">>
G == <<"g">>
Value(t, k) == <<t, k>>

Access(o, v, n, stored) ==
  [op |-> o, object |-> v, field |-> n, meant |-> n, stored |-> stored, arrays |-> << >>]
Call(f, passed) == [op |-> "call", callee |-> f, passed |-> passed, arrays |-> << >>]

ReadS(n)  == Access("StructRead", Value(S, 1), n, None)
WriteS(n) == Access("StructWrite", Value(S, 2), n, None)
ReadT(n)  == Access("StructRead", Value(T, 1), n, None)
\* A reference to a T stored in an S, in a field of a number that T has no use for.
StoreT    == Access("StructWrite", Value(S, 1), 3, Value(T, 2))

Bodies == {<<ReadS(2)>>, <<WriteS(2), ReadT(1)>>, <<ReadT(2), WriteS(3)>>, <<StoreT>>, << >>}

\* Calls of the functions that come after, of itself, and of others with and without structs.
Calls(f) ==
  CASE f = Main -> {<<Call(F, {})>>, <<Call(G, {Value(S, 1)})>>,
                      <<Call(F, {}), Call(G, {})>>, <<Call(G, {}), Call(F, {})>>}
    [] f = F -> {<< >>, <<Call(F, {}), Call(G, {}), Call(G, {})>>,
                   <<Call(External, {})>>, <<Call(None, {Value(T, 3)})>>}
    [] f = G -> {<< >>, <<Call(G, {})>>, <<Call(External, {Value(S, 9)})>>}

Whole(f) ==
  IF f = Main THEN {b \o c : c \in Calls(f), b \in {<<ReadT(2), WriteS(3)>>, << >>}}
  ELSE {c \o b : c \in Calls(f), b \in Bodies}

Calling == {[f \in {Main, F, G} |-> CASE f = Main -> m [] f = F -> a [] f = G -> b] :
              m \in Whole(Main), a \in Whole(F), b \in Whole(G)}

Candidates == {[t \in {S} |-> <<{2}>>], [t \in {S} |-> <<{3}, {2}>>],
               [t \in {S, T} |-> IF t = S THEN <<{2}>> ELSE <<{1}>>], [t \in {S} |-> <<{1, 2}>>], << >>}

Types == [t \in {S, T} |-> IF t = S THEN <<1, 2, 3>> ELSE <<1, 2>>]

-----------------------------------------------------------------------------
(* Dead collections *)

V(o, uses, name) == [op |-> o, uses |-> uses, name |-> name]

TypeValues == {V("Type", << >>, Nameless), V("DefineStructType", << >>, "t"), V("StructType", << >>, "t")}
Later(i) ==
  {V("Alloc", <<t>>, Nameless) : t \in {1, 2}}
  \cup {V(o, <<t>>, Nameless) : o \in {"AssertStructType", "ReturnType"}, t \in {1, 2}}
  \cup {V(o, <<c>>, Nameless) : o \in {"Insert", "Write", "Read"}, c \in 3 .. i - 1}
  \cup {V("Swap", <<c, d>>, Nameless) : c, d \in 3 .. i - 1}

Blocks == {<<a, b, c, d, e>> : a \in TypeValues, b \in TypeValues,
                               c \in Later(3), d \in Later(4), e \in Later(5)}

\* Collections are operated on; assertions name no definition itself: it would go with them.
ByName ==
  {b \in Blocks : \A v \in DOMAIN b :
     /\ b[v].op \in AssertOps => b[b[v].uses[1]].op # "DefineStructType"
     /\ b[v].op \in {"Insert", "Read", "Write", "Swap"} =>
          \A c \in Range(b[v].uses) : b[c].op \in {"Alloc", "Insert", "Write", "Swap"}}

-----------------------------------------------------------------------------
(* Key folding *)

K(o, uses, what, f) == [op |-> o, uses |-> uses, what |-> what, fn |-> f]
Nothing(f) == K("Value", << >>, "any", f)

\* The collection the keys come from: allocated here, as another version, or by function 3.
Bases ==
  {K("Sequence", << >>, size, 1) : size \in {"constant", "parameter", "computed"}}
  \cup {K("AssocArray", << >>, "u32", 1), K("Call", << >>, {3}, 1)}

Gets(base) == IF base.op = "AssocArray" THEN "AssocGet" ELSE "IndexGet"

\* An array that is written in a loop with keys of value k, read with keys of value l.
Written(base, kind, k, l, get) ==
  <<Nothing(1), Nothing(1), base, K("Sequence", << >>, "constant", 1), K("AssocArray", << >>, kind, 1),
    K("PHI", <<5, 8>>, "any", 1),
    IF k = 2 THEN Nothing(1) ELSE K(IF k = 3 THEN Gets(base) ELSE "IndexGet", <<k, 1>>, "any", 1),
    K("AssocWrite", <<6, 7>>, "any", 1),
    K(IF l = 3 THEN Gets(base) ELSE "IndexGet", <<l, 2>>, "any", 1), K(get, <<6, 9>>, "any", 1)>>

Ahead == <<K("Sequence", << >>, "constant", 3), K("Return", <<11>>, "any", 3)>>

\* The array and value s passed on to function 2, which reads it with keys of what it is passed.
PassedOn(s, again) ==
  <<K("Call", <<6, s>>, {2}, 1), K("Argument", << >>, 1, 2), K("Argument", << >>, 2, 2), Nothing(2),
    K("IndexGet", <<15, 16>>, "any", 2), K("AssocRead", <<14, 17>>, "any", 2), K("UsePHI", <<14>>, "any", 2)>> \o
  (IF again THEN <<K("Call", <<19, 15>>, {2}, 2)>> ELSE << >>)

\* Function 3 calls itself with one argument: none of number 2.
OneArgument == <<K("Argument", << >>, 1, 3), K("Call", <<20>>, {3}, 3)>>

\* An array with keys got from the first.
Keyed == <<K("AssocArray", << >>, "ref", 1), K("AssocWrite", <<13, 10>>, "any", 1)>>

Foldings ==
  {Written(b, kind, k, l, "AssocRead") \o Ahead : b \in Bases, kind \in {"ref", "u32"}, k \in {2, 3, 4}, l \in {3, 4}}
  \cup {Written(b, "ref", k, 3, "AssocRead") \o Ahead \o PassedOn(3, again) :
           b \in Bases \ {K("AssocArray", << >>, "u32", 1)}, k \in {2, 3}, again \in BOOLEAN}
  \cup {Written(b, "ref", 3, 3, "AssocRead") \o Ahead \o PassedOn(3, FALSE) \o OneArgument : b \in {K("Sequence", << >>, "constant", 1)}}
  \cup {Written(b, "ref", k, 3, "AssocGet") \o Ahead \o Keyed : b \in Bases, k \in {2, 3}}

\* As above, but read in the version a write makes.
NewVersions ==
  {[p EXCEPT ![10].uses = <<8, 9>>] : p \in {Written(b, "ref", 3, 3, "AssocRead") \o Ahead : b \in Bases}}

\* The keys come from a sequence that function 3 makes with the size that is its own parameter.
ForeignSizes ==
  {[p EXCEPT ![11].what = "parameter"] :
     p \in {Written(b, "ref", 3, 3, "AssocRead") \o Ahead : b \in {K("Call", << >>, {3}, 1)}}}

\* Programs that the pass folds wrongly: MCStructs_keys.cfg.
FoldedWrongly == NewVersions \cup ForeignSizes

-----------------------------------------------------------------------------

\* What the theorems about these passes assume.
ASSUME StructsAssumption == ProgramsAreElidable /\ FieldsAreMeant /\ AssertionsAreApart

NoKeys == stage = "erase" /\ origin = << >> /\ folded = << >> /\ left = {} /\ alloc = 0 /\ work = {}
          /\ seen = {} /\ keyUses = << >> /\ keyIndex = << >> /\ referenced = {} /\ folds = << >> /\ done = {}
NoFields == phase = "done" /\ body = << >> /\ candidates = << >> /\ used = << >> /\ frames = << >>
            /\ params = << >> /\ values = << >> /\ rewritten = {}
NoCode   == code = << >> /\ place = 1 /\ dead = {} /\ dropped = {} /\ deleted = {}

Init == \/ ElisionInit /\ FieldsInit /\ NoCode /\ NoKeys
        \/ CollectionsInit /\ NoFields /\ FieldsInit /\ NoKeys
        \/ KeysInit /\ NoCode /\ NoFields /\ FieldsInit

Next == \/ FieldsNext /\ UNCHANGED <<deadVars, foldVars>>
        \/ CollectionsNext /\ UNCHANGED <<vars, fieldVars, foldVars>>
        \/ KeysNext /\ UNCHANGED <<vars, fieldVars, deadVars>>

Spec == Init /\ [][Next]_<<vars, fieldVars, deadVars, foldVars>>
=============================================================================
