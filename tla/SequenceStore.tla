--------------------------- MODULE SequenceStore ---------------------------
(***************************************************************************)
(* What the sequence operations of the runtime library promise (memoir.h), *)
(* whatever form they come in: variables hold sequences, an operation      *)
(* takes the sequences of some variables and leaves its result in d, which *)
(* is the operand itself for a mutable operation.  Every variable that is  *)
(* not the destination keeps the sequence it has.                          *)
(*                                                                         *)
(* Indices count from 0 and ranges are half open, as in the library.       *)
(***************************************************************************)
EXTENDS Naturals, Sequences, FiniteSets

CONSTANTS
  Names,      \* the variables
  Elements,   \* the values a sequence holds
  Zero,       \* the element a sequence is allocated with
  None,       \* the variable holds no sequence
  End         \* the index behind the last element

VARIABLES
  contents,   \* what each variable holds
  call        \* the call made last: operation, arguments and the number it returned

Live(n) == contents[n] # None

\* Where index i of the sequence of c is.
Pos(c, i) == IF i = End THEN Len(contents[c]) ELSE i

\* s with t put in before index i.
Splice(s, i, t) == SubSeq(s, 1, i) \o t \o SubSeq(s, i + 1, Len(s))
\* s without its range [i, j).
Cut(s, i, j) == SubSeq(s, 1, i) \o SubSeq(s, j + 1, Len(s))
Slice(s, i, j) == SubSeq(s, i + 1, j)
\* s with t in the place of as many elements from index i.
Over(s, i, t) == SubSeq(s, 1, i) \o t \o SubSeq(s, i + Len(t) + 1, Len(s))

Rearrangements(s) ==
  {[x \in DOMAIN s |-> s[f[x]]] :
     f \in {g \in [DOMAIN s -> DOMAIN s] : \A x, y \in DOMAIN s : g[x] = g[y] => x = y}}

Become(d, s) == contents' = [contents EXCEPT ![d] = s]

Init == contents = [n \in Names |-> None] /\ call = <<"init">>

Allocate(d, len) == Become(d, [x \in 1 .. len |-> Zero])

Delete(c) == Live(c) /\ Become(c, None)

Read(c, i, v) ==
  Live(c) /\ i < Len(contents[c]) /\ v = contents[c][i + 1] /\ UNCHANGED contents

Size(c, n) == Live(c) /\ n = Len(contents[c]) /\ UNCHANGED contents

Write(d, c, i, v) ==
  /\ Live(c) /\ i < Len(contents[c])
  /\ Become(d, Over(contents[c], i, <<v>>))

Insert(d, c, i, v) ==
  /\ Live(c) /\ Pos(c, i) <= Len(contents[c])
  /\ Become(d, Splice(contents[c], Pos(c, i), <<v>>))

InsertSeq(d, c, i, e) ==
  /\ Live(c) /\ Live(e) /\ Pos(c, i) <= Len(contents[c])
  /\ Become(d, Splice(contents[c], Pos(c, i), contents[e]))

\* Of a reversed range the elements are there twice.
Remove(d, c, i, j) ==
  /\ Live(c) /\ Pos(c, i) <= Len(contents[c]) /\ Pos(c, j) <= Len(contents[c])
  /\ Become(d, Cut(contents[c], Pos(c, i), Pos(c, j)))

\* The appended sequence is given up; only an empty one can be appended to itself.
AppendTo(c, e) ==
  /\ Live(c) /\ Live(e) /\ (c # e \/ contents[c] = << >>)
  /\ contents' = [contents EXCEPT ![c] = contents[c] \o contents[e], ![e] = None]

Copy(d, c, i, j) ==
  /\ Live(c) /\ Pos(c, i) <= Pos(c, j) /\ Pos(c, j) <= Len(contents[c])
  /\ Become(d, Slice(contents[c], Pos(c, i), Pos(c, j)))

\* d takes the range away from c.
Split(d, c, i, j) ==
  /\ Live(c) /\ i <= j /\ j <= Len(contents[c])
  /\ contents' = [contents EXCEPT ![c] = Cut(contents[c], i, j),
                                  ![d] = Slice(contents[c], i, j)]

\* The range of c from i, as long as the range [i, j), exchanged for what x has from k.
Fits(c, i, j, x, k) ==
  i <= j /\ j <= Len(contents[c]) /\ k + (j - i) <= Len(contents[x])
Exchanged(c, i, j, x, k) == Over(contents[c], i, Slice(contents[x], k, k + (j - i)))

\* Ranges that overlap are only promised to be rearranged.
SwapWithin(d, c, i, j, k) ==
  /\ Live(c) /\ Fits(c, Pos(c, i), Pos(c, j), c, Pos(c, k))
  /\ LET a == Pos(c, i)
         b == Pos(c, j)
         z == Pos(c, k)
     IN  IF b <= z \/ z + (b - a) <= a
         THEN Become(d, Over(Exchanged(c, a, b, c, z), z, Slice(contents[c], a, b)))
         ELSE \E s \in Rearrangements(contents[c]) : Become(d, s)

\* d takes c with the range of x in it, and e takes x with the range of c in it.
Swap(d, e, c, i, j, x, k) ==
  /\ Live(c) /\ Live(x) /\ Fits(c, Pos(c, i), Pos(c, j), x, Pos(x, k))
  /\ LET a == Pos(c, i)
         b == Pos(c, j)
         z == Pos(x, k)
     IN  contents' = [contents EXCEPT
                        ![d] = Exchanged(c, a, b, x, z),
                        ![e] = Over(contents[x], z, Slice(contents[c], a, b))]

\* The call r = <<operation, arguments ...>> has the effect it promises.
Does(r) ==
  CASE r[1] = "allocate"    -> Allocate(r[2], r[3])
    [] r[1] = "delete"      -> Delete(r[2])
    [] r[1] = "read"        -> Read(r[2], r[3], r[4])
    [] r[1] = "size"        -> Size(r[2], r[3])
    [] r[1] = "write"       -> Write(r[2], r[3], r[4], r[5])
    [] r[1] = "insert"      -> Insert(r[2], r[3], r[4], r[5])
    [] r[1] = "insert_seq"  -> InsertSeq(r[2], r[3], r[4], r[5])
    [] r[1] = "remove"      -> Remove(r[2], r[3], r[4], r[5])
    [] r[1] = "append"      -> AppendTo(r[2], r[3])
    [] r[1] = "copy"        -> Copy(r[2], r[3], r[4], r[5])
    [] r[1] = "split"       -> Split(r[2], r[3], r[4], r[5])
    [] r[1] = "swap_within" -> SwapWithin(r[2], r[3], r[4], r[5], r[6])
    [] r[1] = "swap"        -> Swap(r[2], r[3], r[4], r[5], r[6], r[7], r[8])

Next == Does(call')

Spec == Init /\ [][Next]_<<contents, call>>
=============================================================================
