---------------------------- MODULE AssocStore ----------------------------
(***************************************************************************)
(* What the associative array operations of the runtime library promise    *)
(* (memoir.h), whatever form they come in: variables hold functions from   *)
(* some keys to elements, an operation takes the function of a variable    *)
(* and leaves its result in d, and every other variable keeps what it has. *)
(***************************************************************************)
CONSTANTS
  Names,      \* the variables
  Keys,       \* the keys
  Elements,   \* what keys are mapped to
  Zero,       \* what an inserted key is mapped to
  None        \* the variable holds no associative array

VARIABLES
  contents,   \* what each variable holds
  call        \* the call made last: operation, arguments and what it returned

Live(n) == contents[n] # None

\* a with key k mapped to v.
With(a, k, v) == [x \in DOMAIN a \cup {k} |-> IF x = k THEN v ELSE a[x]]
Without(a, k) == [x \in DOMAIN a \ {k} |-> a[x]]
Inserted(a, k) == IF k \in DOMAIN a THEN a ELSE With(a, k, Zero)

Become(d, a) == contents' = [contents EXCEPT ![d] = a]

Init == contents = [n \in Names |-> None] /\ call = <<"init">>

Allocate(d) == Become(d, [k \in {} |-> Zero])
Delete(c)   == Live(c) /\ Become(c, None)

Write(d, c, k, v) == Live(c) /\ Become(d, With(contents[c], k, v))
Insert(d, c, k)   == Live(c) /\ Become(d, Inserted(contents[c], k))
Remove(d, c, k)   == Live(c) /\ Become(d, Without(contents[c], k))

\* Reading a key that is not there may put it there.
Read(c, k, v) ==
  /\ Live(c)
  /\ v = Inserted(contents[c], k)[k]
  /\ \E a \in {contents[c], Inserted(contents[c], k)} : Become(c, a)

Has(c, k, yes) == Live(c) /\ yes = (k \in DOMAIN contents[c]) /\ UNCHANGED contents
KeysOf(c, ks)  == Live(c) /\ ks = DOMAIN contents[c] /\ UNCHANGED contents

\* The call r = <<operation, arguments ...>> has the effect it promises.
Does(r) ==
  CASE r[1] = "allocate" -> Allocate(r[2])
    [] r[1] = "delete"   -> Delete(r[2])
    [] r[1] = "write"    -> Write(r[2], r[3], r[4], r[5])
    [] r[1] = "insert"   -> Insert(r[2], r[3], r[4])
    [] r[1] = "remove"   -> Remove(r[2], r[3], r[4])
    [] r[1] = "read"     -> Read(r[2], r[3], r[4])
    [] r[1] = "has"      -> Has(r[2], r[3], r[4])
    [] r[1] = "keys"     -> KeysOf(r[2], r[3])

Next == Does(call')

Spec == Init /\ [][Next]_<<contents, call>>
=============================================================================
