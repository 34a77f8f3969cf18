--------------------------- MODULE RuntimeAssocs ---------------------------
(***************************************************************************)
(* The associative array operations of the runtime library on AssocArray   *)
(* objects (runtime/src: mut_operations.cpp, ssa_operations.cpp,           *)
(* mut_access.cpp, ssa_access.cpp, detail/collections.cpp).  An object     *)
(* holds its assoc_array, a std::unordered_map from key_t to value_t.      *)
(***************************************************************************)
EXTENDS RuntimeHeap

CONSTANTS
  Keys,       \* the keys a program uses, all of one key type
  KeyT,       \* uint64_t, in which the map holds its keys
  Cast,       \* the cast from the key type to key_t
  IntegerKeys \* the key type is an integer type

ASSUME IntegerKeysAssumption == IntegerKeys \in BOOLEAN
\* Integers of one type, pointers and references keep apart when they are cast.
ASSUME CastAssumption ==
  /\ Cast \in [Keys -> KeyT]
  /\ \A j, k \in Keys : Cast[j] = Cast[k] => j = k
Maps == UNION {[K -> Elements] : K \in SUBSET KeyT}
ASSUME MapsAssumption ==
  /\ Freed \notin Maps /\ None \notin Maps \cup {Freed}
  /\ \A K \in SUBSET Keys : None \notin [K -> Elements]

map(n) == object(n)

\* assoc_array[k] = v, find, erase
Assign(m, k, v) == [x \in DOMAIN m \cup {k} |-> IF x = k THEN v ELSE m[x]]
Erase(m, k)     == [x \in DOMAIN m \ {k} |-> m[x]]

\* Variant: a created element is not initialised.
GetElementRaw(m, key) ==
  IF Cast[key] \in DOMAIN m THEN m ELSE Assign(m, Cast[key], None)

\* get_element: finds the key, or creates it.
GetElement(m, key) ==
  IF Cast[key] \in DOMAIN m THEN m ELSE Assign(m, Cast[key], Zero)

\* Variant: the key is looked up and left there.
RemoveElementNot(m, key) == m

\* remove_element: only an integer key is erased.
RemoveElement(m, key) == IF IntegerKeys THEN Erase(m, Cast[key]) ELSE m

-----------------------------------------------------------------------------
(* The same in both forms. *)

Allocate(d) ==
  /\ Calls("allocate", {})
  /\ New(<<"allocate", d>>, d, [k \in {} |-> Zero]) /\ UNCHANGED status

\* Reads and gets create the key they do not find, in either form.
AssocRead(n, key) ==
  /\ Calls("read", {n})
  /\ Outcome(Usable({n}), TRUE, TRUE,
             /\ heap' = [heap EXCEPT ![env[n]] = GetElement(map(n), key)]
             /\ call' = <<"read", n, key, GetElement(map(n), key)[Cast[key]]>>
             /\ UNCHANGED env)

AssocHas(n, key) ==
  /\ Calls("has", {n})
  /\ Outcome(Usable({n}), TRUE, TRUE, Returns(<<"has", n, key, Cast[key] \in DOMAIN map(n)>>))

\* The keys, in an order the map chooses; here as the set they are.
AssocKeys(n) ==
  /\ Calls("keys", {n})
  /\ Outcome(Usable({n}), TRUE, TRUE,
             Returns(<<"keys", n, {key \in Keys : Cast[key] \in DOMAIN map(n)}>>))

-----------------------------------------------------------------------------
(* Mutable operations. *)

MutAssocWrite(n, key, v) ==
  /\ Calls("mut_write", {n})
  /\ Outcome(Usable({n}), TRUE, TRUE,
             InPlace(<<"write", n, n, key, v>>, n, Assign(map(n), Cast[key], v)))

MutAssocInsert(n, key) ==
  /\ Calls("mut_insert", {n})
  /\ Outcome(Usable({n}), TRUE, TRUE,
             InPlace(<<"insert", n, n, key>>, n, GetElement(map(n), key)))

MutAssocRemove(n, key) ==
  /\ Calls("mut_remove", {n})
  /\ Outcome(Usable({n}), TRUE, TRUE,
             InPlace(<<"remove", n, n, key>>, n, RemoveElement(map(n), key)))

-----------------------------------------------------------------------------
(* SSA operations: d names the result. *)

\* Writes in place and returns its operand.
AssocWrite(d, n, key, v) ==
  /\ Calls("write", {n})
  /\ Outcome(Usable({n}), TRUE, TRUE,
             Leaves(<<"write", d, n, key, v>>, [env EXCEPT ![d] = env[n]],
                    [heap EXCEPT ![env[n]] = Assign(map(n), Cast[key], v)]))

\* Variant: inserts into the operand itself.
AssocInsertHere(d, n, key) ==
  /\ Calls("insert", {n})
  /\ Outcome(Usable({n}), TRUE, TRUE,
             Leaves(<<"insert", d, n, key>>, [env EXCEPT ![d] = env[n]],
                    [heap EXCEPT ![env[n]] = GetElement(map(n), key)]))

AssocInsert(d, n, key) ==
  /\ Calls("insert", {n})
  /\ Outcome(Usable({n}), TRUE, TRUE, New(<<"insert", d, n, key>>, d, GetElement(map(n), key)))

AssocRemove(d, n, key) ==
  /\ Calls("remove", {n})
  /\ Outcome(Usable({n}), TRUE, TRUE, New(<<"remove", d, n, key>>, d, RemoveElement(map(n), key)))

-----------------------------------------------------------------------------

Common(n) ==
  \/ Allocate(n) \/ Delete(n) \/ AssocKeys(n)
  \/ \E key \in Keys : AssocRead(n, key) \/ AssocHas(n, key)

MutOp(n) ==
  \E key \in Keys :
    \/ \E v \in Elements : MutAssocWrite(n, key, v)
    \/ MutAssocInsert(n, key) \/ MutAssocRemove(n, key)

SSAOp(n) ==
  \E key \in Keys :
    \/ \E v \in Elements, d \in Targets("write", n) : AssocWrite(d, n, key, v)
    \/ \E d \in Targets("insert", n) : AssocInsert(d, n, key)
    \/ \E d \in Targets("remove", n) : AssocRemove(d, n, key)

Next == Ended \/ \E n \in Names : Common(n) \/ MutOp(n) \/ SSAOp(n)

Spec == Init /\ [][Next]_vars

-----------------------------------------------------------------------------
(* Properties. *)

\* Variables point to objects, objects hold maps.
TypeOK ==
  /\ env \in [Names -> Objects \cup {None}]
  /\ heap \in [Objects -> Maps \cup {Freed}]
  /\ status \in {"running", "aborted", "undefined"}

(***************************************************************************)
(* The library implements the abstract store: what a variable points to is *)
(* what it holds, and each call does to it what its name says, to the      *)
(* destination only.  For the SSA operations this says that they are       *)
(* immutable: every older version is still what it was.                    *)
(***************************************************************************)
AsKeys(m) == [key \in {k \in Keys : Cast[k] \in DOMAIN m} |-> m[Cast[key]]]
Contents  == [n \in Names |-> IF Held[n] = None THEN None ELSE AsKeys(Held[n])]

Store == INSTANCE AssocStore WITH contents <- Contents

ImplementsStore == Store!Spec
=============================================================================
