------------------------ MODULE RuntimeAssocsProofs ------------------------
(***************************************************************************)
(* For any variables, keys and elements: the associative arrays of the     *)
(* runtime library keep their types, are never shared, and implement the   *)
(* abstract store, provided that a program does not look again at what it  *)
(* gave to the SSA write, and removes integer keys only.                   *)
(***************************************************************************)
EXTENDS RuntimeAssocs, FiniteSetTheorems, TLAPS

IInv == TypeOK /\ NoSharing

\* The SSA write stores into its operand.
WritesLinear == "write" \in Ops => "write" \in Linear

-----------------------------------------------------------------------------
(* Objects. *)

\* There is an object that no variable points to and that is not one given object.
LEMMA ObjectLeft ==
  ASSUME TypeOK, NEW x
  PROVE  \E o \in Objects \ {x} : \A n \in Names : env[n] # o
<1> DEFINE Used == {env[n] : n \in Names}
<1>1. IsFiniteSet(Used) /\ Cardinality(Used) <= Cardinality(Names)
  <2>1. env \in [Names -> Used] /\ \A u \in Used : \E n \in Names : env[n] = u
    BY DEF TypeOK
  <2>2. env \in Surjection(Names, Used)
    BY <2>1 DEF Surjection
  <2> QED
    BY <2>2, FS_Surjection, ObjectsAssumption
<1>2. IsFiniteSet(Used \cup {x}) /\ Cardinality(Used \cup {x}) <= Cardinality(Used) + 1
  <2> HIDE DEF Used
  <2>1. /\ IsFiniteSet(Used \cup {x})
        /\ Cardinality(Used \cup {x}) = IF x \in Used THEN Cardinality(Used)
                                       ELSE Cardinality(Used) + 1
    BY <1>1, FS_AddElement
  <2>2. Cardinality(Used) \in Nat
    BY <1>1, FS_CardinalityType
  <2> QED
    BY <2>1, <2>2
<1>3. CASE Objects \subseteq Used \cup {x}
  <2>1. Cardinality(Objects) <= Cardinality(Used \cup {x})
    BY <1>2, <1>3, FS_Subset
  <2> QED
    BY <1>1, <1>2, <2>1, FS_CardinalityType, ObjectsAssumption
<1>4. CASE ~(Objects \subseteq Used \cup {x})
  BY <1>4
<1> QED
  BY <1>3, <1>4

LEMMA FreshFacts ==
  ASSUME TypeOK
  PROVE  Fresh \in Objects /\ \A n \in Names : env[n] # Fresh
<1>1. PICK o \in Objects : \A n \in Names : env[n] # o
  BY ObjectLeft
<1> QED
  BY <1>1 DEF Fresh

\* A usable object holds a map.
LEMMA MapOfUsable ==
  ASSUME TypeOK, NEW n \in Names, Bound(n), Usable({n})
  PROVE  env[n] \in Objects /\ map(n) \in Maps
  BY DEF TypeOK, Bound, Usable, map, object

-----------------------------------------------------------------------------
(* What the store sees. *)

Types(e, h) ==
  e \in [Names -> Objects \cup {None}] /\ h \in [Objects -> Maps \cup {Freed}]

AsContents(x) == IF x = Freed THEN None ELSE AsKeys(x)
Sees(e, h)    == [n \in Names |-> IF e[n] = None THEN None ELSE AsContents(h[e[n]])]

LEMMA AsKeysIsNotNone ==
  ASSUME NEW m \in Maps
  PROVE  AsKeys(m) # None
<1>1. PICK K \in SUBSET KeyT : m \in [K -> Elements]
  BY DEF Maps
<1> DEFINE L == {k \in Keys : Cast[k] \in DOMAIN m}
<1>2. AsKeys(m) \in [L -> Elements]
  BY <1>1 DEF AsKeys
<1> QED
  BY <1>2, MapsAssumption

LEMMA SeesIs ==
  ASSUME NEW e, NEW h, Types(e, h), NEW n \in Names,
         NEW held, held = IF e[n] # None /\ h[e[n]] # Freed THEN h[e[n]] ELSE None
  PROVE  (IF held = None THEN None ELSE AsKeys(held)) = Sees(e, h)[n]
<1>1. CASE e[n] # None /\ h[e[n]] # Freed
  <2>1. h[e[n]] \in Maps
    BY <1>1 DEF Types
  <2>2. h[e[n]] # None
    BY <2>1, MapsAssumption
  <2> QED
    BY <1>1, <2>2 DEF Sees, AsContents
<1>2. CASE e[n] = None \/ h[e[n]] = Freed
  BY <1>2 DEF Sees, AsContents
<1> QED
  BY <1>1, <1>2

LEMMA ContentsNow ==
  ASSUME TypeOK
  PROVE  Contents = Sees(env, heap)
<1>1. \A n \in Names : Contents[n] = Sees(env, heap)[n]
  BY SeesIs DEF TypeOK, Types, Contents, Held, Bound, Usable, object
<1> QED
  BY <1>1 DEF Contents, Sees

LEMMA ContentsNext ==
  ASSUME TypeOK'
  PROVE  Contents' = Sees(env', heap')
<1>1. \A n \in Names : Contents'[n] = Sees(env', heap')[n]
  BY SeesIs DEF TypeOK, Types, Contents, Held, Bound, Usable, object
<1> QED
  BY <1>1 DEF Contents, Sees

LEMMA LiveIfUsable ==
  ASSUME TypeOK, NEW n \in Names, Bound(n), Usable({n})
  PROVE  Contents[n] = AsKeys(map(n)) /\ Contents[n] # None
<1>1. map(n) \in Maps /\ map(n) # Freed /\ map(n) = heap[env[n]]
  BY MapOfUsable, MapsAssumption DEF map, object
<1>2. Contents[n] = AsKeys(map(n))
  BY <1>1, ContentsNow DEF Sees, AsContents, Bound
<1> QED
  BY <1>1, <1>2, AsKeysIsNotNone

-----------------------------------------------------------------------------
(* What calls leave. *)

\* The result is a new object.
LEMMA NewStep ==
  ASSUME IInv, NEW r, NEW d \in Names, NEW x \in Maps, New(r, d, x), UNCHANGED status
  PROVE  IInv' /\ call' = r /\ Contents' = [Contents EXCEPT ![d] = AsKeys(x)]
<1>1. Fresh \in Objects /\ (\A n \in Names : env[n] # Fresh) /\ Fresh # None
  BY FreshFacts, ObjectsAssumption DEF IInv
<1> DEFINE f == Fresh
           g == [heap EXCEPT ![f] = x]
<1>2. /\ env' = [env EXCEPT ![d] = f] /\ call' = r
      /\ heap' = [o \in Objects |-> IF \E n \in Names : env'[n] = o THEN g[o] ELSE Freed]
  BY DEF New, Leaves
<1> HIDE DEF f
<1>3. f \in Objects /\ (\A n \in Names : env[n] # f) /\ f # None
  BY <1>1 DEF f
<1>4. Types(env, heap)
  BY DEF IInv, TypeOK, Types
<1>5. Types(env', heap')
  BY <1>2, <1>3, <1>4 DEF Types
<1>6. TypeOK'
  BY <1>5 DEF IInv, TypeOK, Types
<1>7. NoSharing'
  BY <1>2, <1>3, <1>4 DEF IInv, NoSharing, Bound, Types
<1>8. x # Freed
  BY MapsAssumption
<1>9. \A n \in Names : Sees(env', heap')[n] = IF n = d THEN AsKeys(x) ELSE Sees(env, heap)[n]
  <2> TAKE n \in Names
  <2>1. CASE n = d
    <3>1. env'[n] = f /\ heap'[f] = x
      BY <1>2, <1>3, <1>4, <2>1 DEF Types
    <3> QED
      BY <1>3, <1>8, <2>1, <3>1 DEF Sees, AsContents
  <2>2. CASE n # d /\ env[n] = None
    BY <1>2, <1>4, <2>2 DEF Sees, Types
  <2>3. CASE n # d /\ env[n] # None
    <3>1. env'[n] = env[n] /\ env[n] \in Objects /\ heap'[env[n]] = heap[env[n]]
      BY <1>2, <1>3, <1>4, <2>3 DEF Types
    <3> QED
      BY <2>3, <3>1 DEF Sees
  <2> QED
    BY <2>1, <2>2, <2>3
<1>10. Contents' = [Contents EXCEPT ![d] = AsKeys(x)]
  BY <1>6, <1>9, ContentsNow, ContentsNext DEF IInv, Sees
<1> QED
  BY <1>2, <1>6, <1>7, <1>10 DEF IInv

\* An object that a variable points to is changed.
LEMMA ChangeStep ==
  ASSUME IInv, NEW n \in Names, Bound(n), NEW x \in Maps \cup {Freed},
         env' = env, UNCHANGED status, DOMAIN heap' = Objects,
         \A o \in Objects : heap'[o] = IF o = env[n] THEN x
                                       ELSE IF \E m \in Names : env[m] = o THEN heap[o]
                                       ELSE heap'[o],
         heap' \in [Objects -> Maps \cup {Freed}]
  PROVE  IInv' /\ Contents' = [Contents EXCEPT ![n] = AsContents(x)]
<1>1. Types(env, heap) /\ Types(env', heap')
  BY DEF IInv, TypeOK, Types
<1>2. IInv'
  BY <1>1 DEF IInv, TypeOK, NoSharing, Bound, Types
<1>3. env[n] # None /\ \A m \in Names : m # n /\ env[m] # None => env[m] # env[n]
  BY DEF IInv, NoSharing, Bound
<1>4. \A m \in Names : Sees(env', heap')[m] = IF m = n THEN AsContents(x)
                                              ELSE Sees(env, heap)[m]
  BY <1>1, <1>3 DEF Sees, Types
<1>5. TypeOK /\ TypeOK'
  BY <1>2 DEF IInv
<1>6. Contents' = [Contents EXCEPT ![n] = AsContents(x)]
  BY <1>4, <1>5, ContentsNow, ContentsNext DEF Sees
<1> QED
  BY <1>2, <1>6

\* The call is made in place.
LEMMA InPlaceStep ==
  ASSUME IInv, NEW r, NEW n \in Names, Bound(n), NEW x \in Maps \cup {Freed},
         InPlace(r, n, x), UNCHANGED status
  PROVE  IInv' /\ call' = r /\ Contents' = [Contents EXCEPT ![n] = AsContents(x)]
<1>1. /\ env' = env /\ call' = r
      /\ heap' = [o \in Objects |-> IF \E m \in Names : env[m] = o
                                    THEN [heap EXCEPT ![env[n]] = x][o] ELSE Freed]
  BY DEF InPlace, Leaves
<1>2. env[n] \in Objects /\ heap \in [Objects -> Maps \cup {Freed}]
  BY DEF IInv, TypeOK, Bound
<1>3. heap' \in [Objects -> Maps \cup {Freed}] /\ DOMAIN heap' = Objects
  BY <1>1, <1>2
<1>4. \A o \in Objects : heap'[o] = IF o = env[n] THEN x
                                    ELSE IF \E m \in Names : env[m] = o THEN heap[o]
                                    ELSE heap'[o]
  BY <1>1, <1>2
<1> QED
  BY <1>1, <1>3, <1>4, ChangeStep

\* The call changes nothing.
LEMMA SameStep ==
  ASSUME IInv, UNCHANGED <<env, heap>>, status' \in {"running", "aborted", "undefined"}
  PROVE  IInv' /\ UNCHANGED Contents
  BY DEF IInv, TypeOK, NoSharing, Bound, Contents, Held, Usable, object

-----------------------------------------------------------------------------
(* Maps by keys as the library holds them, and by keys as the program has them. *)

LEMMA AssignAsKeys ==
  ASSUME NEW m \in Maps, NEW key \in Keys, NEW v \in Elements
  PROVE  /\ Assign(m, Cast[key], v) \in Maps
         /\ AsKeys(Assign(m, Cast[key], v)) = Store!With(AsKeys(m), key, v)
<1> DEFINE c == Cast[key]
           a == Assign(m, c, v)
<1>1. PICK K \in SUBSET KeyT : m \in [K -> Elements]
  BY DEF Maps
<1>2. c \in KeyT /\ \A k \in Keys : Cast[k] = c => k = key
  BY CastAssumption
<1> HIDE DEF c
<1>3. a \in [K \cup {c} -> Elements] /\ K \cup {c} \in SUBSET KeyT
  BY <1>1, <1>2 DEF Assign
<1>4. DOMAIN AsKeys(a) = DOMAIN AsKeys(m) \cup {key}
  BY <1>1, <1>2, <1>3 DEF AsKeys, c
<1>5. \A k \in DOMAIN AsKeys(a) : AsKeys(a)[k] = IF k = key THEN v ELSE AsKeys(m)[k]
  BY <1>1, <1>2, <1>3 DEF AsKeys, Assign, c
<1> HIDE DEF a
<1>6. AsKeys(a) = Store!With(AsKeys(m), key, v)
  <2>1. AsKeys(a) = [k \in DOMAIN AsKeys(a) |-> AsKeys(a)[k]]
    BY DEF AsKeys
  <2> QED
    BY <1>4, <1>5, <2>1 DEF Store!With
<1>7. a \in Maps
  BY <1>3 DEF Maps
<1> QED
  BY <1>6, <1>7 DEF a, c

LEMMA EraseAsKeys ==
  ASSUME NEW m \in Maps, NEW key \in Keys
  PROVE  /\ Erase(m, Cast[key]) \in Maps
         /\ AsKeys(Erase(m, Cast[key])) = Store!Without(AsKeys(m), key)
<1> DEFINE c == Cast[key]
           a == Erase(m, c)
<1>1. PICK K \in SUBSET KeyT : m \in [K -> Elements]
  BY DEF Maps
<1>2. c \in KeyT /\ \A k \in Keys : Cast[k] = c => k = key
  BY CastAssumption
<1> HIDE DEF c
<1>3. a \in [K \ {c} -> Elements] /\ K \ {c} \in SUBSET KeyT
  BY <1>1, <1>2 DEF Erase
<1>4. DOMAIN AsKeys(a) = DOMAIN AsKeys(m) \ {key}
  BY <1>1, <1>2, <1>3 DEF AsKeys, c
<1>5. \A k \in DOMAIN AsKeys(a) : AsKeys(a)[k] = AsKeys(m)[k]
  BY <1>1, <1>2, <1>3 DEF AsKeys, Erase, c
<1> HIDE DEF a
<1>6. AsKeys(a) = Store!Without(AsKeys(m), key)
  <2>1. AsKeys(a) = [k \in DOMAIN AsKeys(a) |-> AsKeys(a)[k]]
    BY DEF AsKeys
  <2> QED
    BY <1>4, <1>5, <2>1 DEF Store!Without
<1>7. a \in Maps
  BY <1>3 DEF Maps
<1> QED
  BY <1>6, <1>7 DEF a, c

LEMMA GetElementAsKeys ==
  ASSUME NEW m \in Maps, NEW key \in Keys
  PROVE  /\ GetElement(m, key) \in Maps
         /\ AsKeys(GetElement(m, key)) = Store!Inserted(AsKeys(m), key)
         /\ GetElement(m, key)[Cast[key]] = Store!Inserted(AsKeys(m), key)[key]
<1>1. key \in DOMAIN AsKeys(m) <=> Cast[key] \in DOMAIN m
  BY DEF AsKeys
<1>2. CASE Cast[key] \in DOMAIN m
  BY <1>1, <1>2 DEF GetElement, Store!Inserted, AsKeys
<1>3. CASE Cast[key] \notin DOMAIN m
  <2>1. /\ GetElement(m, key) = Assign(m, Cast[key], Zero)
        /\ Store!Inserted(AsKeys(m), key) = Store!With(AsKeys(m), key, Zero)
    BY <1>1, <1>3 DEF GetElement, Store!Inserted
  <2>2. Assign(m, Cast[key], Zero)[Cast[key]] = Zero
    BY DEF Assign
  <2>3. Store!With(AsKeys(m), key, Zero)[key] = Zero
    BY DEF Store!With
  <2> QED
    BY <2>1, <2>2, <2>3, AssignAsKeys, ZeroAssumption
<1> QED
  BY <1>2, <1>3

-----------------------------------------------------------------------------
(* One call. *)

StoreStep == Store!Next \/ UNCHANGED <<Contents, call>>

LEMMA StopStep ==
  ASSUME IInv, NEW how \in {"aborted", "undefined"}, Stop(how)
  PROVE  IInv' /\ StoreStep
  BY SameStep DEF Stop, StoreStep

LEMMA AllocateStep ==
  ASSUME IInv, NEW d \in Names, Allocate(d)
  PROVE  IInv' /\ StoreStep
<1> DEFINE m == [k \in {} |-> Zero]
<1>1. m \in Maps /\ AsKeys(m) = [k \in {} |-> Zero]
  <2>1. m \in [{} -> Elements]
    OBVIOUS
  <2> QED
    BY <2>1 DEF Maps, AsKeys
<1>2. New(<<"allocate", d>>, d, m) /\ UNCHANGED status
  BY DEF Allocate
<1> HIDE DEF m
<1>3. IInv' /\ call' = <<"allocate", d>> /\ Contents' = [Contents EXCEPT ![d] = AsKeys(m)]
  BY <1>1, <1>2, NewStep
<1>4. Store!Next
  BY <1>1, <1>3 DEF Store!Next, Store!Does, Store!Allocate, Store!Become
<1> QED
  BY <1>3, <1>4 DEF StoreStep

LEMMA DeleteStep ==
  ASSUME IInv, NEW n \in Names, Delete(n)
  PROVE  IInv' /\ StoreStep
<1>1. CASE Stop("undefined") \/ Stop("aborted")
  BY <1>1, StopStep
<1>2. CASE Usable({n}) /\ InPlace(<<"delete", n>>, n, Freed) /\ UNCHANGED status
  <2>1. Bound(n)
    BY DEF Delete, Calls
  <2>2. /\ IInv' /\ call' = <<"delete", n>>
        /\ Contents' = [Contents EXCEPT ![n] = None]
    BY <1>2, <2>1, InPlaceStep DEF AsContents
  <2>3. Contents[n] # None
    BY <1>2, <2>1, LiveIfUsable DEF IInv
  <2>4. Store!Next
    BY <2>2, <2>3 DEF Store!Next, Store!Does, Store!Delete, Store!Live, Store!Become
  <2> QED
    BY <2>2, <2>4 DEF StoreStep
<1> QED
  BY <1>1, <1>2 DEF Delete, Outcome

LEMMA MutAssocWriteStep ==
  ASSUME IInv, NEW n \in Names, NEW key \in Keys, NEW v \in Elements, MutAssocWrite(n, key, v)
  PROVE  IInv' /\ StoreStep
<1> DEFINE m == Assign(map(n), Cast[key], v)
<1>1. CASE Stop("undefined") \/ Stop("aborted")
  BY <1>1, StopStep
<1>2. CASE Usable({n}) /\ InPlace(<<"write", n, n, key, v>>, n, m) /\ UNCHANGED status
  <2>1. Bound(n) /\ map(n) \in Maps
    BY <1>2, MapOfUsable DEF MutAssocWrite, Calls, IInv
  <2>2. m \in Maps /\ AsContents(m) = Store!With(AsKeys(map(n)), key, v)
    BY <2>1, AssignAsKeys, MapsAssumption DEF AsContents
  <2>3. Contents[n] = AsKeys(map(n)) /\ Contents[n] # None
    BY <1>2, <2>1, LiveIfUsable DEF IInv
  <2> HIDE DEF m
  <2>4. /\ IInv' /\ call' = <<"write", n, n, key, v>>
        /\ Contents' = [Contents EXCEPT ![n] = AsContents(m)]
    BY <1>2, <2>1, <2>2, InPlaceStep
  <2>5. Store!Next
    BY <2>2, <2>3, <2>4 DEF Store!Next, Store!Does, Store!Write, Store!Live, Store!Become
  <2> QED
    BY <2>4, <2>5 DEF StoreStep
<1> QED
  BY <1>1, <1>2 DEF MutAssocWrite, Outcome

LEMMA MutAssocInsertStep ==
  ASSUME IInv, NEW n \in Names, NEW key \in Keys, MutAssocInsert(n, key)
  PROVE  IInv' /\ StoreStep
<1> DEFINE m == GetElement(map(n), key)
<1>1. CASE Stop("undefined") \/ Stop("aborted")
  BY <1>1, StopStep
<1>2. CASE Usable({n}) /\ InPlace(<<"insert", n, n, key>>, n, m) /\ UNCHANGED status
  <2>1. Bound(n) /\ map(n) \in Maps
    BY <1>2, MapOfUsable DEF MutAssocInsert, Calls, IInv
  <2>2. m \in Maps /\ AsContents(m) = Store!Inserted(AsKeys(map(n)), key)
    BY <2>1, GetElementAsKeys, MapsAssumption DEF AsContents
  <2>3. Contents[n] = AsKeys(map(n)) /\ Contents[n] # None
    BY <1>2, <2>1, LiveIfUsable DEF IInv
  <2> HIDE DEF m
  <2>4. /\ IInv' /\ call' = <<"insert", n, n, key>>
        /\ Contents' = [Contents EXCEPT ![n] = AsContents(m)]
    BY <1>2, <2>1, <2>2, InPlaceStep
  <2>5. Store!Next
    BY <2>2, <2>3, <2>4
    DEF Store!Next, Store!Does, Store!Insert, Store!Live, Store!Become
  <2> QED
    BY <2>4, <2>5 DEF StoreStep
<1> QED
  BY <1>1, <1>2 DEF MutAssocInsert, Outcome

LEMMA MutAssocRemoveStep ==
  ASSUME IInv, NEW n \in Names, NEW key \in Keys, MutAssocRemove(n, key), IntegerKeys
  PROVE  IInv' /\ StoreStep
<1> DEFINE m == RemoveElement(map(n), key)
<1>1. CASE Stop("undefined") \/ Stop("aborted")
  BY <1>1, StopStep
<1>2. CASE Usable({n}) /\ InPlace(<<"remove", n, n, key>>, n, m) /\ UNCHANGED status
  <2>1. Bound(n) /\ map(n) \in Maps
    BY <1>2, MapOfUsable DEF MutAssocRemove, Calls, IInv
  <2>2. m \in Maps /\ AsContents(m) = Store!Without(AsKeys(map(n)), key)
    BY <2>1, EraseAsKeys, MapsAssumption DEF AsContents, RemoveElement
  <2>3. Contents[n] = AsKeys(map(n)) /\ Contents[n] # None
    BY <1>2, <2>1, LiveIfUsable DEF IInv
  <2> HIDE DEF m
  <2>4. /\ IInv' /\ call' = <<"remove", n, n, key>>
        /\ Contents' = [Contents EXCEPT ![n] = AsContents(m)]
    BY <1>2, <2>1, <2>2, InPlaceStep
  <2>5. Store!Next
    BY <2>2, <2>3, <2>4
    DEF Store!Next, Store!Does, Store!Remove, Store!Live, Store!Become
  <2> QED
    BY <2>4, <2>5 DEF StoreStep
<1> QED
  BY <1>1, <1>2 DEF MutAssocRemove, Outcome

LEMMA AssocInsertStep ==
  ASSUME IInv, NEW d \in Names, NEW n \in Names, NEW key \in Keys, AssocInsert(d, n, key)
  PROVE  IInv' /\ StoreStep
<1> DEFINE m == GetElement(map(n), key)
<1>1. CASE Stop("undefined") \/ Stop("aborted")
  BY <1>1, StopStep
<1>2. CASE Usable({n}) /\ New(<<"insert", d, n, key>>, d, m) /\ UNCHANGED status
  <2>1. Bound(n) /\ map(n) \in Maps
    BY <1>2, MapOfUsable DEF AssocInsert, Calls, IInv
  <2>2. m \in Maps /\ AsKeys(m) = Store!Inserted(AsKeys(map(n)), key)
    BY <2>1, GetElementAsKeys
  <2>3. Contents[n] = AsKeys(map(n)) /\ Contents[n] # None
    BY <1>2, <2>1, LiveIfUsable DEF IInv
  <2> HIDE DEF m
  <2>4. IInv' /\ call' = <<"insert", d, n, key>> /\ Contents' = [Contents EXCEPT ![d] = AsKeys(m)]
    BY <1>2, <2>2, NewStep
  <2>5. Store!Next
    BY <2>2, <2>3, <2>4
    DEF Store!Next, Store!Does, Store!Insert, Store!Live, Store!Become
  <2> QED
    BY <2>4, <2>5 DEF StoreStep
<1> QED
  BY <1>1, <1>2 DEF AssocInsert, Outcome

LEMMA AssocRemoveStep ==
  ASSUME IInv, NEW d \in Names, NEW n \in Names, NEW key \in Keys, AssocRemove(d, n, key),
         IntegerKeys
  PROVE  IInv' /\ StoreStep
<1> DEFINE m == RemoveElement(map(n), key)
<1>1. CASE Stop("undefined") \/ Stop("aborted")
  BY <1>1, StopStep
<1>2. CASE Usable({n}) /\ New(<<"remove", d, n, key>>, d, m) /\ UNCHANGED status
  <2>1. Bound(n) /\ map(n) \in Maps
    BY <1>2, MapOfUsable DEF AssocRemove, Calls, IInv
  <2>2. m \in Maps /\ AsKeys(m) = Store!Without(AsKeys(map(n)), key)
    BY <2>1, EraseAsKeys DEF RemoveElement
  <2>3. Contents[n] = AsKeys(map(n)) /\ Contents[n] # None
    BY <1>2, <2>1, LiveIfUsable DEF IInv
  <2> HIDE DEF m
  <2>4. IInv' /\ call' = <<"remove", d, n, key>> /\ Contents' = [Contents EXCEPT ![d] = AsKeys(m)]
    BY <1>2, <2>2, NewStep
  <2>5. Store!Next
    BY <2>2, <2>3, <2>4
    DEF Store!Next, Store!Does, Store!Remove, Store!Live, Store!Become
  <2> QED
    BY <2>4, <2>5 DEF StoreStep
<1> QED
  BY <1>1, <1>2 DEF AssocRemove, Outcome

\* d is n: the write is in place.
LEMMA AssocWriteStep ==
  ASSUME IInv, NEW n \in Names, NEW key \in Keys, NEW v \in Elements, AssocWrite(n, n, key, v)
  PROVE  IInv' /\ StoreStep
<1> DEFINE m == Assign(map(n), Cast[key], v)
<1>1. CASE Stop("undefined") \/ Stop("aborted")
  BY <1>1, StopStep
<1>2. CASE /\ Usable({n}) /\ UNCHANGED status
           /\ Leaves(<<"write", n, n, key, v>>, [env EXCEPT ![n] = env[n]],
                     [heap EXCEPT ![env[n]] = m])
  <2>1. Bound(n) /\ map(n) \in Maps
    BY <1>2, MapOfUsable DEF AssocWrite, Calls, IInv
  <2>2. m \in Maps /\ AsContents(m) = Store!With(AsKeys(map(n)), key, v)
    BY <2>1, AssignAsKeys, MapsAssumption DEF AsContents
  <2>3. Contents[n] = AsKeys(map(n)) /\ Contents[n] # None
    BY <1>2, <2>1, LiveIfUsable DEF IInv
  <2> HIDE DEF m
  <2>4. [env EXCEPT ![n] = env[n]] = env
    BY DEF IInv, TypeOK
  <2>5. InPlace(<<"write", n, n, key, v>>, n, m)
    BY <1>2, <2>4 DEF InPlace
  <2>6. /\ IInv' /\ call' = <<"write", n, n, key, v>>
        /\ Contents' = [Contents EXCEPT ![n] = AsContents(m)]
    BY <1>2, <2>1, <2>2, <2>5, InPlaceStep
  <2>7. Store!Next
    BY <2>2, <2>3, <2>6 DEF Store!Next, Store!Does, Store!Write, Store!Live, Store!Become
  <2> QED
    BY <2>6, <2>7 DEF StoreStep
<1> QED
  BY <1>1, <1>2 DEF AssocWrite, Outcome

LEMMA AssocReadStep ==
  ASSUME IInv, NEW n \in Names, NEW key \in Keys, AssocRead(n, key)
  PROVE  IInv' /\ StoreStep
<1> DEFINE m == GetElement(map(n), key)
           w == m[Cast[key]]
<1>1. CASE Stop("undefined") \/ Stop("aborted")
  BY <1>1, StopStep
<1>2. CASE /\ Usable({n}) /\ UNCHANGED <<env, status>>
           /\ heap' = [heap EXCEPT ![env[n]] = m] /\ call' = <<"read", n, key, w>>
  <2>1. Bound(n) /\ map(n) \in Maps /\ env[n] \in Objects
    BY <1>2, MapOfUsable DEF AssocRead, Calls, IInv
  <2>2. /\ m \in Maps /\ AsContents(m) = Store!Inserted(AsKeys(map(n)), key)
        /\ w = Store!Inserted(AsKeys(map(n)), key)[key]
    BY <2>1, GetElementAsKeys, MapsAssumption DEF AsContents
  <2>3. Contents[n] = AsKeys(map(n)) /\ Contents[n] # None
    BY <1>2, <2>1, LiveIfUsable DEF IInv
  <2> HIDE DEF m, w
  <2>4. heap \in [Objects -> Maps \cup {Freed}]
    BY DEF IInv, TypeOK
  <2>5. /\ DOMAIN heap' = Objects /\ heap' \in [Objects -> Maps \cup {Freed}]
        /\ \A o \in Objects : heap'[o] = IF o = env[n] THEN m ELSE heap[o]
    BY <1>2, <2>1, <2>2, <2>4
  <2>6. IInv' /\ Contents' = [Contents EXCEPT ![n] = AsContents(m)]
    BY <1>2, <2>1, <2>2, <2>5, ChangeStep
  <2>7. Store!Next
    BY <1>2, <2>2, <2>3, <2>6 DEF Store!Next, Store!Does, Store!Read, Store!Live, Store!Become
  <2> QED
    BY <2>6, <2>7 DEF StoreStep
<1> QED
  BY <1>1, <1>2 DEF AssocRead, Outcome

LEMMA AssocHasStep ==
  ASSUME IInv, NEW n \in Names, NEW key \in Keys, AssocHas(n, key)
  PROVE  IInv' /\ StoreStep
<1>1. CASE Stop("undefined") \/ Stop("aborted")
  BY <1>1, StopStep
<1>2. CASE /\ Usable({n}) /\ UNCHANGED <<env, heap, status>>
           /\ call' = <<"has", n, key, Cast[key] \in DOMAIN map(n)>>
  <2>1. Contents[n] = AsKeys(map(n)) /\ Contents[n] # None
    BY <1>2, LiveIfUsable DEF AssocHas, Calls, IInv
  <2>2. IInv' /\ UNCHANGED Contents
    BY <1>2, SameStep DEF IInv, TypeOK
  <2>3. (Cast[key] \in DOMAIN map(n)) = (key \in DOMAIN Contents[n])
    BY <2>1 DEF AsKeys
  <2>4. Store!Has(n, key, Cast[key] \in DOMAIN map(n))
    BY <2>1, <2>2, <2>3 DEF Store!Has, Store!Live
  <2>5. Store!Next
    BY <1>2, <2>4 DEF Store!Next, Store!Does
  <2> QED
    BY <2>2, <2>5 DEF StoreStep
<1> QED
  BY <1>1, <1>2 DEF AssocHas, Outcome, Returns

LEMMA AssocKeysStep ==
  ASSUME IInv, NEW n \in Names, AssocKeys(n)
  PROVE  IInv' /\ StoreStep
<1> DEFINE ks == {key \in Keys : Cast[key] \in DOMAIN map(n)}
<1>1. CASE Stop("undefined") \/ Stop("aborted")
  BY <1>1, StopStep
<1>2. CASE Usable({n}) /\ UNCHANGED <<env, heap, status>> /\ call' = <<"keys", n, ks>>
  <2>1. Contents[n] = AsKeys(map(n)) /\ Contents[n] # None
    BY <1>2, LiveIfUsable DEF AssocKeys, Calls, IInv
  <2>2. IInv' /\ UNCHANGED Contents
    BY <1>2, SameStep DEF IInv, TypeOK
  <2>3. ks = DOMAIN Contents[n]
    BY <2>1 DEF AsKeys
  <2> HIDE DEF ks
  <2>4. Store!Next
    BY <1>2, <2>1, <2>2, <2>3 DEF Store!Next, Store!Does, Store!KeysOf, Store!Live
  <2> QED
    BY <2>2, <2>4 DEF StoreStep
<1> QED
  BY <1>1, <1>2 DEF AssocKeys, Outcome, Returns

-----------------------------------------------------------------------------
(* The theorems. *)

LEMMA NextStep ==
  ASSUME WritesLinear, IntegerKeys, IInv, Next
  PROVE  IInv' /\ StoreStep
<1>1. CASE Ended
  <2>1. UNCHANGED <<env, heap, call>> /\ status' \in {"running", "aborted", "undefined"}
    BY <1>1 DEF Ended, vars, IInv, TypeOK
  <2> QED
    BY <2>1, SameStep DEF StoreStep
<1>2. ASSUME NEW n \in Names, Common(n)
      PROVE  IInv' /\ StoreStep
  BY <1>2, AllocateStep, DeleteStep, AssocKeysStep, AssocReadStep, AssocHasStep DEF Common
<1>3. ASSUME NEW n \in Names, MutOp(n)
      PROVE  IInv' /\ StoreStep
  BY <1>3, MutAssocWriteStep, MutAssocInsertStep, MutAssocRemoveStep DEF MutOp
<1>4. ASSUME NEW n \in Names, SSAOp(n)
      PROVE  IInv' /\ StoreStep
  <2>1. PICK key \in Keys :
          \/ \E v \in Elements, d \in Targets("write", n) : AssocWrite(d, n, key, v)
          \/ \E d \in Targets("insert", n) : AssocInsert(d, n, key)
          \/ \E d \in Targets("remove", n) : AssocRemove(d, n, key)
    BY <1>4 DEF SSAOp
  <2>2. \A op : Targets(op, n) \subseteq Names
    BY DEF Targets
  <2>3. ASSUME NEW v \in Elements, NEW d \in Targets("write", n), AssocWrite(d, n, key, v)
        PROVE  IInv' /\ StoreStep
    <3>1. d = n
      BY <2>3 DEF AssocWrite, Calls, WritesLinear, Targets
    <3> QED
      BY <2>3, <3>1, AssocWriteStep
  <2>4. ASSUME NEW d \in Targets("insert", n), AssocInsert(d, n, key)
        PROVE  IInv' /\ StoreStep
    BY <2>2, <2>4, AssocInsertStep
  <2>5. ASSUME NEW d \in Targets("remove", n), AssocRemove(d, n, key)
        PROVE  IInv' /\ StoreStep
    BY <2>2, <2>5, AssocRemoveStep
  <2> QED
    BY <2>1, <2>3, <2>4, <2>5
<1> QED
  BY <1>1, <1>2, <1>3, <1>4 DEF Next

LEMMA InitStep ==
  ASSUME Init
  PROVE  IInv /\ Store!Init
<1>1. IInv
  BY DEF Init, IInv, TypeOK, NoSharing, Bound
<1>2. Contents = [n \in Names |-> None]
  BY DEF Init, Contents, Held, Bound
<1> QED
  BY <1>1, <1>2 DEF Init, Store!Init

LEMMA Invariance ==
  ASSUME WritesLinear, IntegerKeys
  PROVE  Spec => []IInv
<1>1. Init => IInv
  BY InitStep
<1>2. IInv /\ [Next]_vars => IInv'
  <2> SUFFICES ASSUME IInv, [Next]_vars
               PROVE  IInv'
    OBVIOUS
  <2>1. CASE Next
    BY <2>1, NextStep
  <2>2. CASE UNCHANGED vars
    BY <2>2, SameStep DEF vars, IInv, TypeOK
  <2> QED
    BY <2>1, <2>2
<1> QED
  BY <1>1, <1>2, PTL DEF Spec

\* Variables point to objects, and objects that were not deleted hold maps, whatever
\* the runtime library's operations on associative arrays are called on.
THEOREM TypeCorrect ==
  ASSUME WritesLinear, IntegerKeys
  PROVE  Spec => []TypeOK
<1>1. IInv => TypeOK
  BY DEF IInv
<1> QED
  BY <1>1, Invariance, PTL

\* No two variables share an associative array.
THEOREM NothingIsShared ==
  ASSUME WritesLinear, IntegerKeys
  PROVE  Spec => []NoSharing
<1>1. IInv => NoSharing
  BY DEF IInv
<1> QED
  BY <1>1, Invariance, PTL

\* Each operation of the runtime library on associative arrays does to the contents
\* what its name says, and leaves every other variable what it holds.
THEOREM StoreIsImplemented ==
  ASSUME WritesLinear, IntegerKeys
  PROVE  Spec => ImplementsStore
<1>1. Init => Store!Init
  BY InitStep
<1>2. IInv /\ [Next]_vars => [Store!Next]_<<Contents, call>>
  <2> SUFFICES ASSUME IInv, [Next]_vars
               PROVE  [Store!Next]_<<Contents, call>>
    OBVIOUS
  <2>1. CASE Next
    BY <2>1, NextStep DEF StoreStep
  <2>2. CASE UNCHANGED vars
    BY <2>2, SameStep DEF vars, IInv, TypeOK
  <2> QED
    BY <2>1, <2>2
<1> QED
  BY <1>1, <1>2, Invariance, PTL DEF Spec, ImplementsStore, Store!Spec
=============================================================================
