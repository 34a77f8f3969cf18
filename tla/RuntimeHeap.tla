---------------------------- MODULE RuntimeHeap ----------------------------
(***************************************************************************)
(* What all operations of the runtime library have in common: the objects  *)
(* on the heap, the variables of the calling program that point to them,   *)
(* and how a call can end (runtime/src, runtime/include/internal.h).       *)
(*                                                                         *)
(* A program calls the MUT_FUNC functions, which work in place, and the    *)
(* MEMOIR_FUNC functions, which return a collection that the program gives *)
(* a variable.                                                             *)
(*                                                                         *)
(* A failed MEMOIR_ASSERT ends the program (exit).  Leaving the bounds of  *)
(* a std::vector or using a deleted object is undefined behaviour, after   *)
(* which nothing is promised.                                              *)
(***************************************************************************)
EXTENDS Naturals, Sequences, FiniteSets

CONSTANTS
  Names,      \* the variables of the calling program
  Objects,    \* enough of them for the variables and two results
  Elements,   \* what a collection holds
  Zero,       \* what collections are filled with
  None,       \* the variable points to nothing yet
  Freed,      \* the object was deleted
  Ops,        \* the operations the program calls, a MUT_FUNC by the name "mut_..."
  Linear      \* of those, the ones whose operand it does not look at again

ASSUME LinearAssumption == Linear \subseteq Ops
ASSUME ZeroAssumption == Zero \in Elements
ASSUME ObjectsAssumption ==
  /\ IsFiniteSet(Names) /\ IsFiniteSet(Objects)
  /\ Cardinality(Objects) >= Cardinality(Names) + 2
  /\ None \notin Objects

VARIABLES
  env,     \* the object each variable points to, or None
  heap,    \* what each object holds, or Freed
  status,  \* "running", "aborted" or "undefined"
  call     \* the call made last: <<operation, arguments ..., what it returned>>

vars == <<env, heap, status, call>>

\* Objects for the results of an operation.
Fresh  == CHOOSE o \in Objects : \A n \in Names : env[n] # o
Fresh2 == CHOOSE o \in Objects \ {Fresh} : \A n \in Names : env[n] # o

Bound(n)  == env[n] # None
object(n) == heap[env[n]]
\* The objects of these variables have not been deleted.
Usable(ns) == \A n \in ns : object(n) # Freed

\* The program calls op on the objects of these variables.
Calls(op, ns) == status = "running" /\ op \in Ops /\ \A n \in ns : Bound(n)

Stop(how) == status' = how /\ UNCHANGED <<env, heap, call>>

\* One call: the objects exist, the assertions hold, the iterators are in bounds.
Outcome(usable, asserted, inside, effect) ==
  \/ ~usable /\ Stop("undefined")
  \/ usable /\ ~asserted /\ Stop("aborted")
  \/ usable /\ asserted /\ ~inside /\ Stop("undefined")
  \/ usable /\ asserted /\ inside /\ effect /\ UNCHANGED status

\* The call r leaves these variables and objects.  What no variable points to any
\* more has leaked: it is as good as freed, and its number is used again.
Leaves(r, e, h) ==
  /\ call' = r /\ env' = e
  /\ heap' = [o \in Objects |-> IF \E n \in Names : e[n] = o THEN h[o] ELSE Freed]

InPlace(r, n, x) == Leaves(r, env, [heap EXCEPT ![env[n]] = x])
New(r, d, x) == Leaves(r, [env EXCEPT ![d] = Fresh], [heap EXCEPT ![Fresh] = x])
Returns(r) == call' = r /\ UNCHANGED <<env, heap>>

\* The variables that may be given what op makes of n.
Targets(op, n) == IF op \in Linear THEN {n} ELSE Names

Init ==
  /\ env = [n \in Names |-> None] /\ heap = [o \in Objects |-> Freed]
  /\ status = "running" /\ call = <<"init">>

Delete(n) ==
  /\ Calls("delete", {n})
  /\ Outcome(Usable({n}), TRUE, TRUE, InPlace(<<"delete", n>>, n, Freed))

Ended == status # "running" /\ UNCHANGED vars

(***************************************************************************)
(* No operation makes two variables share an object: what a later          *)
(* operation in place does to one of them cannot show in the other.        *)
(***************************************************************************)
NoSharing == \A n, x \in Names : n # x /\ Bound(n) => env[n] # env[x]

\* What the variables hold, as their program sees it.
Held == [n \in Names |-> IF Bound(n) /\ Usable({n}) THEN object(n) ELSE None]
=============================================================================
