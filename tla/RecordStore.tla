---------------------------- MODULE RecordStore ----------------------------
(***************************************************************************)
(* What a struct promises: its fields are numbers that are written and     *)
(* read one by one, and a write changes no field but its own.              *)
(***************************************************************************)
EXTENDS Integers

CONSTANT None     \* there is no object yet

VARIABLES
  record,     \* the number every field holds
  call        \* the access made last: operation, field, number

Init == record = None /\ call = <<"init">>

\* A new object's fields hold anything.
Allocate(n) == record = None /\ record' \in [1 .. n -> Int]

Write(i, v) == record # None /\ i \in DOMAIN record /\ record' = [record EXCEPT ![i] = v]

Read(i, v) == record # None /\ i \in DOMAIN record /\ v = record[i] /\ UNCHANGED record

Next ==
  \/ call'[1] = "allocate" /\ Allocate(call'[2])
  \/ call'[1] = "write" /\ Write(call'[2], call'[3])
  \/ call'[1] = "read"  /\ Read(call'[2], call'[3])

Spec == Init /\ [][Next]_<<record, call>>
=============================================================================
