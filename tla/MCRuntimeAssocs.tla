-------------------------- MODULE MCRuntimeAssocs --------------------------
(* Instances of RuntimeAssocs for TLC. *)
EXTENDS RuntimeAssocs, TLC

CONSTANTS x1, x2, x3, o1, o2, o3, o4, o5, k1, k2, k3

FewNames   == {x1, x2, x3}
FewObjects == {o1, o2, o3, o4, o5}
FewKeys    == {k1, k2, k3}
CastKeys   == k1 :> 1 @@ k2 :> 2 @@ k3 :> 3

AllOps ==
  {"allocate", "delete", "read", "has", "keys", "mut_write", "mut_insert", "mut_remove",
   "write", "insert", "remove"}
\* It changes its operand.
Destructive == {"write"}

Symmetric == Permutations(FewNames) \cup Permutations(FewObjects)
\* No operation depends on the result of an earlier one.
Seen == <<env, heap, status>>
=============================================================================
