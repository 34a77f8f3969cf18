------------------------- MODULE MCRuntimeSequences -------------------------
(* Instances of RuntimeSequences for TLC. *)
EXTENDS RuntimeSequences, TLC

CONSTANTS x1, x2, o1, o2, o3, o4

ShortNames == {x1, x2}
FewObjects == {o1, o2, o3, o4}

AllOps ==
  {"allocate", "delete", "read", "size",
   "mut_write", "mut_insert", "mut_insert_seq", "mut_remove", "mut_append", "mut_swap",
   "mut_swap_within", "mut_split",
   "write", "insert", "insert_seq", "remove", "copy", "swap", "swap_within"}
\* The two that change their operand.
Destructive == {"write", "copy"}

CopyOnly == {"allocate", "copy"}

Symmetric == Permutations(ShortNames) \cup Permutations(FewObjects)
\* No operation depends on the result of an earlier one.
Seen == <<env, heap, status>>
=============================================================================
