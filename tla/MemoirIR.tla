------------------------------ MODULE MemoirIR ------------------------------
(***************************************************************************)
(* The part of LLVM and MEMOIR IR that the collection passes look at.      *)
(*                                                                         *)
(* A function is a control-flow graph over blocks 1 .. Len(succ) with      *)
(* entry block 1, a sequence of instructions per block, the PHI nodes of   *)
(* collection type the front end left in it, and its collection-typed      *)
(* arguments.  An instruction is                                           *)
(*     [op |-> operation, def |-> name or NoName, c |-> names]             *)
(* where c lists its collection operands.  Indices, keys and stored values *)
(* are not represented: an instruction's position stands for them.         *)
(*                                                                         *)
(* The dominator tree and dominance frontier are LLVM's (external): they   *)
(* are given here by their textbook definitions.                           *)
(***************************************************************************)
EXTENDS Naturals, Sequences, FiniteSets

CONSTANT NoName     \* the instruction defines no collection

(***************************************************************************)
(* Operations, by the wrapper class that Instructions.hpp and              *)
(* MutOperations.hpp give them.                                            *)
(***************************************************************************)
ReadOps  == {"IndexRead", "AssocRead", "IndexGet", "AssocGet"}
\* Mutators of one collection whose SSA form defines one new version of it.
WriteOps == {"MutIndexWrite", "MutAssocWrite", "MutSeqInsert", "MutSeqRemove",
             "MutSeqSwapWithin", "MutAssocInsert", "MutAssocRemove"}
\* Mutators that take a second collection.
PairOps  == {"MutSeqInsertSeq", "MutSeqAppend", "MutSeqSwap"}
MutOps   == WriteOps \cup PairOps \cup {"MutSeqSplit", "MutStructWrite"}

-----------------------------------------------------------------------------
(* The control-flow graph of a function P. *)

Blocks(P) == 1 .. Len(P.succ)
Preds(P, b) == {p \in Blocks(P) : b \in P.succ[p]}

\* S holds the entry and what it can reach, unless a path enters block avoid.
ClosedFrom(P, avoid, S) ==
  /\ 1 # avoid => 1 \in S
  /\ \A p \in S : \A b \in Blocks(P) : b \in P.succ[p] /\ b # avoid => b \in S

\* The blocks a path from the entry can reach without entering block avoid.
ReachAvoiding(P, avoid) ==
  {b \in Blocks(P) : \A S \in SUBSET Blocks(P) : ClosedFrom(P, avoid, S) => b \in S}

\* Dominators(P)[b] is the set of blocks that dominate b.
Dominators(P) ==
  [b \in Blocks(P) |-> {a \in Blocks(P) : b \notin ReachAvoiding(P, a)}]

\* Cytron et al.: b dominates a predecessor of y but not strictly y itself.
Frontier(P, dom, b) ==
  {y \in Blocks(P) : /\ \E p \in Preds(P, y) : b \in dom[p]
                     /\ ~(b # y /\ b \in dom[y])}

\* The immediate dominator of b # 1: its strict dominator that all the others dominate.
IDom(dom, b) ==
  CHOOSE a \in dom[b] \ {b} : dom[b] \ {b} \subseteq dom[a]

(***************************************************************************)
(* The blocks a depth-first preorder of the dominator tree can come to     *)
(* after last, when seen are the blocks it came to: an unseen child of the *)
(* deepest ancestor of last that has one.  LLVM fixes no order among the   *)
(* children of a node.                                                     *)
(***************************************************************************)
NextInPreorder(P, dom, seen, last) ==
  LET open == {b \in Blocks(P) \ seen : IDom(dom, b) \in dom[last]}
  IN  {b \in open : \A c \in open : IDom(dom, c) \in dom[IDom(dom, b)]}

-----------------------------------------------------------------------------
(***************************************************************************)
(* Values.  Every collection value belongs to the web of one source name:  *)
(* "src" is the name itself, "ssa" the version an instruction of the pass  *)
(* defines, "copy" the part that a split copies out, "use" a use-PHI and   *)
(* "phi" an inserted PHI.  blk and idx locate the source instruction the   *)
(* value is defined at (idx 0 for a PHI, blk 0 for an argument).           *)
(***************************************************************************)
Val(k, n, b, i) == [kind |-> k, web |-> n, blk |-> b, idx |-> i]

\* The positions in block b that define name n.
DefsIn(P, b, n) == {i \in 1 .. Len(P.code[b]) : P.code[b][i].def = n}

\* Where source name n is defined: <<block, index>>, <<0, 0>> for an argument.
DefPos(P, n) ==
  IF n \in P.args THEN <<0, 0>>
  ELSE IF \E b \in Blocks(P) : \E q \in P.phis[b] : q.def = n
  THEN <<CHOOSE b \in Blocks(P) : \E q \in P.phis[b] : q.def = n, 0>>
  ELSE LET b == CHOOSE x \in Blocks(P) : DefsIn(P, x, n) # {}
       IN  <<b, CHOOSE i \in DefsIn(P, b, n) : TRUE>>

Src(P, n) == Val("src", n, DefPos(P, n)[1], DefPos(P, n)[2])

\* llvm's nullptr where a value is expected.
Null == Val("null", NoName, 0, 0)

(***************************************************************************)
(* DominatorTree::dominates(Def, User) of LLVM.  A point is <<block, idx>>;*)
(* idx 0 is a PHI (a value of the same block never dominates a PHI use) and*)
(* Terminator(P, b) the end of the block.  Arguments dominate everything.  *)
(***************************************************************************)
Terminator(P, b) == <<b, Len(P.code[b]) + 1>>

IsArgument(v) == v.kind = "src" /\ v.blk = 0

Dominates(dom, v, pt) ==
  \/ v.blk = pt[1] /\ v.idx < pt[2]
  \/ v.blk # pt[1] /\ v.blk \in dom[pt[1]]

InCode(P) ==
  UNION {{P.code[b][i].def : i \in 1 .. Len(P.code[b])} : b \in Blocks(P)}
InPHIs(P) == UNION {{q.def : q \in P.phis[b]} : b \in Blocks(P)}
Names(P)  == (P.args \cup InCode(P) \cup InPHIs(P)) \ {NoName}

(***************************************************************************)
(* What LLVM's verifier and the passes run before (dead blocks removed,    *)
(* critical edges split) guarantee of the function a pass is handed: the   *)
(* entry has neither predecessor nor PHI, every block is reachable, a name *)
(* has one definition, a PHI one incoming value per predecessor, an        *)
(* operation the operands of its signature, and every use of a collection  *)
(* is dominated by its definition.                                         *)
(***************************************************************************)
StrictUse(P, dom, n, pt) ==
  /\ n \in Names(P)
  /\ IsArgument(Src(P, n)) \/ Dominates(dom, Src(P, n), pt)

WellShaped(P) ==
  /\ P.succ \in Seq(SUBSET Nat) /\ P.succ # << >>
  /\ \A b \in Blocks(P) : P.succ[b] \subseteq Blocks(P) \ {1}
  /\ Blocks(P) \subseteq ReachAvoiding(P, 0)
  /\ DOMAIN P.code = Blocks(P) /\ DOMAIN P.phis = Blocks(P) /\ P.phis[1] = {}
  /\ \A b \in Blocks(P) : \A q \in P.phis[b] : DOMAIN q.in = Preds(P, b)

WellTyped(P) ==
  \A b \in Blocks(P) :
    /\ P.code[b] \in Seq([op : STRING, def : Names(P) \cup {NoName}, c : Seq(Names(P))])
    /\ \A i \in 1 .. Len(P.code[b]) :
         LET x == P.code[b][i]
         IN  /\ x.op \in ReadOps \cup WriteOps \cup {"MutSeqSplit", "AssocHas"} => Len(x.c) = 1
             /\ x.op \in PairOps => Len(x.c) = 2
             /\ x.op = "MutSeqSplit" => x.def # NoName

SingleDefs(P) ==
  /\ \A b \in Blocks(P) : \A i \in 1 .. Len(P.code[b]) :
       P.code[b][i].def # NoName => DefPos(P, P.code[b][i].def) = <<b, i>>
  /\ \A b \in Blocks(P) : \A q \in P.phis[b] :
       /\ q.def # NoName /\ DefPos(P, q.def) = <<b, 0>>
       /\ \A r \in P.phis[b] : r.def = q.def => r = q
  /\ NoName \notin P.args /\ IsFiniteSet(P.args)

Strict(P, dom) ==
  /\ \A b \in Blocks(P) : \A i \in 1 .. Len(P.code[b]) :
       \A j \in 1 .. Len(P.code[b][i].c) :
          StrictUse(P, dom, P.code[b][i].c[j], <<b, i>>)
  /\ \A b \in Blocks(P) : \A q \in P.phis[b] : \A p \in Preds(P, b) :
       StrictUse(P, dom, q.in[p], Terminator(P, p))

WellFormed(P) ==
  WellShaped(P) /\ WellTyped(P) /\ SingleDefs(P) /\ Strict(P, Dominators(P))
=============================================================================
