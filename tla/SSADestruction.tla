--------------------------- MODULE SSADestruction ---------------------------
(***************************************************************************)
(* The SSA destruction pass on one function: every version of a collection *)
(* goes back to the collection it is a version of, and the immutable       *)
(* operations become mutators (-disable-collection-lowering) or calls of   *)
(* the functions that implement the collection (the default).              *)
(*                                                                         *)
(* An instruction is [form, op, def, c, x]: form is "ssa" for one of the   *)
(* input, "mut" for a mutator and "impl" for a call of an implementation;  *)
(* c are its collection operands (the base first) and x its indices.  The  *)
(* operands of types, keys and values the passes only copy are left out.   *)
(***************************************************************************)
EXTENDS MemoirIR, SequencesExt

CONSTANTS
  Programs,     \* the functions in SSA form the pass may be given
  Opaque        \* an index operand the pass does not look at

VARIABLES
  fn,           \* [P, dom, lower, impls]: the function and the options of the run
  stage,        \* "visit", "coalesce", "find", "cleanup", "done", "unreachable"
  seen,         \* the blocks the traversal has come to
  blk, pos,     \* the instruction in hand
  code, phis,   \* the function as rewritten so far
  coalesced,    \* coalesced_values
  replaced,     \* replaced_values
  marked,       \* instructions_to_delete, by the value they define
  erased,       \* what cleanup erased of them
  ptr           \* replacement_value, the local of find_replacement

maps  == <<coalesced, replaced, marked, erased>>
vars  == <<fn, stage, seen, blk, pos, code, phis, coalesced, replaced, marked, erased, ptr>>

-----------------------------------------------------------------------------
(* Values: those of the input, the sizes an End turns into, what calls return. *)

Value == [name : STRING \cup {NoName}, size : Nat, impl : BOOLEAN]
SSAVal(n)  == [name |-> n, size |-> 0, impl |-> FALSE]
SizeAt(v, j) == [name |-> v.name, size |-> j, impl |-> FALSE]
ImplOf(v)  == [v EXCEPT !.impl = TRUE]
NoValue    == SSAVal(NoName)

\* PHIs that only rename a collection.
RenamingOps == {"UsePHI", "DefPHI", "ArgPHI", "RetPHI"}

\* Visitors that write the collection's new version over the operand.
OverOperand == {"IndexWrite", "AssocWrite", "AssocInsert", "AssocRemove", "SeqSwapWithin"}
\* Visitors that continue with what the implementation returns.
Returning ==
  {"SeqAlloc", "AssocAlloc", "SeqInsert", "SeqInsertSeq", "SeqRemove", "SeqCopy", "AssocKeys",
   "Size", "IndexRead", "IndexGet", "AssocRead", "AssocGet", "AssocHas"}
LoweredOps == OverOperand \cup Returning \cup {"SeqSwap", "Delete"}
\* What the pass leaves alone, and the rest of the instructions on collections.
LeftOps == {"Extract0", "Extract1", "MutCall", "Call", "Return"}
Operations == LoweredOps \cup RenamingOps \cup LeftOps \cup {"End"}
\* A missing implementation of these is MEMOIR_UNREACHABLE, of the others a warning.
Demanded == {"SeqAlloc", "AssocAlloc", "IndexRead", "IndexGet", "IndexWrite"}

\* What becomes a mutator when collections are not lowered.
MutatedOps ==
  {"IndexWrite", "AssocWrite", "SeqInsert", "SeqInsertSeq", "SeqRemove", "SeqSwapWithin", "SeqSwap"}

\* The users of an End that contextualize_end knows.
EndUsers == {"SeqInsert", "SeqInsertSeq", "SeqRemove", "SeqCopy", "SeqSwap", "SeqSwapWithin"}

-----------------------------------------------------------------------------
(* The function being rewritten. *)

Here == code[blk][pos]

Positions == UNION {{<<b, i>> : i \in DOMAIN code[b]} : b \in DOMAIN code}
At(p) == code[p[1]][p[2]]

\* The places that use value v: <<block, index, operand>>, index 0 for a PHI.
IndexUses(v) ==
  UNION {{<<p[1], p[2], j>> : j \in {k \in DOMAIN At(p).x : At(p).x[k] = v}} : p \in Positions}
UsedByPHI(v) == \E b \in Blocks(fn.P) : \E q \in phis[b] : \E p \in DOMAIN q.in : q.in[p] = v

InsertBefore(b, i, inst) == [code EXCEPT ![b] = InsertAt(@, i, inst)]

\* Value::replaceAllUsesWith.
ReplaceUses(v, w) ==
  LET Sub(s) == [k \in DOMAIN s |-> IF s[k] = v THEN w ELSE s[k]]
  IN  /\ code' = [b \in DOMAIN code |->
                    [i \in DOMAIN code[b] |->
                       [code[b][i] EXCEPT !.c = Sub(@), !.x = Sub(@)]]]
      /\ phis' = [b \in DOMAIN phis |-> {[q EXCEPT !.in = Sub(@)] : q \in phis[b]}]

\* The map with the pairs of g added.
Coalesce(g) == coalesced' = [v \in DOMAIN coalesced \cup DOMAIN g |->
                               IF v \in DOMAIN g THEN g[v] ELSE coalesced[v]]
Mark(S) == marked' = marked \cup S

-----------------------------------------------------------------------------
(***************************************************************************)
(* SSA form: a value has one definition, which dominates its uses, except  *)
(* that a PHI uses its operands where it comes from.  Ahead counts the     *)
(* places that come before a definition on every path to it; operands      *)
(* have less of them ahead than what is made from them.                    *)
(***************************************************************************)
Inst == [form : {"ssa", "mut", "impl"}, op : Operations, def : Value, c : Seq(Value), x : Seq(Value)]

IsPoint(P, pt) == pt[1] \in Blocks(P) /\ pt[2] \in 0 .. Len(P.code[pt[1]])

DefPoints(P, v) ==
  UNION {{<<b, i>> : i \in {k \in DOMAIN P.code[b] : P.code[b][k].def = v}} : b \in Blocks(P)}
    \cup {<<b, 0>> : b \in {k \in Blocks(P) : \E q \in P.phis[k] : q.def = v}}

Ahead(P, dom, v) ==
  Cardinality(UNION {{<<b, i>> : i \in {k \in 0 .. Len(P.code[b]) :
      \E d \in DefPoints(P, v) : IF b = d[1] THEN k < d[2] ELSE b \in dom[d[1]]}} : b \in Blocks(P)})

Defined(P, dom, v, pt) ==
  \/ v \in P.args
  \/ \E d \in DefPoints(P, v) : IF d[1] = pt[1] THEN d[2] < pt[2] ELSE d[1] \in dom[pt[1]]

IsInput(v) == v.size = 0 /\ ~v.impl

\* An operation has the collections its visitor looks at.
Applied(I) ==
  /\ I.c = << >> => I.op \in {"SeqAlloc", "AssocAlloc", "End", "Call", "Return"}
  /\ I.op = "SeqSwap" => Len(I.c) = 2

SSAForm(P, dom) ==
  /\ P.succ \in Seq(SUBSET Nat) /\ P.succ # << >>
  /\ \A b \in Blocks(P) : P.succ[b] \subseteq Blocks(P) \ {1}
  /\ P.code \in [Blocks(P) -> Seq(Inst)] /\ DOMAIN P.phis = Blocks(P)
  /\ P.args \subseteq Value /\ Opaque \in Value
  /\ \A b \in Blocks(P) : P.phis[b] \subseteq [def : Value, in : [Preds(P, b) -> Value]]
  /\ \A b \in Blocks(P) : \A q \in P.phis[b] :
       /\ DefPoints(P, q.def) = {<<b, 0>>}
       /\ \A p \in Preds(P, b) : Defined(P, dom, q.in[p], Terminator(P, p))
  /\ \A b \in Blocks(P) : \A i \in DOMAIN P.code[b] :
       LET I == P.code[b][i]
       IN  /\ I.form = "ssa" /\ DefPoints(P, I.def) = {<<b, i>>}
           /\ \A v \in {I.def} \cup Range(I.c) : IsInput(v) /\ Ahead(P, dom, v) \in Nat
           /\ \A v \in Range(I.c) \cup (Range(I.x) \ {Opaque}) : Defined(P, dom, v, <<b, i>>)
           /\ \A v \in Range(I.c) : Ahead(P, dom, v) < Ahead(P, dom, I.def)
           /\ Applied(I)

ASSUME SSAFormAssumption == \A P \in Programs : SSAForm(P, Dominators(P)) /\ P.impls \subseteq LoweredOps

-----------------------------------------------------------------------------
(* visit: one instruction at a time, in a preorder of the dominator tree. *)

Visiting(op) == stage = "visit" /\ pos <= Len(code[blk]) /\ Here.form = "ssa" /\ Here.op \in op

Advance(n) == pos' = pos + n /\ UNCHANGED <<fn, stage, seen, blk, replaced, erased, ptr>>

Unreachable ==
  /\ stage' = "unreachable"
  /\ UNCHANGED <<fn, seen, blk, pos, code, phis, maps, ptr>>

\* Mutant of Halves: only the first half is looked for.
FirstHalves(pair) == {p \in Positions : At(p).op = "Extract0" /\ At(p).c[1] = pair}

\* The instructions that take one half of the pair a swap defines.
Halves(pair) == {p \in Positions : At(p).op \in {"Extract0", "Extract1"} /\ At(p).c[1] = pair}

\* A user of the pair that is no extraction.
PairUsedWhole(pair) ==
  \/ UsedByPHI(pair)
  \/ \E p \in Positions : At(p).op \notin {"Extract0", "Extract1"} /\ pair \in Range(At(p).c) \cup Range(At(p).x)

\* What the result of a rewritten operation I is from now on.
Replacement(I, form) ==
  IF I.op = "SeqSwap"
  THEN [v \in {At(p).def : p \in Halves(I.def)} |->
          I.c[IF \E p \in Halves(I.def) : At(p).def = v /\ At(p).op = "Extract0" THEN 1 ELSE 2]]
  ELSE IF I.op = "Delete" THEN << >>
  ELSE [v \in {I.def} |-> IF form = "mut" \/ I.op \in OverOperand THEN I.c[1] ELSE ImplOf(v)]

\* A mutator or a call goes in front of the operation, which is to be erased.
Rewrite(form) ==
  LET I == Here
  IN  /\ code' = InsertBefore(blk, pos,
                   [I EXCEPT !.form = form, !.def = ImplOf(@)])
      /\ Coalesce(Replacement(I, form))
      /\ Mark({I.def} \cup DOMAIN Replacement(I, form))
      /\ Advance(2)
      /\ UNCHANGED phis

VisitMutated ==
  /\ Visiting(MutatedOps) /\ ~fn.lower
  /\ Rewrite("mut")

VisitLowered ==
  /\ Visiting(LoweredOps) /\ fn.lower /\ Here.op \in fn.impls
  /\ Here.op = "SeqSwap" => ~PairUsedWhole(Here.def)
  /\ Rewrite("impl")

\* MEMOIR_UNREACHABLE: no implementation, or the pair of a swap is used other than by halves.
VisitUnlowerable ==
  /\ Visiting(LoweredOps) /\ fn.lower
  /\ \/ Here.op \in Demanded \ fn.impls
     \/ Here.op = "SeqSwap" /\ Here.op \in fn.impls /\ PairUsedWhole(Here.def)
  /\ Unreachable

\* Nothing to do, or only a warning that the implementation is missing.
VisitLeft ==
  /\ stage = "visit" /\ pos <= Len(code[blk])
  /\ \/ Here.form # "ssa"
     \/ Here.op \in LeftOps
     \/ fn.lower /\ Here.op \in LoweredOps \ (fn.impls \cup Demanded)
     \/ ~fn.lower /\ Here.op \in LoweredOps \ MutatedOps
  /\ Advance(1)
  /\ UNCHANGED <<code, phis, coalesced, marked>>

VisitRenaming ==
  /\ Visiting(RenamingOps)
  /\ Coalesce([v \in {Here.def} |-> Here.c[1]])
  /\ Mark({Here.def})
  /\ Advance(1)
  /\ UNCHANGED <<code, phis>>

\* Mutant of EndOf: the base collection's, also of a swap.
EndOfBase(I, j) == I.c[1]

\* The collection whose end operand j of I means: only a swap has a second one.
EndOf(I, j) == IF I.op = "SeqSwap" /\ j > 2 THEN I.c[2] ELSE I.c[1]

(***************************************************************************)
(* An End has no collection of its own: its user's size takes its place.   *)
(* Use::set moves the use to the list of uses of the size, where the loop  *)
(* over the uses of the End goes on and finds no more: one use, the first  *)
(* of an order nobody fixes, is rewritten.                                 *)
(***************************************************************************)
VisitEnd ==
  /\ Visiting({"End"})
  /\ IF IndexUses(Here.def) = {}
     THEN ~UsedByPHI(Here.def) /\ code' = code
     ELSE \E u \in IndexUses(Here.def) :
            LET I    == code[u[1]][u[2]]
                size == SizeAt(I.def, u[3])
            IN  /\ I.op \in EndUsers
                /\ code' = [code EXCEPT ![u[1]] =
                              InsertAt([@ EXCEPT ![u[2]].x[u[3]] = size], u[2],
                                [form |-> "ssa", op |-> "Size", def |-> size,
                                 c |-> <<EndOf(I, u[3])>>, x |-> << >>])]
  /\ Mark({Here.def})
  /\ Advance(1)
  /\ UNCHANGED <<phis, coalesced>>

\* MEMOIR_UNREACHABLE: the use found first is a PHI, a call or another operation.
VisitEndUnsupported ==
  /\ Visiting({"End"})
  /\ \/ UsedByPHI(Here.def)
     \/ \E u \in IndexUses(Here.def) : code[u[1]][u[2]].op \notin EndUsers
  /\ Unreachable

NextBlock ==
  /\ stage = "visit" /\ pos > Len(code[blk])
  /\ LET next == NextInPreorder(fn.P, fn.dom, seen, blk)
     IN  IF next = {}
         THEN stage' = "coalesce" /\ blk' = 1 /\ seen' = seen
         ELSE stage' = stage /\ blk' \in next /\ seen' = seen \cup {blk'}
  /\ pos' = 1
  /\ UNCHANGED <<fn, code, phis, maps, ptr>>

-----------------------------------------------------------------------------
(* do_coalesce: for every instruction, in the order of the layout. *)

\* Mutant of CoalesceSkip: one block too many.
CoalesceSkipPastLast ==
  /\ stage = "coalesce"
  /\ IF pos <= Len(code[blk])
     THEN Here.def \notin DOMAIN coalesced /\ pos' = pos + 1 /\ UNCHANGED <<stage, blk>>
     ELSE IF blk <= Len(fn.P.succ)
     THEN blk' = blk + 1 /\ pos' = 1 /\ stage' = stage
     ELSE stage' = "cleanup" /\ UNCHANGED <<blk, pos>>
  /\ UNCHANGED <<fn, seen, code, phis, maps, ptr>>

\* The instruction in hand has nothing to be replaced by, or the block is done.
CoalesceSkip ==
  /\ stage = "coalesce"
  /\ IF pos <= Len(code[blk])
     THEN Here.def \notin DOMAIN coalesced /\ pos' = pos + 1 /\ UNCHANGED <<stage, blk>>
     ELSE IF blk < Len(fn.P.succ)
     THEN blk' = blk + 1 /\ pos' = 1 /\ stage' = stage
     ELSE stage' = "cleanup" /\ UNCHANGED <<blk, pos>>
  /\ UNCHANGED <<fn, seen, code, phis, maps, ptr>>

CoalesceFind ==
  /\ stage = "coalesce" /\ pos <= Len(code[blk]) /\ Here.def \in DOMAIN coalesced
  /\ stage' = "find" /\ ptr' = coalesced[Here.def]
  /\ UNCHANGED <<fn, seen, blk, pos, code, phis, maps>>

\* find_replacement, one turn of its loop.
FindReplacement ==
  /\ stage = "find" /\ ptr \in DOMAIN replaced
  /\ ptr' = replaced[ptr]
  /\ UNCHANGED <<fn, stage, seen, blk, pos, code, phis, maps>>

\* Mutant of DoCoalesce: the replacement is not looked up.
DoCoalesceDirectly ==
  /\ stage = "find"
  /\ ReplaceUses(Here.def, coalesced[Here.def])
  /\ replaced' = [v \in DOMAIN replaced \cup {Here.def} |->
                    IF v = Here.def THEN coalesced[v] ELSE replaced[v]]
  /\ stage' = "coalesce" /\ pos' = pos + 1
  /\ UNCHANGED <<fn, seen, blk, coalesced, marked, erased, ptr>>

DoCoalesce ==
  /\ stage = "find" /\ ptr \notin DOMAIN replaced
  /\ ReplaceUses(Here.def, ptr)
  /\ replaced' = [v \in DOMAIN replaced \cup {Here.def} |->
                    IF v = Here.def THEN ptr ELSE replaced[v]]
  /\ stage' = "coalesce" /\ pos' = pos + 1
  /\ UNCHANGED <<fn, seen, blk, coalesced, marked, erased, ptr>>

\* cleanup: what is marked is erased, used or not.
Cleanup ==
  /\ stage = "cleanup"
  /\ erased' = marked
  /\ stage' = "done"
  /\ UNCHANGED <<fn, seen, blk, pos, code, phis, coalesced, replaced, marked, ptr>>

-----------------------------------------------------------------------------

Init ==
  /\ \E P \in Programs : \E lower \in BOOLEAN :
       fn = [P |-> P, dom |-> Dominators(P), lower |-> lower, impls |-> P.impls]
  /\ stage = "visit" /\ seen = {1} /\ blk = 1 /\ pos = 1
  /\ code = fn.P.code /\ phis = fn.P.phis
  /\ coalesced = << >> /\ replaced = << >> /\ marked = {} /\ erased = {}
  /\ ptr = NoValue

Visit ==
  \/ VisitMutated \/ VisitLowered \/ VisitUnlowerable \/ VisitLeft
  \/ VisitRenaming \/ VisitEnd \/ VisitEndUnsupported \/ NextBlock

Pass == Visit \/ CoalesceSkip \/ CoalesceFind \/ FindReplacement \/ DoCoalesce \/ Cleanup

Stopped == stage \in {"done", "unreachable"} /\ UNCHANGED vars

Next == Pass \/ Stopped

Spec == Init /\ [][Next]_vars

-----------------------------------------------------------------------------
Stages == {"visit", "coalesce", "find", "cleanup", "done", "unreachable"}

TypeOK ==
  /\ fn.P \in Programs /\ fn.dom = Dominators(fn.P) /\ fn.lower \in BOOLEAN
  /\ stage \in Stages
  /\ seen \subseteq Blocks(fn.P) /\ blk \in Blocks(fn.P) /\ pos \in Nat \ {0}
  /\ code \in [Blocks(fn.P) -> Seq(Inst)]
  /\ DOMAIN phis = Blocks(fn.P)
  /\ \A b \in Blocks(fn.P) : phis[b] \subseteq [def : Value, in : [Preds(fn.P, b) -> Value]]
  /\ DOMAIN coalesced \subseteq Value /\ DOMAIN replaced \subseteq Value
  /\ marked \subseteq Value /\ erased \subseteq Value /\ ptr \in Value

\* Some operand of the function is v.
Used(v) ==
  \/ UsedByPHI(v)
  \/ \E b \in Blocks(fn.P) : \E i \in DOMAIN code[b] :
       v \in Range(code[b][i].c) \cup Range(code[b][i].x)

(***************************************************************************)
(* do_coalesce replaces values in the order of the layout, in which a      *)
(* definition can come after its uses, and each replacement is looked up   *)
(* among the earlier ones: no step brings a value back into the function   *)
(* that was already replaced.                                              *)
(***************************************************************************)
ReplacedUnused == \A v \in DOMAIN replaced : ~Used(v)

-----------------------------------------------------------------------------
(***************************************************************************)
(* Why: a value is only ever replaced by what a call returns, which is     *)
(* never replaced itself, or by a value of the input that comes before it, *)
(* so the chain find_replacement follows never comes back to where it      *)
(* started.                                                                *)
(***************************************************************************)
Before(f, w, v) ==
  \/ w.impl
  \/ /\ IsInput(w) /\ IsInput(v)
     /\ Ahead(f.P, f.dom, w) \in Nat /\ Ahead(f.P, f.dom, v) \in Nat
     /\ Ahead(f.P, f.dom, w) < Ahead(f.P, f.dom, v)

\* The operands of an operation of the input come before its result.
Ordered(f, I) ==
  /\ Applied(I)
  /\ I.form # "ssa" => I.op \in LoweredOps
  /\ I.form = "ssa" =>
       /\ ~I.def.impl
       /\ I.op # "Size" => IsInput(I.def)
       /\ IsInput(I.def) => \A j \in DOMAIN I.c : IsInput(I.c[j]) /\ Before(f, I.c[j], I.def)

VisitsInOrder ==
  stage = "visit" =>
    /\ DOMAIN replaced = {}
    /\ \A b \in Blocks(fn.P) : \A i \in DOMAIN code[b] : Ordered(fn, code[b][i])

ReplacedByEarlier ==
  /\ \A v \in DOMAIN coalesced : ~v.impl /\ coalesced[v] \in Value /\ Before(fn, coalesced[v], v)
  /\ \A v \in DOMAIN replaced : ~v.impl /\ replaced[v] \in Value /\ Before(fn, replaced[v], v)
  /\ stage = "find" => /\ pos <= Len(code[blk]) /\ Here.def \in DOMAIN coalesced
                       /\ Before(fn, ptr, Here.def)

IInv == TypeOK /\ VisitsInOrder /\ ReplacedByEarlier /\ ReplacedUnused

(***************************************************************************)
(* What the pass can rely on beyond SSA form.  All blocks can be reached;  *)
(* arguments and what the pass does not look at are not defined; the pair  *)
(* of a swap is only taken apart, what Delete returns is never used, an    *)
(* End is an index; and an End has at most one use, since the loop over    *)
(* its uses rewrites one of them only.                                     *)
(***************************************************************************)
Made(P, ops) ==
  UNION {{P.code[b][i].def : i \in {k \in DOMAIN P.code[b] : P.code[b][k].op \in ops}}
         : b \in Blocks(P)}
Ends(P)  == Made(P, {"End"})
Pairs(P) == Made(P, {"SeqSwap"})
\* The values that nothing takes the place of.
Spent(P) == Made(P, {"SeqSwap", "Delete", "End"})

Tidy(P, I) ==
  /\ Range(I.c) \cap Spent(P) \subseteq Pairs(P)
  /\ Range(I.c) \cap Pairs(P) # {} => I.op \in {"Extract0", "Extract1"} /\ Len(I.c) = 1
  /\ Range(I.x) \cap Spent(P) \subseteq Ends(P)

EndsOnce(P, cd) ==
  \A b, a \in Blocks(P) : \A i \in DOMAIN cd[b], k \in DOMAIN cd[a] :
    \A j \in DOMAIN cd[b][i].x, l \in DOMAIN cd[a][k].x :
      cd[b][i].x[j] \in Ends(P) /\ cd[a][k].x[l] = cd[b][i].x[j] => b = a /\ i = k /\ j = l

Ordinary(P) ==
  /\ Blocks(P) \subseteq ReachAvoiding(P, 0)
  /\ \A v \in P.args \cup {Opaque} : DefPoints(P, v) = {}
  /\ \A b \in Blocks(P) : \A i \in DOMAIN P.code[b] : Tidy(P, P.code[b][i])
  /\ \A b \in Blocks(P) : \A q \in P.phis[b] : \A p \in DOMAIN q.in : q.in[p] \notin Spent(P)
  /\ EndsOnce(P, P.code)

OrdinaryPrograms == \A P \in Programs : Ordinary(P)

(***************************************************************************)
(* What is left of the function when cleanup has erased the rest uses only *)
(* what is left, for Ordinary functions.                                   *)
(***************************************************************************)
NothingDangles ==
  stage = "done" =>
    \A v \in erased :
      ~UsedByPHI(v) /\ \A p \in Positions :
        v \in Range(At(p).c) \cup Range(At(p).x) => At(p).def \in erased

(***************************************************************************)
(* SSADestruction.cpp says of visitEndInst: Contextualize EndInst for each *)
(* of its users.                                                           *)
(***************************************************************************)
EndsAreContextualized ==
  stage = "done" =>
    \A p \in Positions : At(p).op = "End" => IndexUses(At(p).def) = {}
=============================================================================
