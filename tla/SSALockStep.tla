---------------------------- MODULE SSALockStep ----------------------------
(***************************************************************************)
(* What the construction pass promises: the function it produces, read     *)
(* with immutable collections, computes what the function it was given     *)
(* computes with mutable ones.  When the pass is done this module runs     *)
(* both, block by block along every path of the control-flow graph.        *)
(*                                                                         *)
(* Contents are terms: the instruction that made them applied to the       *)
(* contents it was given.  Two terms are equal exactly when the contents   *)
(* are equal whatever the indices, keys and values are.  The mutable side  *)
(* has a heap and may alias; the immutable side binds values to terms.     *)
(***************************************************************************)
EXTENDS SSAConstruction

CONSTANT MaxBlocks    \* how many blocks of a path are executed

VARIABLES
  at,    \* the block executed last, 0 before the entry
  steps, \* how many blocks were executed
  mut,   \* [env, heap, obs, ub] of the mutable program
  ssa    \* [env, obs] of the immutable one

execVars == <<at, steps, mut, ssa>>
allVars  == <<vars, execVars>>

\* The content of a sequence after it was appended: the runtime has freed it.
Freed == <<"Freed">>

\* The operation whose effect a mutator has on its first collection.
EffectOf ==
  [MutIndexWrite |-> "IndexWrite", MutAssocWrite |-> "AssocWrite",
   MutSeqInsert |-> "SeqInsert", MutSeqRemove |-> "SeqRemove",
   MutSeqSwapWithin |-> "SeqSwapWithin", MutAssocInsert |-> "AssocInsert",
   MutAssocRemove |-> "AssocRemove", MutSeqInsertSeq |-> "SeqInsertSeq",
   MutSeqAppend |-> "SeqInsertSeq", MutSeqSplit |-> "SeqRemove"]

Extend(f, x, y) == [z \in DOMAIN f \cup {x} |-> IF z = x THEN y ELSE f[z]]

-----------------------------------------------------------------------------
(* The mutable program: names are pointers into a heap of terms. *)

MutInst(s, i, pos) ==
  LET ptr(j) == s.env[i.c[j]]
      old    == [j \in 1 .. Len(i.c) |-> s.heap[ptr(j)]]
      effect == <<EffectOf[i.op], pos>> \o old
      fresh  == Cardinality(DOMAIN s.heap) + 1
      Alloc(h, t) == [s EXCEPT !.env = Extend(@, i.def, fresh), !.heap = Extend(h, fresh, t)]
      Observe(r)  == [r EXCEPT !.obs = Append(@, <<pos, old>>)]
  IN  IF s.ub THEN s
      ELSE IF \E j \in DOMAIN old : old[j] = Freed THEN [s EXCEPT !.ub = TRUE]
      ELSE CASE i.op \in WriteOps \cup {"MutSeqInsertSeq"} ->
                  [s EXCEPT !.heap[ptr(1)] = effect]
             [] i.op = "MutSeqAppend" ->
                  [s EXCEPT !.heap = [@ EXCEPT ![ptr(1)] = effect, ![ptr(2)] = Freed]]
             [] i.op = "MutSeqSwap" ->
                  [s EXCEPT !.heap = [@ EXCEPT ![ptr(1)] = <<"From", pos>> \o old,
                                               ![ptr(2)] = <<"To", pos>> \o old]]
             [] i.op = "MutSeqSplit" ->
                  Alloc([s.heap EXCEPT ![ptr(1)] = effect], <<"SeqCopy", pos>> \o old)
             [] i.op \notin MutOps /\ i.def # NoName ->
                  Observe(Alloc(s.heap, <<i.op, pos>> \o old))
             [] OTHER -> Observe(s)

MutPHIs(s, b, p) ==
  LET bound == {q.def : q \in fn.P.phis[b]}
      source(n) == (CHOOSE q \in fn.P.phis[b] : q.def = n).in[p]
  IN  [s EXCEPT !.env = [n \in DOMAIN @ \cup bound |->
                           IF n \in bound THEN s.env[source(n)] ELSE s.env[n]]]

MutBlock(s, b, p) ==
  LET r[i \in 0 .. Len(fn.P.code[b])] ==
        IF i = 0 THEN IF p = 0 THEN s ELSE MutPHIs(s, b, p)
        ELSE MutInst(r[i - 1], fn.P.code[b][i], <<b, i>>)
  IN  r[Len(fn.P.code[b])]

-----------------------------------------------------------------------------
(* The immutable program: values are bound to terms. *)

\* What a use of an undefined or null value sees.
Undefined == <<"Undefined">>

Bound(env, v) == IF v \in DOMAIN env THEN env[v] ELSE Undefined

SSAInst(s, i) ==
  LET in == [j \in 1 .. Len(i.args) |-> Bound(s.env, i.args[j])]
      Bind(d, t) == [s EXCEPT !.env = Extend(@, d, t)]
      Observe(r) == [r EXCEPT !.obs = Append(@, <<i.at, in>>)]
  IN  CASE i.op = "End"    -> s
        [] i.op = "UsePHI" -> Bind(i.defs[1], in[1])
        [] i.op = "SeqSwap" ->
             [s EXCEPT !.env = Extend(Extend(@, i.defs[1], <<"From", i.at>> \o in),
                                      i.defs[2], <<"To", i.at>> \o in)]
        [] i.op # "End" /\ i.defs = << >> -> Observe(s)
        [] OTHER ->
             LET r == Bind(i.defs[1], <<i.op, i.at>> \o in)
             IN  IF i.defs[1].kind = "src" THEN Observe(r) ELSE r

SSAPHIs(s, b, p) ==
  LET bound == {q.def : q \in phis[b]}
      source(v) == (CHOOSE q \in phis[b] : q.def = v).in[p]
  IN  [s EXCEPT !.env = [v \in DOMAIN @ \cup bound |->
                           IF v \in bound THEN Bound(s.env, source(v)) ELSE s.env[v]]]

SSACode(s, code) ==
  LET r[i \in 0 .. Len(code)] == IF i = 0 THEN s ELSE SSAInst(r[i - 1], code[i])
  IN  r[Len(code)]

SSABlock(s, b, p) == SSACode(IF p = 0 THEN s ELSE SSAPHIs(s, b, p), out[b])

-----------------------------------------------------------------------------

\* Every argument is a collection of its own.
ExecInit ==
  /\ at = 0 /\ steps = 0
  /\ \E addr \in [fn.P.args -> 1 .. Cardinality(fn.P.args)] :
       /\ \A a, b \in fn.P.args : addr[a] = addr[b] => a = b
       /\ mut = [env |-> addr, obs |-> << >>, ub |-> FALSE,
                 heap |-> [x \in 1 .. Cardinality(fn.P.args) |->
                             <<"Arg", CHOOSE a \in fn.P.args : addr[a] = x>>]]
  /\ ssa = [env |-> [v \in {Src(fn.P, a) : a \in fn.P.args} |-> <<"Arg", v.web>>],
            obs |-> << >>]

RunBlock(b) ==
  /\ stage = "done" /\ ~mut.ub /\ steps < MaxBlocks
  /\ IF at = 0 THEN b = 1 ELSE b \in fn.P.succ[at]
  /\ at' = b /\ steps' = steps + 1
  /\ mut' = MutBlock(mut, b, at)
  /\ ssa' = SSABlock(ssa, b, at)
  /\ UNCHANGED vars

LockInit == Init /\ ExecInit

LockNext ==
  \/ Pass /\ UNCHANGED execVars
  \/ \E b \in Blocks(fn.P) : RunBlock(b)
  \/ stage = "done" /\ UNCHANGED allVars

LockSpec == LockInit /\ [][LockNext]_allVars

\* The pass is one thread that goes on as long as it has a next step.
FairLockSpec == LockSpec /\ WF_allVars(Pass /\ UNCHANGED execVars)

-----------------------------------------------------------------------------
(***************************************************************************)
(* The pass preserves meaning: whatever path is taken, every read, query,  *)
(* struct write, call and return sees in the SSA program the content it    *)
(* sees in the mutable program, in the same order, until the mutable       *)
(* program uses a sequence it has freed.                                   *)
(***************************************************************************)
Agreement == mut.ub \/ mut.obs = ssa.obs

-----------------------------------------------------------------------------
(***************************************************************************)
(* The functions that Agreement is promised for.  The pass takes every     *)
(* name for a collection of its own: at a join a collection may get a new  *)
(* name, but must lose the one it had.  It keeps no version of a sequence  *)
(* or array for has(), which asks for the keys as they were at first.      *)
(***************************************************************************)

\* Block b uses n, at the latest for a PHI behind it.
UsesName(P, b, n) ==
  \/ \E i \in 1 .. Len(P.code[b]) : \E j \in DOMAIN P.code[b][i].c : P.code[b][i].c[j] = n
  \/ \E x \in P.succ[b] : \E q \in P.phis[x] : q.in[b] = n

\* S holds every block that uses n or leads to one that does.
HoldsUses(P, n, S) ==
  \A b \in Blocks(P) :
    UsesName(P, b, n) \/ (\E x \in P.succ[b] \cap S : DefPos(P, n)[1] # x) => b \in S

\* The blocks in which, or behind which, n is used.
Wanted(P, n) ==
  {b \in Blocks(P) : \A S \in SUBSET Blocks(P) : HoldsUses(P, n, S) => b \in S}

NamesAreApart(P) ==
  \A b \in Blocks(P) : \A q \in P.phis[b] : \A x \in Preds(P, b) :
    /\ b \in Wanted(P, q.in[x]) => DefPos(P, q.in[x])[1] = b
    /\ \A r \in P.phis[b] \ {q} : r.in[x] # q.in[x]

Mutates(P, b, i, n) ==
  P.code[b][i].op \in MutOps /\ \E j \in DOMAIN P.code[b][i].c : P.code[b][i].c[j] = n

\* S holds every block that is entered with n mutated.
HoldsChanges(P, n, S) ==
  \A b \in Blocks(P) :
    (\E x \in Preds(P, b) : \/ \E i \in 1 .. Len(P.code[x]) : Mutates(P, x, i, n)
                            \/ x \in S /\ DefPos(P, n)[1] # x) => b \in S

\* Nothing mutated n before instruction i of block b.
AsDefined(P, n, b, i) ==
  /\ \/ DefPos(P, n)[1] = b
     \/ \E S \in SUBSET Blocks(P) : HoldsChanges(P, n, S) /\ b \notin S
  /\ \A k \in 1 .. i - 1 : ~Mutates(P, b, k, n)

Faithful(P) ==
  /\ Signatures(P) /\ NamesAreApart(P)
  /\ \A b \in Blocks(P) : \A i \in 1 .. Len(P.code[b]) :
       LET x == P.code[b][i]
       IN  /\ x.op \notin {"End", "UsePHI", "SeqSwap"}
           /\ x.op = "MutStructWrite" => x.c = << >>
           /\ x.op = "AssocHas" /\ ~UsePHIs => AsDefined(P, x.c[1], b, i)
FaithfulPrograms == \A P \in Programs : Faithful(P)

-----------------------------------------------------------------------------
(***************************************************************************)
(* What the pass has written: for each instruction that it has visited,    *)
(* the instructions that stand for it, on the latest versions.             *)
(***************************************************************************)
LatestAt(P, dom, pd, n, pt) ==
  CHOOSE v \in Versions(P, pd, n) : Latest(P, dom, pd, n, pt, v)

\* An instruction that stays, for instruction i of block b.
Stands(b, i, op, defs, args) ==
  [op |-> op, defs |-> defs, args |-> args, at |-> <<b, i>>, marked |-> FALSE]

\* What stands for that instruction when vs are its operands' versions.
Rewritten(P, b, i, vs) ==
  LET x == P.code[b][i]
      I(op, defs, args) == Stands(b, i, op, defs, args)
      new(j)  == Val("ssa", x.c[j], b, i)
      results == IF x.def = NoName THEN << >> ELSE <<Src(P, x.def)>>
  IN  CASE x.op = "MutStructWrite"  -> <<I("StructWrite", << >>, << >>)>>
        [] x.op \in WriteOps        -> <<I(EffectOf[x.op], <<new(1)>>, <<vs[1]>>)>>
        [] x.op = "MutSeqInsertSeq" -> <<I("SeqInsertSeq", <<new(1)>>, <<vs[1], vs[2]>>)>>
        [] x.op = "MutSeqAppend"    -> <<I("End", << >>, << >>),
                                         I("SeqInsertSeq", <<new(1)>>, <<vs[1], vs[2]>>)>>
        [] x.op = "MutSeqSwap"      -> <<I("SeqSwap", <<new(1), new(2)>>, <<vs[1], vs[2]>>)>>
        [] x.op = "MutSeqSplit"     -> <<I("SeqCopy", <<Val("copy", x.def, b, i)>>, <<vs[1]>>),
                                         I("SeqRemove", <<new(1)>>, <<vs[1]>>)>>
        [] x.op = "AssocHas" /\ ~UsePHIs -> <<I("AssocHas", << >>, <<Src(P, x.c[1])>>)>>
        [] UsePHIs /\ x.op \in ReadOps \cup {"AssocHas"} ->
             <<I(x.op, results, vs), I("UsePHI", <<Val("use", x.c[1], b, i)>>, vs)>>
        [] OTHER -> <<I(x.op, results, vs)>>

\* The latest versions of the operands of instruction i of block b.
Operands(P, dom, pd, b, i) ==
  [j \in 1 .. Len(Resolved(P.code[b][i])) |->
     LatestAt(P, dom, pd, Resolved(P.code[b][i])[j], <<b, i>>)]

\* For each i, what stands for the first i instructions of block b.
Written(P, dom, pd, b) ==
  LET w[i \in 0 .. Len(P.code[b])] ==
        IF i = 0 THEN << >>
        ELSE w[i - 1] \o Rewritten(P, b, i, Operands(P, dom, pd, b, i))
  IN  w

OperandsAreLatest ==
  \A b \in Blocks(fn.P) : \A i \in 1 .. VisitedTo[b] - 1 :
    \A j \in DOMAIN Resolved(fn.P.code[b][i]) :
       LatestFor(Resolved(fn.P.code[b][i])[j], <<b, i>>,
                 Operands(fn.P, fn.dom, PHIDefs(phis), b, i)[j])

CodeIsWritten ==
  \A b \in Blocks(fn.P) :
    (IF stage = "done" THEN out[b] ELSE Cleaned(out[b]))
      = Written(fn.P, fn.dom, PHIDefs(phis), b)[VisitedTo[b] - 1]
=============================================================================
