----------------------- MODULE SSADestructionLockStep -----------------------
(***************************************************************************)
(* What the destruction pass promises: the function it leaves, whose       *)
(* operations change collections in place, computes what its input         *)
(* computes with immutable ones.  When the pass is done this module runs   *)
(* both along every path, on contents that are terms: an operation applied *)
(* to the contents and indices it is given.                                *)
(*                                                                         *)
(* The promise can be kept only for a function that no longer uses a       *)
(* version once it made the next one of the same collection.  The          *)
(* immutable run finds that out by itself: it numbers collections and      *)
(* their versions, and stops where a superseded version is used.           *)
(***************************************************************************)
EXTENDS SSADestruction

CONSTANT MaxBlocks    \* how many blocks of a path are executed

VARIABLES
  at,     \* the block executed last, 0 before the entry
  steps,  \* how many blocks were executed
  ssa,    \* [env, last, obs, stale] of the immutable function
  mut     \* [env, heap, obs, foreign] of the one the pass made

execVars == <<at, steps, ssa, mut>>
allVars  == <<vars, execVars>>

Extend(f, x, y) == [z \in DOMAIN f \cup {x} |-> IF z = x THEN y ELSE f[z]]

\* One new version of the base collection.
UpdateOps ==
  {"IndexWrite", "AssocWrite", "AssocInsert", "AssocRemove",
   "SeqInsert", "SeqInsertSeq", "SeqRemove", "SeqSwapWithin"}
\* A collection of its own.
FreshOps == {"SeqAlloc", "AssocAlloc", "SeqCopy", "AssocKeys"}
\* A value that depends on the content, seen by the rest of the program.
ReadOnlyOps == {"IndexRead", "IndexGet", "AssocRead", "AssocGet", "AssocHas", "Call", "Return"}

\* The content that operation I makes of contents in and indices ix.
Effect(I, ix, in) == <<I.op, I.def.name, ix>> \o in
SizeTerm(content) == <<"SizeOf", content>>
FromTerm(I, ix, in) == <<"From", I.def.name, ix>> \o in
ToTerm(I, ix, in)   == <<"To", I.def.name, ix>> \o in
\* A callee that changes its argument.
CalleeTerm(name, content) == <<"Callee", name, content>>

-----------------------------------------------------------------------------
(* The immutable function: a value is a tuple (a pair for a swap) of       *)
(* versions [id, n, term]; id 0 is a scalar.                               *)

Scalar(t) == [id |-> 0, n |-> 0, term |-> t]

SSAInst(s, I) ==
  LET v(j)  == s.env[I.c[j]][1]
      in    == [j \in DOMAIN I.c |-> v(j).term]
      EndCollection(j) == IF I.op = "SeqSwap" /\ j > 2 THEN in[2] ELSE in[1]
      ends  == {e \in DOMAIN s.env : s.env[e][1].term = <<"End">>}
      ix    == [j \in DOMAIN I.x |->
                  IF I.x[j] = Opaque THEN <<"Opaque">>
                  ELSE IF I.x[j] \in ends THEN SizeTerm(EndCollection(j))
                  ELSE s.env[I.x[j]][1].term]
      fresh == Cardinality(DOMAIN s.last) + 1
      Version(id, n, t) == [id |-> id, n |-> n, term |-> t]
      Update(r, j, half, t) ==
        [r EXCEPT !.last[v(j).id] = @ + 1,
                  !.env = Extend(@, I.def, half \o <<Version(v(j).id, v(j).n + 1, t)>>)]
      Bind(u)  == [s EXCEPT !.env = Extend(@, I.def, <<u>>)]
  IN  IF s.stale \/ \E j \in DOMAIN I.c : v(j).id # 0 /\ v(j).n < s.last[v(j).id]
      THEN [s EXCEPT !.stale = TRUE]
      ELSE CASE I.op \in UpdateOps -> Update(s, 1, << >>, Effect(I, ix, in))
             [] I.op = "RetPHI" -> Update(s, 1, << >>, CalleeTerm(I.x[1].name, in[1]))
             [] I.op \in {"UsePHI", "DefPHI", "ArgPHI"} -> Bind(v(1))
             [] I.op = "SeqSwap" ->
                  LET one == Update(s, 1, << >>, FromTerm(I, ix, in))
                  IN  Update(one, 2, one.env[I.def], ToTerm(I, ix, in))
             [] I.op = "Extract0" -> Bind(v(1))
             [] I.op = "Extract1" -> Bind(s.env[I.c[1]][2])
             [] I.op \in FreshOps ->
                  [Bind(Version(fresh, 0, Effect(I, ix, in))) EXCEPT !.last = Extend(@, fresh, 0)]
             [] I.op = "Delete" -> [s EXCEPT !.last[v(1).id] = @ + 1]
             [] I.op = "Size" -> Bind(Scalar(SizeTerm(in[1])))
             [] I.op = "End"  -> Bind(Scalar(<<"End">>))
             [] OTHER ->
                  [Bind(Scalar(Effect(I, ix, in))) EXCEPT !.obs = Append(@, <<I.def.name, ix, in>>)]

SSAPHIs(s, b, p) ==
  LET bound == {q.def : q \in fn.P.phis[b]}
      source(v) == (CHOOSE q \in fn.P.phis[b] : q.def = v).in[p]
  IN  [s EXCEPT !.env = [v \in DOMAIN @ \cup bound |->
                           IF v \in bound THEN s.env[source(v)] ELSE s.env[v]]]

SSABlock(s, b, p) == FoldLeft(SSAInst, IF p = 0 THEN s ELSE SSAPHIs(s, b, p), fn.P.code[b])

-----------------------------------------------------------------------------
(* The function the pass made: a value is a cell of the heap or, with cell *)
(* 0, a scalar.                                                            *)

Cell(k)   == [cell |-> k, term |-> << >>]
Plain(t)  == [cell |-> 0, term |-> t]
\* What a use of an erased instruction sees.
Dangling  == Plain(<<"Dangling">>)
Freed     == <<"Freed">>

MutInst(s, I) ==
  LET v(j)  == IF I.c[j] \in DOMAIN s.env THEN s.env[I.c[j]] ELSE Dangling
      in    == [j \in DOMAIN I.c |-> IF v(j).cell = 0 THEN v(j).term ELSE s.heap[v(j).cell]]
      ix    == [j \in DOMAIN I.x |->
                  IF I.x[j] = Opaque THEN <<"Opaque">>
                  ELSE IF I.x[j] \in DOMAIN s.env THEN s.env[I.x[j]].term ELSE Dangling.term]
      fresh == Cardinality(DOMAIN s.heap) + 1
      Bind(r, u) == [r EXCEPT !.env = Extend(@, I.def, u)]
      Put(j, t)  == [s EXCEPT !.heap = [k \in DOMAIN @ |-> IF k = v(j).cell THEN t ELSE @[k]]]
      Alloc(t)   == [Bind(s, Cell(fresh)) EXCEPT !.heap = Extend(@, fresh, t)]
      inPlace    == I.form # "ssa"
  IN  IF s.foreign \/ (fn.lower /\ I.form = "ssa" /\ I.op \in LoweredOps)
      THEN [s EXCEPT !.foreign = TRUE]
      ELSE CASE I.op \in UpdateOps /\ inPlace  -> Bind(Put(1, Effect(I, ix, in)), v(1))
             [] I.op \in UpdateOps /\ ~inPlace -> Alloc(Effect(I, ix, in))
             [] I.op = "SeqSwap" ->
                  [s EXCEPT !.heap = [k \in DOMAIN @ |->
                     CASE k = v(1).cell -> FromTerm(I, ix, in)
                       [] k = v(2).cell -> ToTerm(I, ix, in)
                       [] OTHER -> @[k]]]
             [] I.op = "MutCall" ->
                  [Put(1, CalleeTerm(I.def.name, in[1])) EXCEPT
                     !.obs = Append(@, <<I.def.name, ix, in>>)]
             [] I.op \in FreshOps -> Alloc(Effect(I, ix, in))
             [] I.op = "Delete" -> Put(1, Freed)
             [] I.op = "Size" -> Bind(s, Plain(SizeTerm(in[1])))
             [] I.op = "End"  -> Bind(s, Plain(<<"End">>))
             [] OTHER ->
                  [Bind(s, Plain(Effect(I, ix, in))) EXCEPT
                     !.obs = Append(@, <<I.def.name, ix, in>>)]

MutPHIs(s, b, p) ==
  LET bound == {q.def : q \in phis[b]}
      source(v) == (CHOOSE q \in phis[b] : q.def = v).in[p]
  IN  [s EXCEPT !.env = [v \in DOMAIN @ \cup bound |->
         IF v \notin bound THEN s.env[v]
         ELSE IF source(v) \in DOMAIN s.env THEN s.env[source(v)] ELSE Dangling]]

MutBlock(s, b, p) ==
  FoldLeft(MutInst, IF p = 0 THEN s ELSE MutPHIs(s, b, p),
           SelectSeq(code[b], LAMBDA I : I.def \notin erased))

-----------------------------------------------------------------------------

\* Every argument is a collection of its own.
ExecInit ==
  /\ at = 0 /\ steps = 0
  /\ LET args == SetToSeq(fn.P.args)
         num(a) == CHOOSE k \in DOMAIN args : args[k] = a
     IN  /\ ssa = [env |-> [a \in fn.P.args |->
                              <<[id |-> num(a), n |-> 0, term |-> <<"Arg", a.name>>]>>],
                   last |-> [k \in DOMAIN args |-> 0], obs |-> << >>, stale |-> FALSE]
         /\ mut = [env |-> [a \in fn.P.args |-> Cell(num(a))],
                   heap |-> [k \in DOMAIN args |-> <<"Arg", args[k].name>>],
                   obs |-> << >>, foreign |-> FALSE]

RunBlock(b) ==
  /\ stage = "done" /\ ~ssa.stale /\ steps < MaxBlocks
  /\ IF at = 0 THEN b = 1 ELSE b \in fn.P.succ[at]
  /\ at' = b /\ steps' = steps + 1
  /\ ssa' = SSABlock(ssa, b, at)
  /\ mut' = MutBlock(mut, b, at)
  /\ UNCHANGED vars

LockInit == Init /\ ExecInit

LockNext ==
  \/ Pass /\ UNCHANGED execVars
  \/ \E b \in Blocks(fn.P) : RunBlock(b)
  \/ Stopped /\ UNCHANGED execVars

LockSpec == LockInit /\ [][LockNext]_allVars

-----------------------------------------------------------------------------
(***************************************************************************)
(* The pass preserves meaning: whatever path is taken, every read, query,  *)
(* call and return sees in the function with collections changed in place  *)
(* what it sees in the immutable one, ends of sequences included, as long  *)
(* as no superseded version is used and every operation that is lowered    *)
(* has an implementation.                                                  *)
(***************************************************************************)
Agreement == ssa.stale \/ LoweredOps \ fn.impls # {} \/ mut.obs = ssa.obs
=============================================================================
