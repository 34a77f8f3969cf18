-------------------------- MODULE SSAConstruction --------------------------
(***************************************************************************)
(* The pass that turns a function on mutable collections into one on       *)
(* immutable collections, one new version per mutation                     *)
(* (compiler/memoir/transforms/ssa_construction).                          *)
(*                                                                         *)
(* For every collection name the pass inserts PHIs on the iterated         *)
(* dominance frontier of the blocks that mutate it (stage "names").  It    *)
(* then walks the dominator tree in depth-first preorder and, per block,   *)
(* visits the PHIs ("phi"), the instructions ("inst") and the incoming     *)
(* slots of the successors' PHIs ("edge").  Each of them asks for the      *)
(* reaching definition of a name, which follows a chain of definitions     *)
(* with one step per iteration of the loop in update_reaching_definition.  *)
(* Cleanup erases the mutable instructions.                                *)
(***************************************************************************)
EXTENDS MemoirIR

CONSTANTS
  Programs,   \* the functions the pass is run on
  UsePHIs     \* the option memoir-enable-use-phis

ASSUME UsePHIsAssumption == UsePHIs \in BOOLEAN
ASSUME ProgramsAssumption == \A P \in Programs : WellFormed(P)

VARIABLES
  fn,          \* the function and its dominators
  stage,       \* "names", "phi", "inst", "edge", "cleanup" or "done"
  names_left,  \* memoir_names not given their PHIs yet
  current,     \* the name PHIs are being inserted for
  worklist,    \* def_parents_worklist of the current name
  phi_parents, \* the blocks the current name has a new PHI in
  phis,        \* per block, its PHIs: [def, named, in]
  rd,          \* reaching_definitions
  bb,          \* the block being visited
  seen,        \* the blocks the preorder traversal has come to
  idx,         \* the instruction being visited in bb
  todo,        \* PHIs of the block, or slots of its successors, still to visit
  focus,       \* the PHI or slot whose reaching definition is being sought
  vals,        \* the reaching definitions found for the current instruction
  walk,        \* update_reaching_definition in progress: [var, cur, pt]
  out          \* per block, the instructions emitted so far

insertVars == <<names_left, current, worklist, phi_parents>>
visitVars  == <<bb, seen, idx, todo, focus>>
vars == <<fn, stage, insertVars, phis, rd, visitVars, vals, walk, out>>

NoWalk  == [var |-> Null, cur |-> Null, pt |-> <<0, 0>>]
NoFocus == <<0, Null>>

inst == fn.P.code[bb][idx]

Analyzed(P) == [P |-> P, dom |-> Dominators(P)]

\* A PHI node as the front end left it.
SourcePHI(P, q) ==
  [def |-> Src(P, q.def), named |-> NoName,
   in |-> [p \in DOMAIN q.in |-> Src(P, q.in[p])]]

Init ==
  /\ \E P \in Programs : fn = Analyzed(P)
  /\ stage = "names"
  /\ names_left = Names(fn.P)
  /\ current = NoName /\ worklist = {} /\ phi_parents = {}
  /\ phis = [b \in Blocks(fn.P) |-> {SourcePHI(fn.P, q) : q \in fn.P.phis[b]}]
  /\ rd = << >> /\ bb = 1 /\ seen = {1} /\ idx = 1
  /\ todo = {} /\ focus = NoFocus /\ vals = << >> /\ walk = NoWalk
  /\ out = [b \in Blocks(fn.P) |-> << >>]

-----------------------------------------------------------------------------
(* Inserting PHIs. *)

\* Is i, which uses name n, taken as a definition of n?
IsDefOf(i, n) ==
  /\ i.op \in MutOps \cup {"AssocHas"} \cup (IF UsePHIs THEN ReadOps ELSE {})
  /\ \E j \in 1 .. Len(i.c) : i.c[j] = n
  /\ i.op = "MutSeqAppend" => n = i.c[1]

DefParents(P, n) ==
  {b \in Blocks(P) : \E i \in 1 .. Len(P.code[b]) : IsDefOf(P.code[b][i], n)}
  \cup ({DefPos(P, n)[1]} \ {0})

\* Variant: the definition need not reach the predecessors.
NeedsPHIUndominated(n, b) ==
  /\ b \notin phi_parents
  /\ \A q \in phis[b] : \A p \in DOMAIN q.in : q.in[p] # Src(fn.P, n)

NeedsPHI(n, b) ==
  /\ b \notin phi_parents
  /\ DefPos(fn.P, n)[1] # 0 =>
       \A p \in Preds(fn.P, b) : DefPos(fn.P, n)[1] \in fn.dom[p]
  /\ \A q \in phis[b] : \A p \in DOMAIN q.in : q.in[p] # Src(fn.P, n)

\* Variant: an incoming value for every block of the function.
NewPHIWide(n, b) ==
  [def |-> Val("phi", n, b, 0), named |-> n,
   in |-> [p \in Blocks(fn.P) |-> Src(fn.P, n)]]

\* The PHI built for name n in block b, with the name as dummy incoming value.
NewPHI(n, b) ==
  [def |-> Val("phi", n, b, 0), named |-> n,
   in |-> [p \in Preds(fn.P, b) |-> Src(fn.P, n)]]

StartName(n) ==
  /\ stage = "names" /\ worklist = {} /\ n \in names_left
  /\ names_left' = names_left \ {n}
  /\ current' = n
  /\ worklist' = DefParents(fn.P, n)
  /\ phi_parents' = {}
  /\ UNCHANGED <<fn, stage, phis, rd, visitVars, vals, walk, out>>

\* Variants: the blocks given a PHI are not worked on; the whole frontier is, always.
InsertPHIsOnce(b) ==
  LET new == {f \in Frontier(fn.P, fn.dom, b) : NeedsPHI(current, f)}
  IN  /\ stage = "names" /\ b \in worklist
      /\ phis' = [f \in DOMAIN phis |->
                    IF f \in new THEN phis[f] \cup {NewPHI(current, f)} ELSE phis[f]]
      /\ phi_parents' = phi_parents \cup new
      /\ worklist' = worklist \ {b}
      /\ UNCHANGED <<fn, stage, names_left, current, rd, visitVars, vals, walk, out>>

InsertPHIsAgain(b) ==
  LET new == {f \in Frontier(fn.P, fn.dom, b) : NeedsPHI(current, f)}
  IN  /\ stage = "names" /\ b \in worklist
      /\ phis' = [f \in DOMAIN phis |->
                    IF f \in new THEN phis[f] \cup {NewPHI(current, f)} ELSE phis[f]]
      /\ phi_parents' = phi_parents \cup new
      /\ worklist' = (worklist \ {b}) \cup Frontier(fn.P, fn.dom, b)
      /\ UNCHANGED <<fn, stage, names_left, current, rd, visitVars, vals, walk, out>>

InsertPHIs(b) ==
  LET new == {f \in Frontier(fn.P, fn.dom, b) : NeedsPHI(current, f)}
  IN  /\ stage = "names" /\ b \in worklist
      /\ phis' = [f \in DOMAIN phis |->
                    IF f \in new THEN phis[f] \cup {NewPHI(current, f)} ELSE phis[f]]
      /\ phi_parents' = phi_parents \cup new
      /\ worklist' = (worklist \ {b}) \cup new
      /\ UNCHANGED <<fn, stage, names_left, current, rd, visitVars, vals, walk, out>>

\* The visitor is constructed: every name is its own reaching definition.
BeginRename ==
  /\ stage = "names" /\ worklist = {} /\ names_left = {}
  /\ stage' = "phi"
  /\ rd' = [v \in {Src(fn.P, n) : n \in Names(fn.P)} |-> v]
  /\ todo' = phis[bb]
  /\ UNCHANGED <<fn, insertVars, phis, bb, seen, idx, focus, vals, walk, out>>

-----------------------------------------------------------------------------
(* Reaching definitions. *)

\* set_reaching_definition(v, d)
SetDef(f, v, d) == [x \in DOMAIN f \cup {v} |-> IF x = v THEN d ELSE f[x]]

Idle == walk = NoWalk

\* The next definition in the chain, nullptr when the map has none.
NextDef == IF walk.cur \in DOMAIN rd THEN rd[walk.cur] ELSE Null

\* Variant: the loop takes the first definition whether or not it dominates.
ChainEndsAtFirst == NextDef # walk.cur \/ NextDef = walk.var

ChainEnds ==
  \/ NextDef = Null
  \/ IsArgument(NextDef)
  \/ Dominates(fn.dom, NextDef, walk.pt)
  \/ NextDef = walk.var

FollowChain ==
  /\ ~Idle /\ ~ChainEnds
  /\ walk' = [walk EXCEPT !.cur = NextDef]
  /\ UNCHANGED <<fn, stage, insertVars, phis, rd, visitVars, vals, out>>

EndChain ==
  /\ ~Idle /\ ChainEnds
  /\ rd' = SetDef(rd, walk.var, NextDef)
  /\ vals' = Append(vals, NextDef)
  /\ walk' = NoWalk
  /\ UNCHANGED <<fn, stage, insertVars, phis, visitVars, out>>

Seek(v, pt) == walk' = [var |-> v, cur |-> v, pt |-> pt]

-----------------------------------------------------------------------------
(* PHI nodes of the block. *)

VisitSourcePHI(q) ==
  /\ stage = "phi" /\ focus = NoFocus /\ q \in todo /\ q.named = NoName
  /\ rd' = SetDef(rd, q.def, q.def)
  /\ todo' = todo \ {q}
  /\ UNCHANGED <<fn, stage, insertVars, phis, bb, seen, idx, focus, vals, walk, out>>

SeekPHI(q) ==
  /\ stage = "phi" /\ focus = NoFocus /\ q \in todo /\ q.named # NoName
  /\ focus' = <<bb, q.def>>
  /\ todo' = todo \ {q}
  /\ Seek(Src(fn.P, q.named), <<bb, 0>>)
  /\ UNCHANGED <<fn, stage, insertVars, phis, rd, bb, seen, idx, vals, out>>

\* Variants: the PHI's own previous definition, or the name's new one, is not recorded.
VisitInsertedPHINoChain ==
  LET phi == focus[2]
  IN  /\ stage = "phi" /\ Idle /\ focus # NoFocus
      /\ rd' = SetDef(rd, Src(fn.P, phi.web), phi)
      /\ vals' = << >> /\ focus' = NoFocus
      /\ UNCHANGED <<fn, stage, insertVars, phis, bb, seen, idx, todo, walk, out>>

VisitInsertedPHINoName ==
  LET phi == focus[2]
  IN  /\ stage = "phi" /\ Idle /\ focus # NoFocus
      /\ rd' = SetDef(rd, phi, vals[1])
      /\ vals' = << >> /\ focus' = NoFocus
      /\ UNCHANGED <<fn, stage, insertVars, phis, bb, seen, idx, todo, walk, out>>

VisitInsertedPHI ==
  LET phi == focus[2]
  IN  /\ stage = "phi" /\ Idle /\ focus # NoFocus
      /\ rd' = SetDef(SetDef(rd, Src(fn.P, phi.web), phi), phi, vals[1])
      /\ vals' = << >> /\ focus' = NoFocus
      /\ UNCHANGED <<fn, stage, insertVars, phis, bb, seen, idx, todo, walk, out>>

EndPHIs ==
  /\ stage = "phi" /\ todo = {} /\ focus = NoFocus
  /\ stage' = "inst" /\ idx' = 1
  /\ UNCHANGED <<fn, insertVars, phis, rd, bb, seen, todo, focus, vals, walk, out>>

-----------------------------------------------------------------------------
(* Instructions of the block. *)

\* The operands whose reaching definition the visitor of i asks for.
Resolved(i) ==
  IF i.op = "AssocHas" /\ ~UsePHIs THEN << >> ELSE i.c

AtInst == stage = "inst" /\ idx <= Len(fn.P.code[bb]) /\ Idle

SeekOperand ==
  /\ AtInst /\ Len(vals) < Len(Resolved(inst))
  /\ Seek(Src(fn.P, Resolved(inst)[Len(vals) + 1]), <<bb, idx>>)
  /\ UNCHANGED <<fn, stage, insertVars, phis, rd, visitVars, vals, out>>

Ready(ops) == AtInst /\ Len(vals) = Len(Resolved(inst)) /\ inst.op \in ops

\* The operand as the instruction names it, and a version of it defined here.
Orig(j)       == Src(fn.P, inst.c[j])
Version(w, n) == Val(w, n, bb, idx)

Emitted(op, defs, args) ==
  [op |-> op, defs |-> defs, args |-> args, at |-> <<bb, idx>>, marked |-> FALSE]

\* What the instruction defines, as it stands in the source.
Result == IF inst.def = NoName THEN << >> ELSE <<Src(fn.P, inst.def)>>

\* The instruction itself, once it is marked for cleanup.
Original ==
  [op |-> inst.op, defs |-> Result,
   args |-> [j \in 1 .. Len(inst.c) |-> Orig(j)], at |-> <<bb, idx>>, marked |-> TRUE]

Emit(insts) ==
  /\ out' = [out EXCEPT ![bb] = @ \o insts]
  /\ idx' = idx + 1
  /\ vals' = << >>
  /\ UNCHANGED <<fn, stage, insertVars, phis, bb, seen, todo, focus, walk>>

\* A mutator of one collection: the SSA operation defines its next version.
NewVersion(op) ==
  LET new == Version("ssa", inst.c[1])
  IN  /\ rd' = SetDef(SetDef(rd, Orig(1), new), new, vals[1])
      /\ Emit(<<Emitted(op, <<new>>, <<vals[1]>>), Original>>)

VisitMutIndexWrite == Ready({"MutIndexWrite"}) /\ NewVersion("IndexWrite")
VisitMutAssocWrite == Ready({"MutAssocWrite"}) /\ NewVersion("AssocWrite")
VisitMutSeqInsert  == Ready({"MutSeqInsert"}) /\ NewVersion("SeqInsert")
VisitMutSeqRemove  == Ready({"MutSeqRemove"}) /\ NewVersion("SeqRemove")
VisitMutSeqSwapWithin == Ready({"MutSeqSwapWithin"}) /\ NewVersion("SeqSwapWithin")
VisitMutAssocInsert == Ready({"MutAssocInsert"}) /\ NewVersion("AssocInsert")
VisitMutAssocRemove == Ready({"MutAssocRemove"}) /\ NewVersion("AssocRemove")

VisitMutStructWrite ==
  /\ Ready({"MutStructWrite"})
  /\ Emit(<<Emitted("StructWrite", << >>, << >>), Original>>)
  /\ UNCHANGED rd

VisitMutSeqInsertSeq ==
  LET new == Version("ssa", inst.c[1])
  IN  /\ Ready({"MutSeqInsertSeq"})
      /\ rd' = SetDef(SetDef(rd, Orig(1), new), new, vals[1])
      /\ Emit(<<Emitted("SeqInsertSeq", <<new>>, <<vals[1], vals[2]>>), Original>>)

VisitMutSeqAppend ==
  LET new == Version("ssa", inst.c[1])
  IN  /\ Ready({"MutSeqAppend"})
      /\ rd' = SetDef(SetDef(rd, Orig(1), new), new, vals[1])
      /\ Emit(<<Emitted("End", << >>, << >>),
                Emitted("SeqInsertSeq", <<new>>, <<vals[1], vals[2]>>), Original>>)

\* Variant: each collection gets the other's result.
VisitMutSeqSwapCrossed ==
  LET from == Version("ssa", inst.c[1])
      to   == Version("ssa", inst.c[2])
  IN  /\ Ready({"MutSeqSwap"})
      /\ rd' = SetDef(SetDef(SetDef(SetDef(rd, Orig(1), to), from, vals[1]),
                             Orig(2), from), to, vals[2])
      /\ Emit(<<Emitted("SeqSwap", <<from, to>>, <<vals[1], vals[2]>>), Original>>)

\* The swap and the two values extracted from its result.
VisitMutSeqSwap ==
  LET from == Version("ssa", inst.c[1])
      to   == Version("ssa", inst.c[2])
  IN  /\ Ready({"MutSeqSwap"})
      /\ rd' = SetDef(SetDef(SetDef(SetDef(rd, Orig(1), from), from, vals[1]),
                             Orig(2), to), to, vals[2])
      /\ Emit(<<Emitted("SeqSwap", <<from, to>>, <<vals[1], vals[2]>>), Original>>)

VisitMutSeqSplit ==
  LET copy == Version("copy", inst.def)
      rest == Version("ssa", inst.c[1])
  IN  /\ Ready({"MutSeqSplit"})
      /\ rd' = SetDef(SetDef(SetDef(rd, Src(fn.P, inst.def), copy),
                             Orig(1), rest), rest, vals[1])
      /\ Emit(<<Emitted("SeqCopy", <<copy>>, <<vals[1]>>),
                Emitted("SeqRemove", <<rest>>, <<vals[1]>>), Original>>)

\* Variant: the use-PHI does not remember the definition it uses.
VisitReadNoChain ==
  LET use == Version("use", inst.c[1])
  IN  /\ Ready(ReadOps)
      /\ IF UsePHIs
         THEN /\ rd' = SetDef(rd, Orig(1), use)
              /\ Emit(<<Emitted(inst.op, Result, vals),
                        Emitted("UsePHI", <<use>>, vals)>>)
         ELSE UNCHANGED rd /\ Emit(<<Emitted(inst.op, Result, vals)>>)

VisitRead ==
  LET use == Version("use", inst.c[1])
  IN  /\ Ready(ReadOps)
      /\ IF UsePHIs
         THEN /\ rd' = SetDef(SetDef(rd, Orig(1), use), use, vals[1])
              /\ Emit(<<Emitted(inst.op, Result, vals),
                        Emitted("UsePHI", <<use>>, vals)>>)
         ELSE UNCHANGED rd /\ Emit(<<Emitted(inst.op, Result, vals)>>)

\* The use-PHI's operand, not its result, becomes the reaching definition.
VisitAssocHas ==
  /\ Ready({"AssocHas"})
  /\ IF UsePHIs
     THEN /\ rd' = SetDef(SetDef(rd, Orig(1), vals[1]), vals[1], vals[1])
          /\ Emit(<<Emitted("AssocHas", << >>, vals),
                    Emitted("UsePHI", <<Version("use", inst.c[1])>>, vals)>>)
     ELSE UNCHANGED rd /\ Emit(<<Emitted("AssocHas", << >>, <<Orig(1)>>)>>)

\* visitInstruction: allocations, size, keys, calls, returns and LLVM instructions.
VisitInstruction ==
  /\ AtInst /\ Len(vals) = Len(Resolved(inst))
  /\ inst.op \notin MutOps \cup ReadOps \cup {"AssocHas"}
  /\ IF inst.def = NoName
     THEN UNCHANGED rd /\ Emit(<<Emitted(inst.op, << >>, vals)>>)
     ELSE LET v == Src(fn.P, inst.def)
          IN  rd' = SetDef(rd, v, v) /\ Emit(<<Emitted(inst.op, <<v>>, vals)>>)

-----------------------------------------------------------------------------
(* Incoming values of the successors' PHIs, then the next block. *)

EndInstructions ==
  /\ stage = "inst" /\ Idle /\ idx > Len(fn.P.code[bb])
  /\ stage' = "edge"
  /\ todo' = UNION {{<<c, q.def>> : q \in phis[c]} : c \in fn.P.succ[bb]}
  /\ UNCHANGED <<fn, insertVars, phis, rd, bb, seen, idx, focus, vals, walk, out>>

SeekIncoming(slot) ==
  /\ stage = "edge" /\ Idle /\ focus = NoFocus /\ slot \in todo
  /\ focus' = slot
  /\ todo' = todo \ {slot}
  /\ \E q \in phis[slot[1]] : q.def = slot[2] /\ Seek(q.in[bb], Terminator(fn.P, bb))
  /\ UNCHANGED <<fn, stage, insertVars, phis, rd, bb, seen, idx, vals, out>>

SetIncoming ==
  /\ stage = "edge" /\ Idle /\ focus # NoFocus
  /\ phis' = [phis EXCEPT ![focus[1]] =
                {IF q.def = focus[2] THEN [q EXCEPT !.in[bb] = vals[1]] ELSE q : q \in @}]
  /\ vals' = << >> /\ focus' = NoFocus
  /\ UNCHANGED <<fn, stage, insertVars, rd, bb, seen, idx, todo, walk, out>>

NextBlock ==
  /\ stage = "edge" /\ Idle /\ focus = NoFocus /\ todo = {}
  /\ \E b \in NextInPreorder(fn.P, fn.dom, seen, bb) :
       bb' = b /\ seen' = seen \cup {b} /\ todo' = phis[b]
  /\ stage' = "phi"
  /\ UNCHANGED <<fn, insertVars, phis, rd, idx, focus, vals, walk, out>>

EndTraversal ==
  /\ stage = "edge" /\ Idle /\ focus = NoFocus /\ todo = {} /\ seen = Blocks(fn.P)
  /\ stage' = "cleanup"
  /\ UNCHANGED <<fn, insertVars, phis, rd, visitVars, vals, walk, out>>

\* Code without the instructions marked for cleanup.
Cleaned(s) ==
  LET left[i \in 0 .. Len(s)] ==
        IF i = 0 THEN << >>
        ELSE IF s[i].marked THEN left[i - 1] ELSE Append(left[i - 1], s[i])
  IN  left[Len(s)]

Cleanup ==
  /\ stage = "cleanup"
  /\ stage' = "done"
  /\ out' = [b \in DOMAIN out |-> Cleaned(out[b])]
  /\ UNCHANGED <<fn, insertVars, phis, rd, visitVars, vals, walk>>

-----------------------------------------------------------------------------

VisitSequence ==
  \/ VisitMutSeqInsert \/ VisitMutSeqInsertSeq \/ VisitMutSeqRemove
  \/ VisitMutSeqAppend \/ VisitMutSeqSwap \/ VisitMutSeqSwapWithin
  \/ VisitMutSeqSplit
VisitAssoc == VisitAssocHas \/ VisitMutAssocInsert \/ VisitMutAssocRemove
VisitAccess ==
  VisitMutStructWrite \/ VisitMutIndexWrite \/ VisitMutAssocWrite \/ VisitRead

PHIStep ==
  \/ \E q \in todo : VisitSourcePHI(q) \/ SeekPHI(q)
  \/ VisitInsertedPHI \/ EndPHIs
EdgeStep ==
  \/ \E slot \in todo : SeekIncoming(slot)
  \/ SetIncoming \/ NextBlock \/ EndTraversal

Pass ==
  \/ \E n \in names_left : StartName(n)
  \/ \E b \in worklist : InsertPHIs(b)
  \/ BeginRename
  \/ FollowChain \/ EndChain
  \/ PHIStep
  \/ SeekOperand \/ VisitSequence \/ VisitAssoc \/ VisitAccess \/ VisitInstruction
  \/ EndInstructions \/ EdgeStep \/ Cleanup

Terminating == stage = "done" /\ UNCHANGED vars

Next == Pass \/ Terminating

Spec == Init /\ [][Next]_vars
-----------------------------------------------------------------------------
(* Properties. *)

Value == [kind : {"src", "ssa", "copy", "use", "phi", "null"},
          web : Names(fn.P) \cup {NoName}, blk : Nat, idx : Nat]

PHI(b) == [def : Value, named : Names(fn.P) \cup {NoName},
           in : [Preds(fn.P, b) -> Value]]

\* The pass's bookkeeping keeps its types, whatever it is run on.
TypeOK ==
  /\ fn.dom \in [Blocks(fn.P) -> SUBSET Blocks(fn.P)]
  /\ stage \in {"names", "phi", "inst", "edge", "cleanup", "done"}
  /\ names_left \subseteq Names(fn.P) /\ current \in Names(fn.P) \cup {NoName}
  /\ worklist \subseteq Blocks(fn.P) /\ phi_parents \subseteq Blocks(fn.P)
  /\ DOMAIN phis = Blocks(fn.P) /\ \A b \in Blocks(fn.P) : phis[b] \subseteq PHI(b)
  /\ bb \in seen /\ seen \subseteq Blocks(fn.P) /\ idx \in Nat \ {0}
  /\ DOMAIN rd \subseteq Value /\ \A v \in DOMAIN rd : rd[v] \in Value
  /\ vals \in Seq(Value)
  /\ walk \in [var : Value, cur : Value, pt : Nat \X Nat]

\* Where the pass is: a PHI, an instruction or the terminator of block bb.
Point ==
  CASE stage = "phi"  -> <<bb, 0>>
    [] stage = "inst" -> <<bb, idx>>
    [] OTHER          -> Terminator(fn.P, bb)

\* Every path from the entry to the point passes the definition of v.
Reaches(v, pt) == IsArgument(v) \/ Dominates(fn.dom, v, pt)

(***************************************************************************)
(* update_reaching_definition returns, each time it is asked, a definition *)
(* that dominates the point it was asked for; never nullptr, and never a   *)
(* definition that a path to the point avoids, which is what its loop also *)
(* stops on when it comes back to the variable it started from.            *)
(***************************************************************************)
ReachingDominates ==
  \A i \in 1 .. Len(vals) : vals[i] # Null /\ Reaches(vals[i], Point)

(***************************************************************************)
(* The chains of reaching_definitions never leave the web of the variable  *)
(* they belong to, and only end in nullptr behind the copy a split makes.  *)
(* Swap and split update two variables at once; a result recorded for the  *)
(* wrong one would send every later use of it to the other collection.     *)
(***************************************************************************)
ChainsStayInWeb ==
  \A v \in DOMAIN rd :
     /\ rd[v].web = v.web
     /\ rd[v] \in DOMAIN rd \/ rd[v].kind = "copy"

(***************************************************************************)
(* Once the pass is done the function passes LLVM's verifier: no mutable   *)
(* instruction is left, no use is left of a value that cleanup erased, and *)
(* every operand and every incoming value of a PHI is defined on every     *)
(* path to its use.                                                        *)
(***************************************************************************)
DefinedBefore(b, i) ==
  {q.def : q \in phis[b]}
  \cup (UNION {{out[b][j].defs[d] : d \in DOMAIN out[b][j].defs} : j \in 1 .. i - 1})
AtEntry(b) ==
  {Src(fn.P, n) : n \in fn.P.args}
  \cup (UNION {DefinedBefore(c, Len(out[c]) + 1) : c \in fn.dom[b] \ {b}})

ResultVerifies ==
  stage = "done" =>
    \A b \in Blocks(fn.P) :
       /\ \A i \in 1 .. Len(out[b]) :
            /\ out[b][i].op \notin MutOps
            /\ \A j \in DOMAIN out[b][i].args :
                 out[b][i].args[j] \in DefinedBefore(b, i) \cup AtEntry(b)
       /\ \A q \in phis[b] : \A x \in Preds(fn.P, b) :
            q.in[x] \in DefinedBefore(x, Len(out[x]) + 1) \cup AtEntry(x)

(***************************************************************************)
(* The signatures ResultVerifies relies on: mutators other than a split    *)
(* return nothing and has() a Boolean; has() asks an associative array, so *)
(* never the sequence that a split made.                                   *)
(***************************************************************************)
Splits(P) ==
  UNION {{P.code[b][i].def : i \in {k \in 1 .. Len(P.code[b]) : P.code[b][k].op = "MutSeqSplit"}}
         : b \in Blocks(P)}
Signatures(P) ==
  \A b \in Blocks(P) : \A i \in 1 .. Len(P.code[b]) :
    LET x == P.code[b][i]
    IN  /\ x.op \in (MutOps \ {"MutSeqSplit"}) \cup {"AssocHas"} => x.def = NoName
        /\ x.op = "AssocHas" => x.c[1] \notin Splits(P)
SignaturesHold == \A P \in Programs : Signatures(P)

\* Every loop of the pass ends: the worklist, the chains and the traversal.
PassEnds == <>(stage = "done")

-----------------------------------------------------------------------------
(***************************************************************************)
(* The inductive invariant behind ReachingDominates and ChainsStayInWeb.   *)
(***************************************************************************)

\* v is a source name whose definition reaches the point.
SourceAt(v, pt) ==
  v.web \in Names(fn.P) /\ v = Src(fn.P, v.web) /\ Reaches(v, pt)

\* A chain can go on from v, or v is the copy that a split put where it was.
Known(f, v) ==
  \/ v \in DOMAIN f
  \/ /\ v.kind = "copy" /\ v.blk \in Blocks(fn.P)
     /\ DefPos(fn.P, v.web) = <<v.blk, v.idx>>

MapOK(f) ==
  \A v \in DOMAIN f : v.web \in Names(fn.P) /\ f[v].web = v.web /\ Known(f, f[v])

InvFn ==
  /\ fn.P \in Programs /\ fn = Analyzed(fn.P)
  /\ worklist # {} => current \in Names(fn.P)

\* The slots of phis[b] that edges from block x have not filled in yet.
Unfilled(b, q, x) ==
  \/ x \notin seen
  \/ x = bb /\ (stage \in {"names", "phi", "inst"} \/ <<b, q.def>> \in todo)

PHIOK(b, q) ==
  /\ q.def.web \in Names(fn.P)
  /\ q.named = NoName => q.def = Src(fn.P, q.def.web)
  /\ q.named # NoName => q.def.web = q.named /\ Reaches(Src(fn.P, q.named), <<b, 0>>)
  /\ \A x \in Preds(fn.P, b) :
       Unfilled(b, q, x) => SourceAt(q.in[x], Terminator(fn.P, x))

InvPHIs == \A b \in Blocks(fn.P) : \A q \in phis[b] : PHIOK(b, q)

InvMap ==
  MapOK(rd) /\ (stage # "names" => \A n \in Names(fn.P) : Src(fn.P, n) \in DOMAIN rd)

\* The operands of the current instruction, none after the last one.
SoughtAt(P, b, i) == IF i <= Len(P.code[b]) THEN Resolved(P.code[b][i]) ELSE << >>
Sought == SoughtAt(fn.P, bb, idx)

InvWalk ==
  ~Idle =>
    /\ stage \in {"phi", "inst", "edge"}
    /\ walk.pt = Point /\ SourceAt(walk.var, walk.pt)
    /\ walk.cur \in DOMAIN rd /\ walk.cur.web = walk.var.web
    /\ stage = "phi" => walk.var.web = focus[2].web
    /\ stage = "inst" => /\ Len(vals) < Len(Sought)
                        /\ walk.var.web = Sought[Len(vals) + 1]
    /\ stage # "inst" => focus # NoFocus /\ vals = << >>

InvVals ==
  /\ \A i \in 1 .. Len(vals) :
       vals[i].web \in Names(fn.P) /\ Known(rd, vals[i]) /\ Reaches(vals[i], Point)
  /\ stage = "inst" =>
       Len(vals) <= Len(Sought) /\ \A i \in 1 .. Len(vals) : vals[i].web = Sought[i]
  /\ stage = "phi" /\ focus # NoFocus =>
       /\ focus[2] \in Value /\ focus[2].web \in Names(fn.P)
       /\ \A i \in 1 .. Len(vals) : vals[i].web = focus[2].web
  /\ stage \in {"phi", "edge"} /\ focus # NoFocus /\ Idle => Len(vals) = 1
  /\ stage # "inst" /\ focus = NoFocus => vals = << >> /\ Idle
  /\ stage \in {"names", "inst", "cleanup", "done"} => focus = NoFocus

InvTodo ==
  /\ stage = "phi" => todo \subseteq phis[bb]
  /\ stage = "edge" =>
       \A slot \in todo : slot[1] \in fn.P.succ[bb] /\ slot = <<slot[1], slot[2]>>
  /\ stage = "edge" /\ focus # NoFocus =>
       focus \notin todo /\ focus = <<focus[1], focus[2]>>

IInv ==
  /\ TypeOK
  /\ InvFn /\ InvPHIs /\ InvMap /\ InvWalk /\ InvVals /\ InvTodo

-----------------------------------------------------------------------------
(***************************************************************************)
(* The inductive invariant behind ResultVerifies: what is written so far   *)
(* is written in terms of what the result defines.                         *)
(***************************************************************************)

\* Per block, the instruction the visit is at, or 1 before and the last + 1 after it.
VisitedTo ==
  [b \in Blocks(fn.P) |->
     IF b \notin seen \/ (b = bb /\ stage \in {"names", "phi"}) THEN 1
     ELSE IF b = bb /\ stage = "inst" THEN idx ELSE Len(fn.P.code[b]) + 1]

\* The instructions of s that cleanup leaves.
Staying(s) == {s[j] : j \in {k \in DOMAIN s : ~s[k].marked}}

\* v is an argument, or PHIs ph or code o define it where v says.
InResult(P, ph, o, v) ==
  \/ \E n \in P.args : v = Src(P, n)
  \/ v.blk \in Blocks(P) /\ v.idx = 0 /\ \E q \in ph[v.blk] : q.def = v
  \/ /\ v.blk \in Blocks(P)
     /\ \E x \in Staying(o[v.blk]) :
          x.at = <<v.blk, v.idx>> /\ \E d \in DOMAIN x.defs : x.defs[d] = v

\* v is a name that an instruction defines to which the visit l has not come yet.
Ahead(P, l, v) ==
  /\ v.web \in Names(P) /\ v = Src(P, v.web)
  /\ v.blk \in Blocks(P) /\ v.idx >= 1 /\ v.idx >= l[v.blk]

\* v can be used at the point.
Fit(P, dom, ph, o, v, pt) ==
  InResult(P, ph, o, v) /\ (IsArgument(v) \/ Dominates(dom, v, pt))

\* Chains lead to what is in the result, or to a name that is still ahead.
ChainsFit(P, ph, o, l, f) ==
  \A v \in DOMAIN f : InResult(P, ph, o, f[v]) \/ (f[v] = v /\ Ahead(P, l, v))

\* A name that is neither is the result of a split, once that is visited.
NamesFit(P, ph, o, l, lost) ==
  \A n \in Names(P) :
    InResult(P, ph, o, Src(P, n)) \/ Ahead(P, l, Src(P, n)) \/ n \in lost

PHIsFirst(P, ph) ==
  \A b \in Blocks(P) : \A q \in ph[b] : q.def.blk = b /\ q.def.idx = 0

\* The code that is emitted: in the order of the source, of operands that fit.
Entries(s) == {s[j] : j \in DOMAIN s}
Sorted(s)  == \A i, j \in DOMAIN s : i < j => s[i].at[2] <= s[j].at[2]
CodeInOrder(P, o, l) ==
  \A b \in Blocks(P) :
    /\ o[b] \in Seq(Entries(o[b]))
    /\ \A i \in DOMAIN o[b] :
         o[b][i].at[1] = b /\ o[b][i].at[2] \in Nat /\ o[b][i].at[2] < l[b]
    /\ Sorted(o[b])
OperandsFit(P, dom, ph, o) ==
  \A b \in Blocks(P) : \A x \in Staying(o[b]) :
    x.op \notin MutOps /\ \A j \in DOMAIN x.args : Fit(P, dom, ph, o, x.args[j], x.at)

\* The incoming values that are filled in fit the end of the block they come from.
Pending(b, q, x) ==
  Unfilled(b, q, x) \/ (stage = "edge" /\ x = bb /\ focus = <<b, q.def>>)
IncomingFit ==
  \A b \in Blocks(fn.P) : \A q \in phis[b] : \A x \in Preds(fn.P, b) :
    Pending(b, q, x) \/ Fit(fn.P, fn.dom, phis, out, q.in[x], Terminator(fn.P, x))

\* Blocks are visited after those that dominate them.
Traversal ==
  /\ \A b \in seen : fn.dom[b] \subseteq seen
  /\ stage = "names" => seen = {1} /\ bb = 1
  /\ stage = "inst" => idx <= Len(fn.P.code[bb]) + 1
  /\ stage = "phi" /\ focus # NoFocus => \E q \in phis[bb] : q.def = focus[2]
  /\ stage \in {"cleanup", "done"} => todo = {} /\ seen = Blocks(fn.P)
  /\ stage = "done" => \A b \in Blocks(fn.P) : \A i \in DOMAIN out[b] : ~out[b][i].marked

Built ==
  /\ Signatures(fn.P) /\ DOMAIN out = Blocks(fn.P)
  /\ ChainsFit(fn.P, phis, out, VisitedTo, rd)
  /\ \A i \in DOMAIN vals : InResult(fn.P, phis, out, vals[i])
  /\ NamesFit(fn.P, phis, out, VisitedTo, IF stage = "names" THEN {} ELSE Splits(fn.P))
  /\ PHIsFirst(fn.P, phis)
  /\ CodeInOrder(fn.P, out, VisitedTo) /\ OperandsFit(fn.P, fn.dom, phis, out)
  /\ IncomingFit /\ Traversal

-----------------------------------------------------------------------------
(***************************************************************************)
(* What a reaching definition is: of the versions that the pass gives a    *)
(* name, the last that every path to the point passes.                     *)
(***************************************************************************)

\* Does the visit of x make a new version of n?
Redefines(x, n) ==
  \/ x.def = n
  \/ x.op \in MutOps \ {"MutStructWrite"} /\ x.c[1] = n
  \/ x.op = "MutSeqSwap" /\ x.c[2] = n
  \/ UsePHIs /\ x.op \in ReadOps /\ x.c[1] = n

\* The version of n that instruction i of block b makes.
Renamed(P, n, b, i) ==
  LET x == P.code[b][i]
  IN  IF x.def = n THEN IF x.op = "MutSeqSplit" THEN Val("copy", n, b, i) ELSE Src(P, n)
      ELSE IF x.op \in MutOps THEN Val("ssa", n, b, i) ELSE Val("use", n, b, i)

\* pd[b] is what the PHIs of block b define.
PHIDefs(ph) == [b \in DOMAIN ph |-> {q.def : q \in ph[b]}]

Versions(P, pd, n) ==
  {v \in {Src(P, n)} : n \in P.args}
  \cup {v \in UNION {pd[b] : b \in Blocks(P)} : v.web = n}
  \cup UNION {{Renamed(P, n, b, i) : i \in {k \in 1 .. Len(P.code[b]) : Redefines(P.code[b][k], n)}}
              : b \in Blocks(P)}

ReachesAt(dom, v, pt) == IsArgument(v) \/ Dominates(dom, v, pt)

\* Every path to the definition d passes the definition e before it.
Above(dom, e, d) == d.blk # 0 /\ ReachesAt(dom, e, <<d.blk, d.idx>>)
UpTo(dom, e, d)  == e = d \/ Above(dom, e, d)

Latest(P, dom, pd, n, pt, v) ==
  /\ v \in Versions(P, pd, n) /\ ReachesAt(dom, v, pt)
  /\ \A e \in Versions(P, pd, n) : ReachesAt(dom, e, pt) => UpTo(dom, e, v)

(***************************************************************************)
(* What map f knows of the versions in S, for a visit that came to pt: the *)
(* chain of a name starts with the latest version at pt, goes on from each *)
(* version with the latest one before it, and ends where nothing is known. *)
(***************************************************************************)
Chains(P, dom, pd, S, f, pt) ==
  /\ \A n \in Names(P) :
       /\ Src(P, n) \in DOMAIN f
       /\ \A e \in Versions(P, pd, n) \cap S :
            ReachesAt(dom, e, pt) => UpTo(dom, e, f[Src(P, n)])
  /\ \A d \in DOMAIN f : d # Src(P, d.web) =>
       /\ d \in Versions(P, pd, d.web) \cap S
       /\ \A e \in Versions(P, pd, d.web) \cap S : Above(dom, e, d) => UpTo(dom, e, f[d])
  /\ \A v \in DOMAIN f :
       /\ v.web \in Names(P)
       /\ \/ f[v] \in Versions(P, pd, v.web) \cap S
          \/ f[v] = v /\ v = Src(P, v.web) /\ v \notin S

\* A PHI of the block that the visit has not come to.
Waiting(v) ==
  /\ stage = "phi" /\ v.blk = bb /\ v.idx = 0
  /\ focus = <<bb, v>> \/ \E q \in todo : q.def = v

\* The versions and names whose definition the visit has passed.
Candidates ==
  UNION {Versions(fn.P, PHIDefs(phis), n) \cup {Src(fn.P, n)} : n \in Names(fn.P)}
Passed ==
  {v \in Candidates :
     v.blk = 0 \/ (v.blk \in seen /\ v.idx < VisitedTo[v.blk] /\ ~Waiting(v))}

\* Where the next PHI or instruction of the block is.
Here == IF stage = "phi" THEN <<bb, 1>> ELSE Point

LatestFor(n, pt, v) == Latest(fn.P, fn.dom, PHIDefs(phis), n, pt, v)

ChainsHold == Chains(fn.P, fn.dom, PHIDefs(phis), Passed, rd, Here)

\* The walk along a chain has left behind nothing that reaches the point.
WalkFollows ==
  ~Idle => \A e \in Versions(fn.P, PHIDefs(phis), walk.var.web) \cap Passed :
             ReachesAt(fn.dom, e, walk.pt) => UpTo(fn.dom, e, rd[walk.cur])

\* What update_reaching_definition finds is the latest version at the point it was asked for.
FoundIsLatest == \A k \in DOMAIN vals : LatestFor(vals[k].web, Point, vals[k])

VisitIsNewest == \A c \in seen : bb \in fn.dom[c] => c = bb

InvChains == stage # "names" => ChainsHold /\ WalkFollows /\ FoundIsLatest /\ VisitIsNewest

PHIsNamed ==
  \A b \in Blocks(fn.P) :
    /\ \A q \in phis[b] :
         /\ IF q.named = NoName THEN \E r \in fn.P.phis[b] : q.def = Src(fn.P, r.def)
            ELSE q.def = Val("phi", q.named, b, 0) /\ b # 1
         /\ \A r \in phis[b] : r.def = q.def => r = q
    /\ \A r \in fn.P.phis[b] : \E q \in phis[b] : q.def = Src(fn.P, r.def)

\* The names that PHI q of block b stands for on the edge from block x.
SlotNames(P, b, q, x) ==
  IF q.named # NoName THEN {q.named}
  ELSE {r.in[x] : r \in {s \in P.phis[b] : Src(P, s.def) = q.def}}

\* A slot holds its name until it is filled in, and then the latest version of it.
SlotsFilled ==
  \A b \in Blocks(fn.P) : \A q \in phis[b] : \A x \in Preds(fn.P, b) :
    \A n \in SlotNames(fn.P, b, q, x) :
      IF Pending(b, q, x) THEN q.in[x] = Src(fn.P, n)
      ELSE LatestFor(n, Terminator(fn.P, x), q.in[x])

FocusIsPHI ==
  stage = "phi" /\ focus # NoFocus =>
    /\ focus = <<bb, focus[2]>>
    /\ \E q \in phis[bb] \ todo : q.def = focus[2] /\ q.named # NoName
FocusIsSlot ==
  stage = "edge" /\ focus # NoFocus =>
    /\ focus[1] \in fn.P.succ[bb]
    /\ \E q \in phis[focus[1]] :
         /\ q.def = focus[2]
         /\ ~Idle => walk.var = q.in[bb]
         /\ \A k \in DOMAIN vals : vals[k].web = q.in[bb].web

InvSlots == PHIsNamed /\ SlotsFilled /\ FocusIsPHI /\ FocusIsSlot

(***************************************************************************)
(* PHIs are where definitions meet: a block at which a definition of n     *)
(* stops being the last on every path has a PHI for n, unless n itself is  *)
(* not defined on every path there, or is the incoming value of a PHI.     *)
(***************************************************************************)
PlaceFor(P, dom, n, f) ==
  /\ DefPos(P, n)[1] # 0 => \A p \in Preds(P, f) : DefPos(P, n)[1] \in dom[p]
  /\ \A q \in P.phis[f] : \A p \in Preds(P, f) : q.in[p] # n
HasPHI(pd, n, f) == Val("phi", n, f, 0) \in pd[f]
ClosedAt(P, dom, pd, n, b) ==
  \A f \in Frontier(P, dom, b) : PlaceFor(P, dom, n, f) => HasPHI(pd, n, f)

InvJoins ==
  /\ stage = "names" /\ current # NoName =>
       phi_parents = {b \in Blocks(fn.P) : HasPHI(PHIDefs(phis), current, b)}
  /\ stage # "names" => names_left = {}
  /\ current \notin names_left
  /\ \A n \in names_left : \A b \in Blocks(fn.P) : ~HasPHI(PHIDefs(phis), n, b)
  /\ \A n \in Names(fn.P) \ names_left : \A b \in Blocks(fn.P) :
       \/ stage = "names" /\ n = current /\ b \in worklist
       \/ b \in DefParents(fn.P, n) \/ HasPHI(PHIDefs(phis), n, b) =>
            ClosedAt(fn.P, fn.dom, PHIDefs(phis), n, b)
=============================================================================
