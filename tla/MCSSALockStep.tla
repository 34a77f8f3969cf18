---------------------------- MODULE MCSSALockStep ----------------------------
(***************************************************************************)
(* The functions the construction pass is model-checked on: four shapes of *)
(* control flow without critical edges, filled with short pieces of code.  *)
(* The sequences s and t are arguments, allocations, or t is split from s; *)
(* u is split off inside one block; a is an associative array.             *)
(***************************************************************************)
EXTENDS SSALockStep, TLC

CONSTANTS s, t, u, a, p

I(op, def, c) == [op |-> op, def |-> def, c |-> c]
Do(op, c)     == I(op, NoName, c)

Chain   == <<{}>>
Diamond == <<{2, 3}, {4}, {4}, {}>>
Loop    == <<{2}, {3, 4}, {2}, {}>>
\* A loop whose body branches.
LoopDiamond == <<{2}, {3, 7}, {4, 5}, {6}, {6}, {2}, {}>>

NoPHIs(succ) == [b \in 1 .. Len(succ) |-> {}]

Fn(args, succ, code) == [succ |-> succ, code |-> code, phis |-> NoPHIs(succ), args |-> args]

\* pre: arguments and entry code; x, y: two pieces; post: code of the exit.
Shapes(pre, x, y, post) ==
  {Fn(pre[1], Chain, <<pre[2] \o x \o y \o post>>),
   Fn(pre[1], Diamond, <<pre[2], x, y, post>>),
   Fn(pre[1], Loop, <<pre[2], x, y, post>>)}
Deep(pre, x, y, z, post) ==
  Fn(pre[1], LoopDiamond, <<pre[2], << >>, << >>, x, y, z, post>>)

-----------------------------------------------------------------------------
(* Sequences. *)

SeqStarts ==
  {<<{s, t}, << >>>>,
   <<{}, <<I("alloc", s, << >>), I("alloc", t, << >>)>>>>,
   <<{s}, <<I("MutSeqSplit", t, <<s>>)>>>>}

Write(n)  == Do("MutIndexWrite", <<n>>)
Read(n)   == Do("IndexRead", <<n>>)
Insert(n) == Do("MutSeqInsert", <<n>>)

SeqPieces ==
  {<< >>,
   <<Write(s), Read(s)>>,
   <<Read(t)>>,
   <<Do("MutSeqInsertSeq", <<s, t>>), Write(t)>>,
   <<Do("MutSeqSwap", <<s, t>>)>>,
   <<Do("MutSeqRemove", <<t>>), Do("size", <<s>>)>>}

\* Pieces put in one block only, because they define u or free t.
SeqOnce ==
  {<<Insert(t), Do("MutStructWrite", << >>), Do("MutSeqSwapWithin", <<s>>)>>,
   <<I("MutSeqSplit", u, <<s>>), Write(u), Do("MutSeqInsertSeq", <<t, u>>), Do("IndexGet", <<u>>)>>}

\* What the exit looks at.
SeqEnd == <<Read(t), Do("call", <<t, s>>)>>

SeqPrograms ==
  UNION {Shapes(pre, x, y, SeqEnd) :
           pre \in SeqStarts, x \in SeqPieces, y \in SeqPieces \cup SeqOnce}

\* t is appended to s, which frees it: in a loop the second round uses it again.
AppendPrograms ==
  UNION {Shapes(pre, x, <<Do("MutSeqAppend", <<s, t>>)>>, <<Do("return", <<s>>)>>) :
           pre \in SeqStarts, x \in SeqPieces}

DeepPrograms ==
  {Deep(pre, x, y, z, SeqEnd) :
     pre \in {<<{s, t}, << >>>>}, x \in {<< >>, <<Insert(s)>>},
     y \in {<< >>, <<Write(t)>>}, z \in {<< >>, <<Do("MutSeqSwap", <<s, t>>)>>}}

AllSeqPrograms == SeqPrograms \cup AppendPrograms \cup DeepPrograms

-----------------------------------------------------------------------------
(* PHIs of the front end: p is s or t, which are not used any more. *)

PHIs(P, b, q) == [P EXCEPT !.phis[b] = {q}]

Joined(pre, x, y) ==
  PHIs(Fn(pre[1], Diamond, <<pre[2], x, y, <<Write(p), Read(p)>>>>),
       4, [def |-> p, in |-> 2 :> s @@ 3 :> t])
Carried(pre, x, y) ==
  PHIs(Fn(pre[1], Loop, <<pre[2], <<Read(p)>>, x \o y, <<Read(p)>>>>),
       2, [def |-> p, in |-> 1 :> s @@ 3 :> p])

PHIPrograms ==
  {Joined(pre, x, y) : pre \in SeqStarts, x \in SeqPieces, y \in SeqPieces}
  \cup {Carried(pre, x, y) :
          pre \in SeqStarts, x \in {<< >>, <<Write(p)>>},
          y \in {<<Read(t)>>, <<Do("MutSeqSwap", <<p, t>>)>>}}

-----------------------------------------------------------------------------
(* Associative arrays. *)

AssocStarts == {<<{a}, << >>>>, <<{}, <<I("alloc", a, << >>), Do("AssocHas", <<a>>)>>>>}

AssocPieces ==
  {<< >>,
   <<Do("MutAssocWrite", <<a>>)>>,
   <<Do("MutAssocInsert", <<a>>), Do("AssocRead", <<a>>)>>,
   <<Do("AssocGet", <<a>>), Do("MutAssocRemove", <<a>>)>>,
   <<Do("keys", <<a>>)>>}

AssocPrograms ==
  UNION {Shapes(pre, x, y, <<Do("AssocRead", <<a>>), Do("return", <<a>>)>>) :
           pre \in AssocStarts, x \in AssocPieces, y \in AssocPieces}

\* Everything.
AllPrograms == AllSeqPrograms \cup PHIPrograms \cup AssocPrograms

\* A part of it, for the run that evaluates more per state.
SomePrograms ==
  UNION {Shapes(<<{s, t}, << >>>>, x, y, SeqEnd) :
           x \in {<<Write(s), Read(s)>>, <<Do("MutSeqSwap", <<s, t>>)>>}, y \in SeqPieces}
  \cup {Deep(<<{s, t}, << >>>>, <<Insert(s)>>, <<Write(t)>>,
              <<Do("MutSeqSwap", <<s, t>>)>>, SeqEnd)}
  \cup {Joined(<<{s, t}, << >>>>, << >>, y) : y \in SeqPieces}
  \cup {Carried(<<{s, t}, << >>>>, <<Write(p)>>, <<Read(t)>>)}
  \cup UNION {Shapes(<<{a}, << >>>>, <<Do("MutAssocInsert", <<a>>)>>, y, <<Do("AssocRead", <<a>>)>>) :
                 y \in AssocPieces}

-----------------------------------------------------------------------------
(* Functions the pass goes wrong on. *)

\* tests/unit/assoc_has: insert and write a key, then ask for it.
HasAfterWrite ==
  {Fn({}, Chain, <<<<I("alloc", a, << >>), Do("MutAssocInsert", <<a>>),
                     Do("MutAssocWrite", <<a>>), Do("AssocHas", <<a>>)>>>>)}

\* s is written in one branch, and read after a join that has a PHI of s.
ReadBesidePHI ==
  {PHIs(Fn({s, t}, Diamond, <<<< >>, <<Write(s)>>, << >>, <<Read(p), Read(s)>>>>),
        4, [def |-> p, in |-> 2 :> s @@ 3 :> t])}

\* What ResultIsVerified assumes of functions holds of these.
ASSUME SignaturesAssumption == SignaturesHold

ASSUME FaithfulAssumption == \A P \in AllPrograms : Faithful(P)
=============================================================================
