---------------------------- MODULE MCLiveRanges ----------------------------
(* All directed graphs on Nodes, and functions of one write and two reads. *)
EXTENDS DeadElements

CONSTANT Nodes

-----------------------------------------------------------------------------
(* Functions *)

Val(op, of, at, lo, hi) ==
  [op |-> op, of |-> of, at |-> at, within |-> TRUE, lo |-> lo, hi |-> hi]
Idx(op, lo, hi) == Val(op, << >>, 0, lo, hi)
Seqn(op, of)    == Val(op, of, 0, 0, 0)
At(op, of, at)  == Val(op, of, at, 0, 0)

Readers == {Idx("induction", 0, 2), Idx("induction", 1, 2), Idx("induction", 1, 3),
            Idx("bounded", 1, 2), Idx("overdefined", 0, 0)}

\* A sequence, three indices, a write, what becomes of its result, and two reads.
Shape(first, other, base, mid, reads) ==
  <<Seqn(base, << >>), Idx("overdefined", 0, 0), first, other, Idx("constant", 1, 1),
    At("IndexWrite", <<1>>, 2), mid>> \o reads

Middles == {Seqn("UsePHI", <<6>>), At("IndexWrite", <<6>>, 2), Seqn("PHI", <<6, 1>>),
            Seqn("PHI", <<6, 6>>), At("SeqCopy", <<6>>, 5), At("SeqInsert", <<6>>, 5)}

Reads == {<<At("IndexRead", <<7>>, 3)>>,
          <<At("IndexRead", <<7>>, 3), At("IndexGet", <<7>>, 3)>>,
          <<At("IndexRead", <<7>>, 3), At("IndexRead", <<7>>, 4)>>,
          <<At("IndexRead", <<7>>, 3), At("IndexRead", <<6>>, 4)>>,
          <<At("IndexRead", <<6>>, 3)>>,
          <<At("IndexRead", <<7>>, 3), At("IndexRead", <<1>>, 4)>>,
          <<At("SeqCopy", <<7>>, 5), At("IndexRead", <<8>>, 3)>>,
          <<At("IndexRead", <<7>>, 3), At("SeqSwapWithin", <<1>>, 5)>>,
          <<[At("IndexRead", <<7>>, 3) EXCEPT !.within = FALSE]>>}

\* A loop whose PHI merges the sequence with the last of the writes in it.
Loop(first, other, writes, reads) ==
  <<Seqn("sequence", << >>), Idx("overdefined", 0, 0), first, other,
    Seqn("PHI", <<1, 5 + writes>>)>>
  \o [k \in 1 .. writes |-> At("IndexWrite", <<4 + k>>, 2)] \o reads

LoopReads(last) ==
  {<< >>, <<At("IndexRead", <<5>>, 3)>>, <<At("IndexRead", <<last>>, 3)>>,
   <<At("IndexRead", <<5>>, 3), At("IndexRead", <<last>>, 3)>>,
   <<At("IndexRead", <<5>>, 3), At("IndexRead", <<last>>, 4)>>}

Loops(writes) == {Loop(a, b, writes, r) : a \in Readers, b \in Readers, r \in LoopReads(5 + writes)}

\* Constants are no indices of reads, and nothing is read by a call.
Straight == {Shape(a, b, base, m, r) : a \in Readers, b \in Readers,
                                    base \in {"sequence", "SeqAlloc"}, m \in Middles, r \in Reads}

\* Loops of one write: see Loops(2) for what the order of a component does.
Plain == Straight \cup Loops(1)
Twice == Loops(2)

-----------------------------------------------------------------------------
(* Graphs *)

IsPermutation(f) == \A x, y \in DOMAIN f : f[x] = f[y] => x = y
Addresses(S) == {f \in [S -> 1 .. Cardinality(S)] : IsPermutation(f)}

Unstarted == StartTarjan /\ StartOrder /\ calls = << >> /\ visited = {} /\ guards = << >>

NoFunction == fn = None /\ line = 0 /\ range = << >> /\ todo = << >> /\ members = {}

InitGraph ==
  /\ Unstarted /\ NoFunction
  /\ \E E \in SUBSET (Nodes \X Nodes) :
       LET G == [node |-> Nodes, edge |-> E]
       IN  \/ phase = "components" /\ graph = G /\ condensation = NoGraph
           \/ phase = "order" /\ graph = NoGraph /\ condensation = G
  /\ address = [n \in Nodes |-> n]
  /\ GraphInit

\* Two orders of the addresses: as the values come, and the other way round.
InitFunction ==
  /\ Unstarted /\ condensation = NoGraph
  /\ \E f \in Functions : StartConstruct(f) /\
       address \in {[v \in DOMAIN f |-> v], [v \in DOMAIN f |-> Len(f) - v]}

Spec == (InitGraph \/ InitFunction) /\ [][EliminationNext]_vars /\ WF_vars(EliminationNext)
=============================================================================
