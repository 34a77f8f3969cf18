----------------------- MODULE SSAConstructionProofs -----------------------
(***************************************************************************)
(* The construction pass, for every set of well-formed functions and with  *)
(* or without use-PHIs: each reaching definition it finds exists and       *)
(* dominates the point it is used at, and the chains it follows stay in    *)
(* the web of their variable.  Then what it leaves behind: no mutable      *)
(* instruction, and only operands and incoming values that are defined on  *)
(* every path to their use.  Last, that it finds the right ones: of the    *)
(* versions of a name, the one that every path to the point defines last.  *)
(***************************************************************************)
EXTENDS SSAConstruction, FiniteSetTheorems, SequenceTheorems, WellFoundedInduction, TLAPS

-----------------------------------------------------------------------------
(* Natural numbers. *)

\* A set of naturals has a least member.
LEMMA LeastNat ==
  ASSUME NEW T \in SUBSET Nat, T # {}
  PROVE  \E n \in T : \A k \in T : n <= k
<1> DEFINE R == {ss \in Nat \X Nat : ss[1] < ss[2]}
<1>1. IsWellFoundedOn(R, Nat)
  BY NatLessThanWellFounded DEF OpToRel
<1>2. \A y, x \in Nat : y < x => <<y, x>> \in R
  OBVIOUS
<1> HIDE DEF R
<1>3. PICK x \in T : \A y \in T : ~(<<y, x>> \in R)
  BY <1>1, WFMin
<1>4. \A y \in T : x <= y
  <2> TAKE y \in T
  <2>1. x \in Nat /\ y \in Nat
    OBVIOUS
  <2>2. ~(y < x)
    BY <1>2, <1>3, <2>1
  <2> QED
    BY <2>1, <2>2
<1> QED
  BY <1>4

\* Induction up to m: the least number that is not in Q would have none before it.
LEMMA CountUp ==
  ASSUME NEW m \in Nat, NEW Q, 0 \in Q, \A k \in 1 .. m : k - 1 \in Q => k \in Q
  PROVE  \A k \in 0 .. m : k \in Q
<1> DEFINE T == {k \in 0 .. m : k \notin Q}
<1>1. ASSUME T # {} PROVE FALSE
  <2>1. T \in SUBSET Nat
    OBVIOUS
  <2>2. \A k \in T : k \in 0 .. m /\ k \notin Q
    OBVIOUS
  <2>3. \A k \in 0 .. m : k \notin T => k \in Q
    OBVIOUS
  <2> HIDE DEF T
  <2>4. PICK n \in T : \A k \in T : n <= k
    BY <1>1, <2>1, LeastNat
  <2>5. n \in 1 .. m /\ n \notin Q
    BY <2>2
  <2>6. n - 1 \in 0 .. m /\ ~(n <= n - 1)
    BY <2>5
  <2>7. n - 1 \in Q
    BY <2>3, <2>4, <2>6
  <2> QED
    BY <2>5, <2>7
<1> QED
  BY <1>1

-----------------------------------------------------------------------------
(* Dominators. *)

\* The blocks reached without entering avoid hold the entry and are closed.
LEMMA ReachClosed ==
  ASSUME NEW P, 1 \in Blocks(P), NEW d
  PROVE  ClosedFrom(P, d, ReachAvoiding(P, d))
<1>1. 1 # d => 1 \in ReachAvoiding(P, d)
  BY DEF ReachAvoiding, ClosedFrom
<1>2. ASSUME NEW p \in ReachAvoiding(P, d), NEW b \in Blocks(P), b \in P.succ[p], b # d
      PROVE  b \in ReachAvoiding(P, d)
  BY <1>2 DEF ReachAvoiding, ClosedFrom
<1> QED
  BY <1>1, <1>2 DEF ClosedFrom

\* They are the least such set.
LEMMA ReachLeast ==
  ASSUME NEW P, NEW d, NEW S \in SUBSET Blocks(P), ClosedFrom(P, d, S)
  PROVE  ReachAvoiding(P, d) \subseteq S
  BY DEF ReachAvoiding

LEMMA DominatesItself ==
  ASSUME NEW P, 1 \in Blocks(P), NEW b \in Blocks(P)
  PROVE  b \notin ReachAvoiding(P, b) /\ b \in Dominators(P)[b] /\ 1 \in Dominators(P)[b]
<1>1. b \notin ReachAvoiding(P, b)
  <2> DEFINE S == ReachAvoiding(P, b) \ {b}
  <2>1. S \in SUBSET Blocks(P)
    BY DEF ReachAvoiding
  <2>2. ClosedFrom(P, b, S)
    BY ReachClosed DEF ClosedFrom
  <2> QED
    BY <2>1, <2>2, ReachLeast
<1>2. b \notin ReachAvoiding(P, 1)
  <2>1. ClosedFrom(P, 1, {})
    BY DEF ClosedFrom
  <2>2. ReachAvoiding(P, 1) \subseteq {}
    BY <2>1, ReachLeast
  <2> QED
    BY <2>2
<1> QED
  BY <1>1, <1>2 DEF Dominators

LEMMA DominatesOn ==
  ASSUME NEW P, 1 \in Blocks(P), NEW b \in Blocks(P), NEW a \in Dominators(P)[b]
  PROVE  Dominators(P)[a] \subseteq Dominators(P)[b]
<1> SUFFICES ASSUME NEW c \in Dominators(P)[a]
             PROVE  c \in Dominators(P)[b]
  OBVIOUS
<1>1. a \in Blocks(P) /\ b \notin ReachAvoiding(P, a)
  BY DEF Dominators
<1>2. c \in Blocks(P) /\ a \notin ReachAvoiding(P, c)
  BY <1>1 DEF Dominators
<1> DEFINE S == ReachAvoiding(P, c) \cap ReachAvoiding(P, a)
<1>3. S \in SUBSET Blocks(P)
  BY DEF ReachAvoiding
<1>4. ClosedFrom(P, c, S)
  BY <1>2, ReachClosed DEF ClosedFrom
<1>5. ReachAvoiding(P, c) \subseteq S
  BY <1>3, <1>4, ReachLeast
<1> QED
  BY <1>1, <1>2, <1>5 DEF Dominators

\* Of two blocks that dominate a block that can be reached, one dominates the other.
LEMMA DominatorsAreAChain ==
  ASSUME NEW P, 1 \in Blocks(P), Blocks(P) \subseteq ReachAvoiding(P, 0),
         NEW b \in Blocks(P), NEW a \in Dominators(P)[b], NEW c \in Dominators(P)[b]
  PROVE  a \in Dominators(P)[c] \/ c \in Dominators(P)[a]
<1>1. /\ a \in Blocks(P) /\ b \notin ReachAvoiding(P, a)
      /\ c \in Blocks(P) /\ b \notin ReachAvoiding(P, c)
  BY DEF Dominators
<1> SUFFICES ASSUME c \in ReachAvoiding(P, a), a \in ReachAvoiding(P, c)
             PROVE  FALSE
  BY <1>1 DEF Dominators
<1> DEFINE S == ReachAvoiding(P, a) \cup ReachAvoiding(P, c)
<1>2. S \in SUBSET Blocks(P)
  BY DEF ReachAvoiding
<1>3. a # c
  BY <1>1, DominatesItself
<1>4. ClosedFrom(P, 0, S)
  <2>1. ClosedFrom(P, a, ReachAvoiding(P, a)) /\ ClosedFrom(P, c, ReachAvoiding(P, c))
    BY ReachClosed
  <2> QED
    BY <1>3, <2>1 DEF ClosedFrom
<1>5. ReachAvoiding(P, 0) \subseteq S
  BY <1>2, <1>4, ReachLeast
<1> QED
  BY <1>1, <1>5

LEMMA ImmediateDominator ==
  ASSUME NEW P, 1 \in Blocks(P), Blocks(P) \subseteq ReachAvoiding(P, 0), IsFiniteSet(Blocks(P)),
         NEW b \in Blocks(P), b # 1, NEW dom, dom = Dominators(P)
  PROVE  IDom(dom, b) \in dom[b] \ {b} /\ dom[b] \ {b} \subseteq dom[IDom(dom, b)]
<1> DEFINE D == dom[b] \ {b}
           N == Cardinality(Blocks(P))
           Q == {n \in Nat : \E a \in D : n = N - Cardinality(dom[a])}
<1>1. 1 \in D
  BY DominatesItself
<1>2. \A a \in D : a \in Blocks(P) /\ dom[a] \subseteq Blocks(P)
  BY DEF Dominators
<1>3. \A a \in D : /\ IsFiniteSet(dom[a]) /\ Cardinality(dom[a]) \in Nat
                   /\ N - Cardinality(dom[a]) \in Nat
  <2> SUFFICES ASSUME NEW a \in D
               PROVE  /\ IsFiniteSet(dom[a]) /\ Cardinality(dom[a]) \in Nat
                      /\ N - Cardinality(dom[a]) \in Nat
    OBVIOUS
  <2>1. IsFiniteSet(dom[a]) /\ Cardinality(dom[a]) <= N
    BY <1>2, FS_Subset
  <2>2. Cardinality(dom[a]) \in Nat /\ N \in Nat
    BY <2>1, FS_CardinalityType
  <2> HIDE DEF N
  <2> QED
    BY <2>1, <2>2
<1>4. N \in Nat
  BY FS_CardinalityType
<1> HIDE DEF N
<1>5. PICK n \in Q : \A k \in Q : n <= k
  <2>1. N - Cardinality(dom[1]) \in Q
    BY <1>1, <1>3
  <2> HIDE DEF Q
  <2>2. Q \in SUBSET Nat
    BY DEF Q
  <2> QED
    BY <2>1, <2>2, LeastNat
<1>6. PICK a \in D : n = N - Cardinality(dom[a])
  BY DEF Q
<1>7. \A c \in D : Cardinality(dom[c]) <= Cardinality(dom[a])
  BY <1>3, <1>4, <1>5, <1>6
<1>8. D \subseteq dom[a]
  <2> SUFFICES ASSUME NEW c \in D, c \notin dom[a]
               PROVE  FALSE
    OBVIOUS
  <2>1. a \in dom[c]
    BY DominatorsAreAChain
  <2>2. dom[a] \subseteq dom[c] /\ c \in dom[c]
    BY <1>2, <2>1, DominatesOn, DominatesItself
  <2>3. dom[a] # dom[c]
    BY <2>2
  <2>4. Cardinality(dom[a]) < Cardinality(dom[c])
    BY <1>3, <2>2, <2>3, FS_Subset, FS_CardinalityType
  <2> QED
    BY <1>3, <1>7, <2>4
<1> QED
  BY <1>8 DEF IDom

\* A traversal of the dominator tree comes to a block after all that dominate it.
LEMMA DominatorsFirst ==
  ASSUME NEW P, 1 \in Blocks(P), Blocks(P) \subseteq ReachAvoiding(P, 0), IsFiniteSet(Blocks(P)),
         NEW dom, dom = Dominators(P), NEW seen0, 1 \in seen0, NEW last \in seen0,
         \A b \in seen0 : dom[b] \subseteq seen0, NEW b \in NextInPreorder(P, dom, seen0, last)
  PROVE  b \in Blocks(P) \ seen0 /\ dom[b] \subseteq seen0 \cup {b}
<1>1. b \in Blocks(P) \ seen0 /\ IDom(dom, b) \in dom[last]
  BY DEF NextInPreorder
<1>2. dom[b] \ {b} \subseteq dom[IDom(dom, b)]
  BY <1>1, ImmediateDominator
<1> QED
  BY <1>1, <1>2

(***************************************************************************)
(* What the pass tests before it inserts a PHI, that the name's block      *)
(* dominates every predecessor of the join, makes it dominate the join     *)
(* itself, and strictly.                                                   *)
(***************************************************************************)
LEMMA JoinDominance ==
  ASSUME NEW P, WellShaped(P), NEW b \in Blocks(P), b # 1, NEW d \in Blocks(P),
         \A p \in Preds(P, b) : d \in Dominators(P)[p]
  PROVE  d # b /\ d \in Dominators(P)[b]
<1>0. 1 \in Blocks(P)
  BY DEF WellShaped, Blocks
<1>1. \A p \in Preds(P, b) : p \notin ReachAvoiding(P, d)
  BY DEF Dominators, Preds
<1>2. d \in Dominators(P)[b]
  <2> DEFINE S == ReachAvoiding(P, d) \ {b}
  <2>1. S \in SUBSET Blocks(P)
    BY DEF ReachAvoiding
  <2>2. ClosedFrom(P, d, S)
    BY <1>0, <1>1, <2>1, ReachClosed DEF ClosedFrom, Preds, ReachAvoiding
  <2>3. b \notin ReachAvoiding(P, d)
    BY <2>1, <2>2, ReachLeast
  <2> QED
    BY <2>3 DEF Dominators
<1>3. d # b
  <2> SUFFICES ASSUME d = b PROVE FALSE
    OBVIOUS
  <2>1. ReachAvoiding(P, b) \in SUBSET Blocks(P)
    BY DEF ReachAvoiding
  <2>2. ClosedFrom(P, 0, ReachAvoiding(P, b))
    BY <1>0, <1>1, <2>1, ReachClosed DEF ClosedFrom, Preds
  <2>3. b \in ReachAvoiding(P, b)
    BY <2>1, <2>2, ReachLeast DEF WellShaped
  <2> DEFINE S == ReachAvoiding(P, b) \ {b}
  <2>4. ClosedFrom(P, b, S)
    BY <1>0, ReachClosed DEF ClosedFrom
  <2> QED
    BY <2>1, <2>3, <2>4, ReachLeast
<1> QED
  BY <1>2, <1>3

\* Two blocks do not dominate each other.
LEMMA DominanceIsAnOrder ==
  ASSUME NEW P, WellShaped(P), NEW a \in Blocks(P), NEW b \in Dominators(P)[a],
         a \in Dominators(P)[b]
  PROVE  a = b
<1>1. /\ 1 \in Blocks(P) /\ Blocks(P) \subseteq ReachAvoiding(P, 0)
      /\ b \in Blocks(P) /\ a \notin ReachAvoiding(P, b) /\ b \notin ReachAvoiding(P, a)
  BY DEF Dominators, WellShaped, Blocks
<1> SUFFICES ASSUME a # b
             PROVE  FALSE
  OBVIOUS
<1> DEFINE S == ReachAvoiding(P, a) \cap ReachAvoiding(P, b)
<1>2. S \in SUBSET Blocks(P)
  BY DEF ReachAvoiding
<1>3. ClosedFrom(P, a, ReachAvoiding(P, a)) /\ ClosedFrom(P, b, ReachAvoiding(P, b))
  BY <1>1, ReachClosed
<1>4. 1 # a /\ 1 # b
  BY <1>1, <1>3 DEF ClosedFrom
<1>5. ClosedFrom(P, 0, S)
  <2>1. 1 \in S
    BY <1>3, <1>4 DEF ClosedFrom
  <2>2. ASSUME NEW p \in S, NEW x \in Blocks(P), x \in P.succ[p]
        PROVE  x \in S
    BY <1>1, <1>3, <2>2 DEF ClosedFrom
  <2> QED
    BY <2>1, <2>2 DEF ClosedFrom
<1>6. ReachAvoiding(P, 0) \subseteq S
  BY <1>2, <1>5, ReachLeast
<1> QED
  BY <1>1, <1>6

\* What dominates a block, and is not it, dominates the blocks before it.
LEMMA DominatesBefore ==
  ASSUME NEW P, WellShaped(P), NEW b \in Blocks(P), NEW p \in Preds(P, b),
         NEW a \in Dominators(P)[b], a # b
  PROVE  a \in Dominators(P)[p]
<1>1. p \in Blocks(P) /\ b \in P.succ[p]
  BY DEF Preds
<1>2. a \in Blocks(P) /\ b \notin ReachAvoiding(P, a)
  BY DEF Dominators
<1>3. p \notin ReachAvoiding(P, a)
  <2> SUFFICES ASSUME p \in ReachAvoiding(P, a) PROVE FALSE
    OBVIOUS
  <2>1. 1 \in Blocks(P)
    BY DEF WellShaped, Blocks
  <2>2. ClosedFrom(P, a, ReachAvoiding(P, a))
    BY <2>1, ReachClosed
  <2> QED
    BY <1>1, <1>2, <2>2 DEF ClosedFrom
<1> QED
  BY <1>1, <1>2, <1>3 DEF Dominators

-----------------------------------------------------------------------------
(* Names and their definitions. *)

\* A name is an argument or defined in a block, at a PHI or an instruction of it.
LEMMA DefPosType ==
  ASSUME NEW P, WellFormed(P), NEW n \in Names(P)
  PROVE  \/ DefPos(P, n) = <<0, 0>>
         \/ \E b \in Blocks(P) : \E i \in 0 .. Len(P.code[b]) : DefPos(P, n) = <<b, i>>
<1>1. CASE n \in P.args
  BY <1>1 DEF DefPos
<1>2. CASE n \notin P.args /\ \E b \in Blocks(P) : \E q \in P.phis[b] : q.def = n
  <2>1. PICK b \in Blocks(P) : \E q \in P.phis[b] : q.def = n
    BY <1>2
  <2>2. DefPos(P, n) = <<b, 0>>
    BY <2>1 DEF WellFormed, SingleDefs
  <2>3. 0 \in 0 .. Len(P.code[b])
    BY DEF WellFormed, WellTyped
  <2> QED
    BY <2>2, <2>3
<1>3. CASE n \notin P.args /\ ~\E b \in Blocks(P) : \E q \in P.phis[b] : q.def = n
  <2>1. PICK b \in Blocks(P) : \E i \in 1 .. Len(P.code[b]) : P.code[b][i].def = n
    BY <1>3 DEF Names, InCode, InPHIs
  <2>2. PICK i \in 1 .. Len(P.code[b]) : P.code[b][i].def = n
    BY <2>1
  <2>3. DefPos(P, n) = <<b, i>>
    BY <2>2 DEF WellFormed, SingleDefs, Names
  <2>4. i \in 0 .. Len(P.code[b])
    BY DEF WellFormed, WellTyped
  <2> QED
    BY <2>3, <2>4
<1> QED
  BY <1>1, <1>2, <1>3

LEMMA NoNameIsNoName ==
  ASSUME NEW P PROVE NoName \notin Names(P)
  BY DEF Names

\* The fields of a source value.
LEMMA SrcFields ==
  ASSUME NEW P, WellFormed(P), NEW n \in Names(P)
  PROVE  /\ Src(P, n) = [kind |-> "src", web |-> n, blk |-> DefPos(P, n)[1],
                         idx |-> DefPos(P, n)[2]]
         /\ Src(P, n).blk \in Nat /\ Src(P, n).idx \in Nat
<1>1. DefPos(P, n)[1] \in Nat /\ DefPos(P, n)[2] \in Nat
  <2>1. \A b \in Blocks(P) : b \in Nat /\ Len(P.code[b]) \in Nat
    BY DEF Blocks, WellFormed, WellTyped
  <2> QED
    BY <2>1, DefPosType
<1> QED
  BY <1>1 DEF Src, Val

(***************************************************************************)
(* Where NeedsPHI holds the name reaches the new PHI and every edge to it. *)
(***************************************************************************)
LEMMA NewPHIReached ==
  ASSUME NEW P, WellFormed(P), NEW n \in Names(P), NEW b \in Blocks(P), b # 1,
         DefPos(P, n)[1] # 0 =>
           \A p \in Preds(P, b) : DefPos(P, n)[1] \in Dominators(P)[p]
  PROVE  /\ IsArgument(Src(P, n)) \/ Dominates(Dominators(P), Src(P, n), <<b, 0>>)
         /\ \A p \in Preds(P, b) :
              \/ IsArgument(Src(P, n))
              \/ Dominates(Dominators(P), Src(P, n), Terminator(P, p))
<1>1. CASE DefPos(P, n)[1] = 0
  BY <1>1, SrcFields DEF IsArgument
<1>2. CASE DefPos(P, n)[1] # 0
  <2>1. PICK d \in Blocks(P) : \E i \in 0 .. Len(P.code[d]) : DefPos(P, n) = <<d, i>>
    BY <1>2, DefPosType
  <2>2. PICK i \in 0 .. Len(P.code[d]) : DefPos(P, n) = <<d, i>>
    BY <2>1
  <2>3. d # b /\ d \in Dominators(P)[b]
    BY <1>2, <2>2, JoinDominance DEF WellFormed
  <2>4. Dominates(Dominators(P), Src(P, n), <<b, 0>>)
    BY <2>2, <2>3, SrcFields DEF Dominates
  <2>5. ASSUME NEW p \in Preds(P, b)
        PROVE  Dominates(Dominators(P), Src(P, n), Terminator(P, p))
    <3>1. d \in Dominators(P)[p]
      BY <1>2, <2>2
    <3>2. Src(P, n).blk = d /\ Src(P, n).idx = i
      BY <2>2, SrcFields
    <3>3. Len(P.code[d]) \in Nat
      BY DEF WellFormed, WellTyped
    <3> QED
      BY <3>1, <3>2, <3>3 DEF Dominates, Terminator
  <2> QED
    BY <2>4, <2>5
<1> QED
  BY <1>1, <1>2

\* A block of a dominance frontier has a predecessor, so it is not the entry.
LEMMA FrontierNotEntry ==
  ASSUME NEW P, WellFormed(P), NEW dom, NEW b, NEW f \in Frontier(P, dom, b)
  PROVE  f \in Blocks(P) /\ f # 1
  BY DEF Frontier, Preds, WellFormed, WellShaped

-----------------------------------------------------------------------------
(* Inserting PHIs. *)

LEMMA FnFacts ==
  ASSUME IInv
  PROVE  WellFormed(fn.P) /\ fn.dom = Dominators(fn.P)
  BY ProgramsAssumption DEF IInv, InvFn, Analyzed

\* While the function and its PHIs stay, InvPHIs only asks for less.
LEMMA PHIsKept ==
  ASSUME InvPHIs, UNCHANGED <<fn, phis>>,
         \A b \in Blocks(fn.P) : \A q \in phis[b] : \A x \in Preds(fn.P, b) :
            Unfilled(b, q, x)' => Unfilled(b, q, x)
  PROVE  InvPHIs'
<1>1. \A v, pt : SourceAt(v, pt)' <=> SourceAt(v, pt)
  BY DEF SourceAt, Reaches
<1> SUFFICES ASSUME NEW b \in Blocks(fn.P), NEW q \in phis[b]
             PROVE  PHIOK(b, q)'
  BY DEF InvPHIs
<1>2. PHIOK(b, q)
  BY DEF InvPHIs
<1> QED
  BY <1>1, <1>2 DEF PHIOK, Reaches

LEMMA StartNameStep ==
  ASSUME IInv, NEW n \in names_left, StartName(n)
  PROVE  IInv'
<1> USE DEF StartName, visitVars, IInv
<1>1. TypeOK'
  <2>1. n \in Names(fn.P)
    BY DEF TypeOK
  <2>2. DefParents(fn.P, n)  \subseteq Blocks(fn.P)
    BY <2>1, FnFacts, DefPosType DEF DefParents
  <2> QED
    BY <2>1, <2>2 DEF TypeOK, Value, PHI
<1>2. InvFn'
  BY DEF InvFn, TypeOK, Analyzed
<1>3. InvPHIs'
  BY PHIsKept DEF Unfilled
<1>4. InvMap'
  BY DEF InvMap, MapOK, Known
<1>5. InvWalk' /\ InvVals'
  BY DEF InvVals, InvWalk, Idle
<1>6. InvTodo'
  BY DEF InvTodo
<1> QED
  BY <1>1, <1>2, <1>3, <1>4, <1>5, <1>6

LEMMA InsertPHIsStep ==
  ASSUME IInv, NEW b \in worklist, InsertPHIs(b)
  PROVE  IInv'
<1> USE DEF InsertPHIs, visitVars, IInv
<1> DEFINE new == {f \in Frontier(fn.P, fn.dom, b) : NeedsPHI(current, f)}
<1>1. current \in Names(fn.P)
  BY DEF InvFn
<1>2. WellFormed(fn.P) /\ fn.dom = Dominators(fn.P)
  BY FnFacts
<1>3. new \subseteq Blocks(fn.P)
  BY <1>2, FrontierNotEntry
<1>4. ASSUME NEW f \in new
      PROVE  /\ NewPHI(current, f) \in PHI(f)
             /\ PHIOK(f, NewPHI(current, f))
  <2>1. f \in Blocks(fn.P) /\ f # 1
    BY <1>2, FrontierNotEntry
  <2>2. /\ Reaches(Src(fn.P, current), <<f, 0>>)
        /\ \A p \in Preds(fn.P, f) : Reaches(Src(fn.P, current), Terminator(fn.P, p))
    BY <1>1, <1>2, <2>1, NewPHIReached DEF NeedsPHI, Reaches
  <2>3. Src(fn.P, current) \in Value /\ Src(fn.P, current).web = current
    BY <1>1, <1>2, SrcFields DEF Value
  <2>4. Val("phi", current, f, 0) \in Value
    BY <1>1, <2>1 DEF Value, Val, Blocks
  <2>5. NewPHI(current, f) \in PHI(f)
    BY <1>1, <2>3, <2>4 DEF NewPHI, PHI
  <2>6. current # NoName
    BY <1>1, NoNameIsNoName
  <2>7. /\ NewPHI(current, f).def.web = current /\ NewPHI(current, f).named = current
        /\ \A p \in Preds(fn.P, f) : NewPHI(current, f).in[p] = Src(fn.P, current)
    BY DEF NewPHI, Val
  <2>8. PHIOK(f, NewPHI(current, f))
    BY <1>1, <2>2, <2>3, <2>6, <2>7 DEF PHIOK, SourceAt
  <2> QED
    BY <2>5, <2>8
<1>5. /\ DOMAIN phis = Blocks(fn.P)
      /\ \A f \in Blocks(fn.P) :
           phis'[f] = IF f \in new THEN phis[f] \cup {NewPHI(current, f)} ELSE phis[f]
  BY DEF TypeOK
<1>6. TypeOK'
  <2>1. ASSUME NEW f \in Blocks(fn.P) PROVE phis'[f] \subseteq PHI(f)
    <3>1. phis[f] \subseteq PHI(f)
      BY DEF TypeOK
    <3> QED
      BY <1>4, <1>5, <3>1
  <2>2. \A f : PHI(f)' = PHI(f)
    BY DEF PHI, Value
  <2>3. DOMAIN phis' = Blocks(fn.P)
    BY <1>5
  <2> QED
    BY <1>3, <2>1, <2>2, <2>3 DEF TypeOK, Value
<1>7. InvFn'
  BY <1>1 DEF InvFn, Analyzed
<1>8. InvPHIs'
  <2>1. ASSUME NEW f \in Blocks(fn.P), NEW q \in phis'[f] PROVE PHIOK(f, q)
    BY <1>4, <1>5, <2>1 DEF InvPHIs
  <2>2. \A f, q : PHIOK(f, q)' <=> PHIOK(f, q)
    BY DEF PHIOK, Unfilled, SourceAt, Reaches
  <2> QED
    BY <2>1, <2>2 DEF InvPHIs
<1>9. InvMap'
  BY DEF InvMap, MapOK, Known
<1>10. InvWalk' /\ InvVals' /\ InvTodo'
  BY DEF InvVals, InvWalk, InvTodo, Idle
<1> QED
  BY <1>6, <1>7, <1>8, <1>9, <1>10

LEMMA BeginRenameStep ==
  ASSUME IInv, BeginRename
  PROVE  IInv'
<1> USE DEF BeginRename, insertVars, IInv
<1>1. ASSUME NEW n \in Names(fn.P)
      PROVE  Src(fn.P, n) \in Value /\ Src(fn.P, n).web = n
  BY FnFacts, SrcFields DEF Value
<1>2. TypeOK'
  BY <1>1 DEF TypeOK, Value, PHI
<1>3. InvFn'
  BY DEF InvFn, Analyzed
<1>4. InvPHIs'
  BY PHIsKept DEF Unfilled
<1>5. InvMap'
  BY <1>1 DEF InvMap, MapOK, Known
<1>6. InvWalk' /\ InvVals' /\ InvTodo'
  BY DEF InvVals, InvWalk, InvTodo, Idle
<1> QED
  BY <1>2, <1>3, <1>4, <1>5, <1>6

-----------------------------------------------------------------------------
(* Following a chain. *)

LEMMA FollowChainStep ==
  ASSUME IInv, FollowChain
  PROVE  IInv'
<1> USE DEF FollowChain, insertVars, visitVars, IInv
<1>1. /\ walk.cur \in DOMAIN rd /\ NextDef = rd[walk.cur]
      /\ NextDef.web = walk.var.web /\ Known(rd, NextDef)
  BY DEF InvWalk, InvMap, MapOK, NextDef
<1>2. SourceAt(walk.var, walk.pt)
  BY DEF InvWalk
<1>3. NextDef \in DOMAIN rd
  <2> SUFFICES ASSUME NextDef \notin DOMAIN rd PROVE FALSE
    OBVIOUS
  <2>1. NextDef.blk \in Blocks(fn.P) /\ DefPos(fn.P, walk.var.web) = <<NextDef.blk, NextDef.idx>>
    BY <1>1 DEF Known
  <2>2. walk.var.blk = NextDef.blk /\ walk.var.idx = NextDef.idx
    BY <1>2, <2>1, FnFacts, SrcFields DEF SourceAt
  <2>3. Dominates(fn.dom, NextDef, walk.pt)
    BY <1>2, <2>1, <2>2 DEF SourceAt, Reaches, IsArgument, Dominates, Blocks
  <2> QED
    BY <2>3 DEF ChainEnds
<1>4. walk' = [var |-> walk.var, cur |-> NextDef, pt |-> walk.pt] /\ ~Idle
  BY DEF TypeOK
<1>5. TypeOK'
  BY <1>1, <1>4 DEF TypeOK, Value, PHI
<1>6. InvFn'
  BY DEF InvFn, Analyzed
<1>7. InvPHIs'
  BY PHIsKept DEF Unfilled
<1>8. InvMap'
  BY DEF InvMap, MapOK, Known
<1>9. InvWalk'
  BY <1>1, <1>3, <1>4 DEF InvWalk, SourceAt, Reaches, Point, Sought, SoughtAt
<1>10. Idle' => Idle
  BY <1>4, <1>1, NoNameIsNoName, <1>2 DEF Idle, NoWalk, SourceAt, Null, Val
<1>11. InvVals' /\ InvTodo'
  BY <1>10 DEF InvVals, InvTodo, Known, Reaches, Point, Sought, SoughtAt, Value
<1> QED
  BY <1>5, <1>6, <1>7, <1>8, <1>9, <1>11

\* Keys and definitions are values, and chains stay in their webs.
RdOK(f) == DOMAIN f \subseteq Value /\ (\A v \in DOMAIN f : f[v] \in Value) /\ MapOK(f)

\* One assignment keeps the chains in their webs.
LEMMA SetDefOK ==
  ASSUME NEW f, RdOK(f), NEW x \in Value, NEW d \in Value, x.web \in Names(fn.P),
         d.web = x.web, Known(f, d) \/ d = x
  PROVE  RdOK(SetDef(f, x, d)) /\ DOMAIN f \subseteq DOMAIN SetDef(f, x, d)
<1>1. ASSUME NEW v, Known(f, v) PROVE Known(SetDef(f, x, d), v)
  BY <1>1 DEF Known, SetDef
<1>2. Known(SetDef(f, x, d), x)
  BY DEF Known, SetDef
<1>3. MapOK(SetDef(f, x, d))
  BY <1>1, <1>2 DEF RdOK, MapOK, SetDef
<1> QED
  BY <1>3 DEF RdOK, SetDef

\* A variable x gets the new definition y, whose own chain goes on with z.
LEMMA PushOK ==
  ASSUME NEW f, RdOK(f), NEW x \in Value, NEW y \in Value, NEW z \in Value,
         x.web \in Names(fn.P), y.web = x.web, z.web = x.web, Known(f, z) \/ z = y
  PROVE  /\ RdOK(SetDef(SetDef(f, x, y), y, z))
         /\ DOMAIN f \subseteq DOMAIN SetDef(SetDef(f, x, y), y, z)
<1> DEFINE g == SetDef(SetDef(f, x, y), y, z)
<1>1. ASSUME NEW v, Known(f, v) PROVE Known(g, v)
  BY <1>1 DEF Known, SetDef
<1>2. Known(g, x) /\ Known(g, y)
  BY DEF Known, SetDef
<1>3. DOMAIN g = DOMAIN f \cup {x, y}
  BY DEF SetDef
<1>4. \A v \in DOMAIN g : g[v] = IF v = y THEN z ELSE IF v = x THEN y ELSE f[v]
  BY DEF SetDef
<1> HIDE DEF g
<1>5. MapOK(g)
  BY <1>1, <1>2, <1>3, <1>4 DEF RdOK, MapOK
<1>6. RdOK(g) /\ DOMAIN f \subseteq DOMAIN g
  BY <1>3, <1>4, <1>5 DEF RdOK
<1> QED
  BY <1>6 DEF g

LEMMA ElementType ==
  ASSUME NEW S, NEW q \in Seq(S), NEW i \in 1 .. Len(q)
  PROVE  q[i] \in S
  OBVIOUS

LEMMA EmptySeqType ==
  ASSUME NEW S
  PROVE  << >> \in Seq(S)
  OBVIOUS

LEMMA InstType ==
  ASSUME NEW P, WellFormed(P), NEW b \in Blocks(P), NEW i \in 1 .. Len(P.code[b])
  PROVE  P.code[b][i] \in [op : STRING, def : Names(P) \cup {NoName}, c : Seq(Names(P))]
<1>1. P.code[b] \in Seq([op : STRING, def : Names(P) \cup {NoName}, c : Seq(Names(P))])
  BY DEF WellFormed, WellTyped
<1> QED
  BY <1>1, ElementType, Zenon

\* The operands sought at position i of block b, which may be past its end.
LEMMA SoughtType ==
  ASSUME NEW P, WellFormed(P), NEW b \in Blocks(P), NEW i \in Nat \ {0}
  PROVE  SoughtAt(P, b, i) \in Seq(Names(P))
<1>1. CASE i <= Len(P.code[b])
  <2>1. i \in 1 .. Len(P.code[b])
    BY <1>1 DEF WellFormed, WellTyped
  <2>2. P.code[b][i].c \in Seq(Names(P))
    BY <2>1, InstType
  <2> QED
    BY <1>1, <2>2, EmptySeqType, Zenon DEF SoughtAt, Resolved
<1>2. CASE ~(i <= Len(P.code[b]))
  BY <1>2, EmptySeqType, Zenon DEF SoughtAt
<1> QED
  BY <1>1, <1>2

\* Past its guards a visitor finds a well-typed instruction.
LEMMA AtInstFacts ==
  ASSUME IInv, AtInst
  PROVE  /\ bb \in Blocks(fn.P) /\ idx \in 1 .. Len(fn.P.code[bb])
         /\ inst = fn.P.code[bb][idx] /\ Sought = Resolved(inst)
         /\ inst \in [op : STRING, def : Names(fn.P) \cup {NoName}, c : Seq(Names(fn.P))]
<1>1. bb \in Blocks(fn.P) /\ idx \in Nat \ {0} /\ idx <= Len(fn.P.code[bb])
  BY DEF IInv, TypeOK, AtInst
<1>2. WellFormed(fn.P)
  BY FnFacts
<1>3. idx \in 1 .. Len(fn.P.code[bb])
  BY <1>1, <1>2 DEF WellFormed, WellTyped
<1> QED
  BY <1>1, <1>2, <1>3, InstType DEF inst, Sought, SoughtAt

\* Reads and mutators of one collection have one operand.
LEMMA OneOperand ==
  ASSUME IInv, AtInst, inst.op \in ReadOps \cup WriteOps
  PROVE  Len(inst.c) = 1
<1>1. WellTyped(fn.P)
  BY FnFacts DEF WellFormed
<1>2. bb \in Blocks(fn.P) /\ idx \in 1 .. Len(fn.P.code[bb]) /\ inst = fn.P.code[bb][idx]
  BY AtInstFacts
<1> QED
  BY <1>1, <1>2 DEF WellTyped

LEMMA EndChainStep ==
  ASSUME IInv, EndChain
  PROVE  IInv'
<1> USE DEF EndChain, insertVars, visitVars, IInv
<1>1. /\ walk.cur \in DOMAIN rd /\ NextDef = rd[walk.cur]
      /\ NextDef.web = walk.var.web /\ Known(rd, NextDef)
  BY DEF InvWalk, InvMap, MapOK, NextDef
<1>2. /\ walk.var.web \in Names(fn.P) /\ Reaches(walk.var, walk.pt)
      /\ walk.pt = Point
  BY DEF InvWalk, SourceAt
<1>3. NextDef # Null
  BY <1>1, <1>2, NoNameIsNoName DEF Null, Val
<1>4. Reaches(NextDef, Point)
  BY <1>2, <1>3 DEF ChainEnds, Reaches
<1>5. walk.var \in Value /\ NextDef \in Value
  BY <1>1 DEF TypeOK
<1>6. RdOK(rd') /\ DOMAIN rd \subseteq DOMAIN rd'
  <2>1. RdOK(rd)
    BY DEF TypeOK, InvMap, RdOK
  <2>2. /\ RdOK(SetDef(rd, walk.var, NextDef))
        /\ DOMAIN rd \subseteq DOMAIN SetDef(rd, walk.var, NextDef)
    BY <1>1, <1>2, <1>5, <2>1, SetDefOK
  <2>3. rd' = SetDef(rd, walk.var, NextDef)
    OBVIOUS
  <2> QED
    BY <2>2, <2>3
<1>7. /\ Len(vals') = Len(vals) + 1 /\ vals' \in Seq(Value)
      /\ \A i \in 1 .. Len(vals') :
           vals'[i] = IF i = Len(vals) + 1 THEN NextDef ELSE vals[i]
  BY <1>5 DEF TypeOK
<1>8. TypeOK'
  <2>1. NoWalk \in [var : Value, cur : Value, pt : Nat \X Nat]
    BY DEF NoWalk, Null, Val, Value
  <2>2. Value' = Value /\ \A b : PHI(b)' = PHI(b)
    BY DEF Value, PHI
  <2> QED
    BY <1>6, <1>7, <2>1, <2>2 DEF TypeOK, RdOK
<1>9. InvFn'
  BY DEF InvFn, Analyzed
<1>10. InvPHIs'
  BY PHIsKept DEF Unfilled
<1>11. InvMap'
  BY <1>6 DEF InvMap, RdOK, MapOK, Known
<1>12. InvWalk' /\ InvTodo'
  BY DEF InvWalk, InvTodo, Idle
<1>13. InvVals'
  <2>1. /\ Sought' = Sought /\ Point' = Point /\ \A v, pt : Reaches(v, pt)' <=> Reaches(v, pt)
    BY DEF Sought, SoughtAt, Point, Reaches
  <2>2. ASSUME NEW i \in 1 .. Len(vals')
        PROVE  /\ vals'[i].web \in Names(fn.P)
               /\ Known(rd, vals'[i]) /\ Reaches(vals'[i], Point)
    BY <1>1, <1>2, <1>4, <1>7 DEF InvVals
  <2>3. \A v : Known(rd, v) => Known(rd, v)'
    BY <1>6 DEF Known
  <2>4. stage = "inst" =>
          Len(vals') <= Len(Sought) /\ \A i \in 1 .. Len(vals') : vals'[i].web = Sought[i]
    <3>1. Len(Sought) \in Nat /\ Len(vals) \in Nat
      <4>1. Sought \in Seq(Names(fn.P))
        BY FnFacts, SoughtType DEF TypeOK, Sought
      <4> QED
        BY <4>1 DEF TypeOK
    <3> QED
      BY <1>1, <1>7, <3>1 DEF InvWalk, InvVals
  <2>5. stage # "inst" => focus # NoFocus /\ Len(vals') = 1
    BY <1>7 DEF InvWalk
  <2>6. stage = "phi" => /\ focus[2].web \in Names(fn.P)
                        /\ \A i \in 1 .. Len(vals') : vals'[i].web = focus[2].web
    BY <1>1, <1>2, <1>7 DEF InvWalk, InvVals
  <2>7. stage \notin {"names", "cleanup", "done"} /\ (stage = "inst" => focus = NoFocus)
    BY DEF InvWalk, InvVals
  <2> QED
    BY <2>1, <2>2, <2>3, <2>4, <2>5, <2>6, <2>7 DEF InvVals, Value
<1> QED
  BY <1>8, <1>9, <1>10, <1>11, <1>12, <1>13

-----------------------------------------------------------------------------
(* PHI nodes of the block. *)

LEMMA VisitSourcePHIStep ==
  ASSUME IInv, NEW q \in todo, VisitSourcePHI(q)
  PROVE  IInv'
<1> USE DEF VisitSourcePHI, insertVars, IInv
<1>1. /\ q.def \in Value /\ q.def.web \in Names(fn.P)
      /\ bb \in Blocks(fn.P) /\ vals = << >> /\ Idle
  BY DEF InvTodo, InvPHIs, PHIOK, TypeOK, PHI, InvVals
<1>2. rd' = SetDef(rd, q.def, q.def)
  OBVIOUS
<1>3. RdOK(rd)
  BY DEF TypeOK, InvMap, RdOK
<1>4. /\ RdOK(SetDef(rd, q.def, q.def))
      /\ DOMAIN rd \subseteq DOMAIN SetDef(rd, q.def, q.def)
  BY <1>1, <1>3, SetDefOK
<1>5. RdOK(rd') /\ DOMAIN rd \subseteq DOMAIN rd'
  BY <1>2, <1>4
<1>6. TypeOK'
  BY <1>5 DEF TypeOK, RdOK, Value, PHI
<1>7. InvFn'
  BY DEF InvFn, Analyzed
<1>8. InvPHIs'
  BY PHIsKept DEF Unfilled
<1>9. InvMap'
  BY <1>5 DEF InvMap, RdOK, MapOK, Known
<1>10. InvWalk' /\ InvVals' /\ InvTodo'
  BY <1>1 DEF InvWalk, InvVals, InvTodo, Idle
<1> QED
  BY <1>6, <1>7, <1>8, <1>9, <1>10

LEMMA SeekPHIStep ==
  ASSUME IInv, NEW q \in todo, SeekPHI(q)
  PROVE  IInv'
<1> USE DEF SeekPHI, Seek, insertVars, IInv
<1>1. /\ q.def \in Value /\ q.def.web = q.named /\ q.named \in Names(fn.P)
      /\ bb \in Blocks(fn.P) /\ vals = << >> /\ Reaches(Src(fn.P, q.named), <<bb, 0>>)
  BY DEF InvTodo, InvPHIs, PHIOK, TypeOK, PHI, InvVals
<1> DEFINE v == Src(fn.P, q.named)
<1>2. v \in Value /\ v.web = q.named
  BY <1>1, FnFacts, SrcFields DEF Value
<1>3. v \in DOMAIN rd
  BY <1>1 DEF InvMap
<1>4. walk' = [var |-> v, cur |-> v, pt |-> <<bb, 0>>] /\ bb \in Nat /\ bb # 0
  BY <1>1 DEF Blocks
<1> HIDE DEF v
<1>5. TypeOK'
  <2>1. <<bb, 0>> \in Nat \X Nat
    BY <1>4
  <2>2. walk' \in [var : Value, cur : Value, pt : Nat \X Nat]
    BY <1>2, <1>4, <2>1
  <2>3. UNCHANGED Value /\ \A b : UNCHANGED PHI(b)
    BY DEF Value, PHI
  <2> QED
    BY <2>2, <2>3 DEF TypeOK
<1>6. InvFn'
  BY DEF InvFn, Analyzed
<1>7. InvPHIs'
  BY PHIsKept DEF Unfilled
<1>8. InvMap'
  BY DEF InvMap, MapOK, Known
<1>9. ~Idle' /\ focus' # NoFocus /\ focus'[2] = q.def
  BY <1>1, <1>2, <1>4, NoNameIsNoName DEF Idle, NoWalk, NoFocus, Null, Val
<1>10. InvWalk'
  BY <1>1, <1>2, <1>3, <1>4, <1>9 DEF InvWalk, SourceAt, Reaches, Point, v
<1>11. InvVals' /\ InvTodo'
  BY <1>1, <1>9 DEF InvVals, InvTodo, Value
<1> QED
  BY <1>5, <1>6, <1>7, <1>8, <1>10, <1>11

LEMMA VisitInsertedPHIStep ==
  ASSUME IInv, VisitInsertedPHI
  PROVE  IInv'
<1> USE DEF VisitInsertedPHI, insertVars, IInv
<1> DEFINE phi == focus[2]
           v   == Src(fn.P, phi.web)
<1>1. /\ phi \in Value /\ phi.web \in Names(fn.P) /\ Len(vals) = 1
      /\ vals[1] \in Value /\ vals[1].web = phi.web /\ Known(rd, vals[1])
  BY DEF InvVals, TypeOK
<1>2. v \in Value /\ v.web = phi.web
  BY <1>1, FnFacts, SrcFields DEF Value
<1>3. rd' = SetDef(SetDef(rd, v, phi), phi, vals[1])
  OBVIOUS
<1> HIDE DEF v, phi
<1>4. RdOK(rd)
  BY DEF TypeOK, InvMap, RdOK
<1>5. /\ RdOK(SetDef(SetDef(rd, v, phi), phi, vals[1]))
      /\ DOMAIN rd \subseteq DOMAIN SetDef(SetDef(rd, v, phi), phi, vals[1])
  BY <1>1, <1>2, <1>4, PushOK
<1>6. RdOK(rd') /\ DOMAIN rd \subseteq DOMAIN rd'
  BY <1>3, <1>5
<1>8. TypeOK'
  BY <1>6, EmptySeqType DEF TypeOK, RdOK, Value, PHI
<1>9. InvFn'
  BY DEF InvFn, Analyzed
<1>10. InvPHIs'
  BY PHIsKept DEF Unfilled
<1>11. InvMap'
  BY <1>6 DEF InvMap, RdOK, MapOK, Known
<1>12. InvWalk' /\ InvVals' /\ InvTodo'
  BY DEF InvWalk, InvVals, InvTodo, Idle
<1> QED
  BY <1>8, <1>9, <1>10, <1>11, <1>12

LEMMA EndPHIsStep ==
  ASSUME IInv, EndPHIs
  PROVE  IInv'
<1> USE DEF EndPHIs, insertVars, IInv
<1>1. TypeOK'
  BY DEF TypeOK, Value, PHI
<1>2. InvFn'
  BY DEF InvFn, Analyzed
<1>3. InvPHIs'
  BY PHIsKept DEF Unfilled
<1>4. InvMap'
  BY DEF InvMap, MapOK, Known
<1>5. vals = << >> /\ Idle
  BY DEF InvVals
<1>6. Sought' \in Seq(Names(fn.P))
  <2>1. bb \in Blocks(fn.P)
    BY DEF TypeOK
  <2>2. SoughtAt(fn.P, bb, 1) \in Seq(Names(fn.P))
    BY <2>1, FnFacts, SoughtType
  <2> QED
    BY <2>2 DEF Sought
<1>7. InvWalk' /\ InvVals' /\ InvTodo'
  BY <1>5, <1>6 DEF InvWalk, InvVals, InvTodo, Idle
<1> QED
  BY <1>1, <1>2, <1>3, <1>4, <1>7

-----------------------------------------------------------------------------
(* Instructions of the block. *)

LEMMA SeekOperandStep ==
  ASSUME IInv, SeekOperand
  PROVE  IInv'
<1> USE DEF SeekOperand, Seek, visitVars, insertVars, IInv
<1> DEFINE n == inst.c[Len(vals) + 1]
           v == Src(fn.P, n)
<1>1. /\ bb \in Blocks(fn.P) /\ idx \in 1 .. Len(fn.P.code[bb])
      /\ inst = fn.P.code[bb][idx] /\ Sought = Resolved(inst)
      /\ inst.c \in Seq(Names(fn.P))
  BY AtInstFacts
<1>2. Resolved(inst) = inst.c /\ Len(vals) + 1 \in 1 .. Len(inst.c)
  <2>1. Len(vals) \in Nat /\ Len(vals) < Len(Resolved(inst))
    BY DEF TypeOK
  <2>2. Resolved(inst) = inst.c
    BY <2>1 DEF Resolved
  <2> QED
    BY <1>1, <2>1, <2>2
<1>3. StrictUse(fn.P, fn.dom, n, <<bb, idx>>)
  BY <1>1, <1>2, FnFacts DEF WellFormed, Strict
<1>4. n \in Names(fn.P) /\ Reaches(v, <<bb, idx>>)
  BY <1>3 DEF StrictUse, Reaches
<1>5. v \in Value /\ v.web = n
  BY <1>4, FnFacts, SrcFields DEF Value
<1>6. v \in DOMAIN rd
  BY <1>4 DEF InvMap, AtInst
<1>7. walk' = [var |-> v, cur |-> v, pt |-> <<bb, idx>>] /\ bb \in Nat /\ idx \in Nat
  BY <1>1, <1>2 DEF Blocks, TypeOK
<1>8. Sought[Len(vals) + 1] = n /\ Len(vals) < Len(Sought)
  BY <1>1, <1>2
<1> HIDE DEF n, v
<1>9. TypeOK'
  <2>1. walk' \in [var : Value, cur : Value, pt : Nat \X Nat]
    BY <1>5, <1>7
  <2>2. Value' = Value /\ \A b : PHI(b)' = PHI(b)
    BY DEF Value, PHI
  <2> QED
    BY <2>1, <2>2 DEF TypeOK
<1>10. InvFn'
  BY DEF InvFn, Analyzed
<1>11. InvPHIs'
  BY PHIsKept DEF Unfilled
<1>12. InvMap'
  BY DEF InvMap, MapOK, Known
<1>13. stage = "inst" /\ Idle /\ UNCHANGED <<Sought, Point>>
  BY DEF AtInst, Sought, SoughtAt, Point
<1>14. InvWalk'
  BY <1>4, <1>5, <1>6, <1>7, <1>8, <1>13 DEF InvWalk, SourceAt, Reaches, Point, v
<1>15. InvVals' /\ InvTodo'
  BY <1>13 DEF InvVals, InvTodo, Known, Reaches, Value
<1> QED
  BY <1>9, <1>10, <1>11, <1>12, <1>14, <1>15

\* What every visitor has in common: the map stays in order and the visit moves on.
LEMMA EmitStep ==
  ASSUME IInv, AtInst, NEW new, Emit(new), RdOK(rd'), DOMAIN rd \subseteq DOMAIN rd'
  PROVE  IInv'
<1> USE DEF Emit, AtInst, insertVars, IInv
<1>1. TypeOK'
  BY EmptySeqType DEF TypeOK, RdOK, Value, PHI
<1>2. InvFn'
  BY DEF InvFn, Analyzed
<1>3. InvPHIs'
  BY PHIsKept DEF Unfilled
<1>4. InvMap'
  BY DEF InvMap, RdOK, MapOK, Known
<1>5. Sought' \in Seq(Names(fn.P))
  <2>1. bb \in Blocks(fn.P) /\ idx + 1 \in Nat \ {0}
    BY DEF TypeOK
  <2>2. SoughtAt(fn.P, bb, idx + 1) \in Seq(Names(fn.P))
    BY <2>1, FnFacts, SoughtType
  <2> QED
    BY <2>2 DEF Sought
<1>6. InvWalk' /\ InvVals' /\ InvTodo'
  BY <1>5 DEF InvWalk, InvVals, InvTodo, Idle
<1> QED
  BY <1>1, <1>2, <1>3, <1>4, <1>6

\* The operands of a visitor that has resolved them all.
LEMMA ReadyFacts ==
  ASSUME IInv, AtInst, Len(vals) = Len(Resolved(inst)), Resolved(inst) = inst.c,
         NEW j \in 1 .. Len(inst.c)
  PROVE  /\ inst.c[j] \in Names(fn.P) /\ Orig(j) \in Value /\ Orig(j).web = inst.c[j]
         /\ vals[j] \in Value /\ vals[j].web = inst.c[j] /\ Known(rd, vals[j])
         /\ \A w \in {"ssa", "copy", "use"} :
              Version(w, inst.c[j]) \in Value /\ Version(w, inst.c[j]).web = inst.c[j]
<1>1. /\ bb \in Blocks(fn.P) /\ idx \in 1 .. Len(fn.P.code[bb])
      /\ Sought = Resolved(inst) /\ inst.c \in Seq(Names(fn.P))
  BY AtInstFacts
<1>2. j \in 1 .. Len(vals) /\ vals \in Seq(Value)
  BY DEF IInv, TypeOK
<1>3. inst.c[j] \in Names(fn.P)
  BY <1>1, ElementType
<1>4. Orig(j) \in Value /\ Orig(j).web = inst.c[j]
  BY <1>3, FnFacts, SrcFields DEF Orig, Value
<1>5. vals[j] \in Value
  BY <1>2, ElementType
<1>6. vals[j].web = inst.c[j] /\ Known(rd, vals[j])
  BY <1>1, <1>2 DEF IInv, InvVals, AtInst
<1>7. bb \in Nat /\ idx \in Nat
  BY <1>1 DEF Blocks
<1> QED
  BY <1>3, <1>4, <1>5, <1>6, <1>7 DEF Version, Val, Value

LEMMA RdFacts == ASSUME IInv PROVE RdOK(rd)
  BY DEF IInv, TypeOK, InvMap, RdOK

\* A mutator of the first operand pushes one new version.
LEMMA PushVersionStep ==
  ASSUME IInv, AtInst, Len(vals) = Len(Resolved(inst)), Resolved(inst) = inst.c,
         1 \in 1 .. Len(inst.c), NEW w \in {"ssa", "use"}, NEW new, Emit(new),
         rd' = SetDef(SetDef(rd, Orig(1), Version(w, inst.c[1])),
                      Version(w, inst.c[1]), vals[1])
  PROVE  IInv'
<1> DEFINE x == Orig(1)
           y == Version(w, inst.c[1])
           z == vals[1]
<1>1. /\ x \in Value /\ y \in Value /\ z \in Value /\ x.web \in Names(fn.P)
      /\ y.web = x.web /\ z.web = x.web /\ Known(rd, z)
  BY ReadyFacts
<1> HIDE DEF x, y, z
<1>2. /\ RdOK(SetDef(SetDef(rd, x, y), y, z))
      /\ DOMAIN rd \subseteq DOMAIN SetDef(SetDef(rd, x, y), y, z)
  BY <1>1, RdFacts, PushOK
<1>3. rd' = SetDef(SetDef(rd, x, y), y, z)
  BY DEF x, y, z
<1> QED
  BY <1>2, <1>3, EmitStep

LEMMA NewVersionStep ==
  ASSUME IInv, NEW op, Ready(WriteOps), NewVersion(op)
  PROVE  IInv'
<1>1. AtInst /\ Len(vals) = Len(Resolved(inst)) /\ inst.op \in WriteOps
  BY DEF Ready
<1>2. Resolved(inst) = inst.c /\ Len(inst.c) = 1
  <2>1. inst.op # "AssocHas"
    BY <1>1 DEF WriteOps
  <2>2. Len(inst.c) = 1
    BY <1>1, OneOperand
  <2> QED
    BY <2>1, <2>2 DEF Resolved
<1>3. PICK new : Emit(new)
  BY DEF NewVersion
<1> QED
  BY <1>1, <1>2, <1>3, PushVersionStep DEF NewVersion

LEMMA VisitWriteStep ==
  ASSUME IInv,
         \/ VisitMutIndexWrite \/ VisitMutAssocWrite \/ VisitMutSeqInsert
         \/ VisitMutSeqRemove \/ VisitMutSeqSwapWithin \/ VisitMutAssocInsert
         \/ VisitMutAssocRemove
  PROVE  IInv'
<1>1. PICK op : Ready(WriteOps) /\ NewVersion(op)
  BY DEF VisitMutIndexWrite, VisitMutAssocWrite, VisitMutSeqInsert, VisitMutSeqRemove,
         VisitMutSeqSwapWithin, VisitMutAssocInsert, VisitMutAssocRemove, Ready, WriteOps
<1> QED
  BY <1>1, NewVersionStep

\* Mutators with a second collection: only its own web is read from it.
LEMMA PairFacts ==
  ASSUME IInv, Ready(PairOps)
  PROVE  /\ AtInst /\ Len(vals) = Len(Resolved(inst))
         /\ Resolved(inst) = inst.c /\ Len(inst.c) = 2
<1>1. AtInst /\ Len(vals) = Len(Resolved(inst)) /\ inst.op \in PairOps
  BY DEF Ready
<1>2. inst.op # "AssocHas"
  BY <1>1 DEF PairOps
<1>3. Len(inst.c) = 2
  BY <1>1, AtInstFacts, FnFacts DEF WellFormed, WellTyped
<1> QED
  BY <1>1, <1>2, <1>3 DEF Resolved

LEMMA VisitInsertSeqStep ==
  ASSUME IInv, VisitMutSeqInsertSeq \/ VisitMutSeqAppend
  PROVE  IInv'
<1>1. Ready(PairOps)
  BY DEF VisitMutSeqInsertSeq, VisitMutSeqAppend, Ready, PairOps
<1>2. PICK new : Emit(new)
  BY DEF VisitMutSeqInsertSeq, VisitMutSeqAppend
<1>3. rd' = SetDef(SetDef(rd, Orig(1), Version("ssa", inst.c[1])),
                   Version("ssa", inst.c[1]), vals[1])
  BY DEF VisitMutSeqInsertSeq, VisitMutSeqAppend
<1> QED
  BY <1>1, <1>2, <1>3, PairFacts, PushVersionStep

LEMMA VisitSwapStep ==
  ASSUME IInv, VisitMutSeqSwap
  PROVE  IInv'
<1> DEFINE from == Version("ssa", inst.c[1])
           to   == Version("ssa", inst.c[2])
           half == SetDef(SetDef(rd, Orig(1), from), from, vals[1])
<1>1. /\ AtInst /\ Len(vals) = Len(Resolved(inst))
      /\ Resolved(inst) = inst.c /\ Len(inst.c) = 2
  <2>1. Ready(PairOps)
    BY DEF VisitMutSeqSwap, Ready, PairOps
  <2> QED
    BY <2>1, PairFacts
<1>2. PICK new : Emit(new)
  BY DEF VisitMutSeqSwap
<1>3. rd' = SetDef(SetDef(half, Orig(2), to), to, vals[2])
  BY DEF VisitMutSeqSwap
<1>4. /\ Orig(1) \in Value /\ from \in Value /\ vals[1] \in Value
      /\ Orig(1).web \in Names(fn.P) /\ from.web = Orig(1).web
      /\ vals[1].web = Orig(1).web /\ Known(rd, vals[1])
  BY <1>1, ReadyFacts
<1>5. /\ Orig(2) \in Value /\ to \in Value /\ vals[2] \in Value
      /\ Orig(2).web \in Names(fn.P) /\ to.web = Orig(2).web
      /\ vals[2].web = Orig(2).web /\ Known(rd, vals[2])
  BY <1>1, ReadyFacts
<1> HIDE DEF from, to
<1>6. RdOK(half) /\ DOMAIN rd \subseteq DOMAIN half
  BY <1>4, RdFacts, PushOK
<1> HIDE DEF half
<1>7. Known(half, vals[2])
  BY <1>5, <1>6 DEF Known
<1>8. /\ RdOK(SetDef(SetDef(half, Orig(2), to), to, vals[2]))
      /\ DOMAIN half \subseteq DOMAIN SetDef(SetDef(half, Orig(2), to), to, vals[2])
  BY <1>5, <1>6, <1>7, PushOK
<1>9. RdOK(rd') /\ DOMAIN rd \subseteq DOMAIN rd'
  BY <1>3, <1>6, <1>8
<1> QED
  BY <1>1, <1>2, <1>9, EmitStep

LEMMA VisitSplitStep ==
  ASSUME IInv, VisitMutSeqSplit
  PROVE  IInv'
<1> DEFINE copy == Version("copy", inst.def)
           rest == Version("ssa", inst.c[1])
           s    == Src(fn.P, inst.def)
           half == SetDef(rd, s, copy)
<1>1. AtInst /\ Len(vals) = Len(Resolved(inst)) /\ inst.op = "MutSeqSplit"
  BY DEF VisitMutSeqSplit, Ready
<1>2. /\ bb \in Blocks(fn.P) /\ idx \in 1 .. Len(fn.P.code[bb])
      /\ inst = fn.P.code[bb][idx]
      /\ inst \in [op : STRING, def : Names(fn.P) \cup {NoName}, c : Seq(Names(fn.P))]
  BY <1>1, AtInstFacts
<1>3. Resolved(inst) = inst.c /\ Len(inst.c) = 1 /\ inst.def # NoName
  <2>1. Len(inst.c) = 1 /\ inst.def # NoName
    BY <1>1, <1>2, FnFacts DEF WellFormed, WellTyped
  <2> QED
    BY <1>1, <2>1 DEF Resolved
<1>4. inst.def \in Names(fn.P) /\ DefPos(fn.P, inst.def) = <<bb, idx>>
  BY <1>2, <1>3, FnFacts DEF WellFormed, SingleDefs
<1>5. PICK new : Emit(new)
  BY DEF VisitMutSeqSplit
<1>6. rd' = SetDef(SetDef(half, Orig(1), rest), rest, vals[1])
  BY DEF VisitMutSeqSplit
<1>7. s \in Value /\ s.web = inst.def
  BY <1>4, FnFacts, SrcFields DEF Value
<1>8. copy \in Value /\ copy.web = inst.def /\ Known(rd, copy)
  BY <1>2, <1>4 DEF Version, Val, Value, Known, Blocks
<1>9. /\ Orig(1) \in Value /\ rest \in Value /\ vals[1] \in Value
      /\ Orig(1).web \in Names(fn.P) /\ rest.web = Orig(1).web
      /\ vals[1].web = Orig(1).web /\ Known(rd, vals[1])
  BY <1>1, <1>3, ReadyFacts
<1> HIDE DEF copy, rest, s
<1>10. RdOK(half) /\ DOMAIN rd \subseteq DOMAIN half
  BY <1>4, <1>7, <1>8, RdFacts, SetDefOK
<1> HIDE DEF half
<1>11. Known(half, vals[1])
  BY <1>9, <1>10 DEF Known
<1>12. /\ RdOK(SetDef(SetDef(half, Orig(1), rest), rest, vals[1]))
       /\ DOMAIN half \subseteq DOMAIN SetDef(SetDef(half, Orig(1), rest), rest, vals[1])
  BY <1>9, <1>10, <1>11, PushOK
<1>13. RdOK(rd') /\ DOMAIN rd \subseteq DOMAIN rd'
  BY <1>6, <1>10, <1>12
<1> QED
  BY <1>1, <1>5, <1>13, EmitStep

LEMMA VisitReadStep ==
  ASSUME IInv, VisitRead
  PROVE  IInv'
<1>1. AtInst /\ Len(vals) = Len(Resolved(inst)) /\ inst.op \in ReadOps
  BY DEF VisitRead, Ready
<1>2. Resolved(inst) = inst.c /\ Len(inst.c) = 1
  <2>1. inst.op # "AssocHas"
    BY <1>1 DEF ReadOps
  <2>2. Len(inst.c) = 1
    BY <1>1, OneOperand
  <2> QED
    BY <2>1, <2>2 DEF Resolved
<1>3. PICK new : Emit(new)
  BY DEF VisitRead
<1>4. CASE UsePHIs
  <2>1. rd' = SetDef(SetDef(rd, Orig(1), Version("use", inst.c[1])),
                     Version("use", inst.c[1]), vals[1])
    BY <1>4 DEF VisitRead
  <2> QED
    BY <1>1, <1>2, <1>3, <2>1, PushVersionStep
<1>5. CASE ~UsePHIs
  <2>1. rd' = rd
    BY <1>5 DEF VisitRead
  <2> QED
    BY <1>1, <1>3, <2>1, RdFacts, EmitStep
<1> QED
  BY <1>4, <1>5

\* With use-PHIs the has-visitor points the operand's definition at itself.
LEMMA VisitHasStep ==
  ASSUME IInv, VisitAssocHas
  PROVE  IInv'
<1>1. AtInst /\ Len(vals) = Len(Resolved(inst)) /\ inst.op = "AssocHas"
  BY DEF VisitAssocHas, Ready
<1>2. PICK new : Emit(new)
  BY DEF VisitAssocHas
<1>3. CASE UsePHIs
  <2>1. Resolved(inst) = inst.c /\ Len(inst.c) = 1
    BY <1>1, <1>3, AtInstFacts, FnFacts DEF WellFormed, WellTyped, Resolved
  <2>2. /\ Orig(1) \in Value /\ vals[1] \in Value /\ Orig(1).web \in Names(fn.P)
        /\ vals[1].web = Orig(1).web /\ Known(rd, vals[1])
    BY <1>1, <2>1, ReadyFacts
  <2>3. /\ RdOK(SetDef(SetDef(rd, Orig(1), vals[1]), vals[1], vals[1]))
        /\ DOMAIN rd \subseteq DOMAIN SetDef(SetDef(rd, Orig(1), vals[1]), vals[1], vals[1])
    BY <2>2, RdFacts, PushOK
  <2>4. rd' = SetDef(SetDef(rd, Orig(1), vals[1]), vals[1], vals[1])
    BY <1>3 DEF VisitAssocHas
  <2> QED
    BY <1>1, <1>2, <2>3, <2>4, EmitStep
<1>4. CASE ~UsePHIs
  <2>1. rd' = rd
    BY <1>4 DEF VisitAssocHas
  <2> QED
    BY <1>1, <1>2, <2>1, RdFacts, EmitStep
<1> QED
  BY <1>3, <1>4

LEMMA VisitInstructionStep ==
  ASSUME IInv, VisitInstruction \/ VisitMutStructWrite
  PROVE  IInv'
<1>1. AtInst
  BY DEF VisitInstruction, VisitMutStructWrite, Ready
<1>2. PICK new : Emit(new)
  BY DEF VisitInstruction, VisitMutStructWrite
<1>3. CASE rd' = rd
  BY <1>1, <1>2, <1>3, RdFacts, EmitStep
<1>4. CASE inst.def # NoName /\ rd' = SetDef(rd, Src(fn.P, inst.def), Src(fn.P, inst.def))
  <2> DEFINE v == Src(fn.P, inst.def)
  <2>1. inst.def \in Names(fn.P)
    BY <1>1, <1>4, AtInstFacts
  <2>2. v \in Value /\ v.web \in Names(fn.P)
    BY <2>1, FnFacts, SrcFields DEF Value
  <2> HIDE DEF v
  <2>3. RdOK(SetDef(rd, v, v)) /\ DOMAIN rd \subseteq DOMAIN SetDef(rd, v, v)
    BY <2>2, RdFacts, SetDefOK
  <2>4. rd' = SetDef(rd, v, v)
    BY <1>4 DEF v
  <2> QED
    BY <1>1, <1>2, <2>3, <2>4, EmitStep
<1> QED
  BY <1>3, <1>4 DEF VisitInstruction, VisitMutStructWrite

-----------------------------------------------------------------------------
(* Incoming values of the successors' PHIs, and the traversal. *)

LEMMA EndInstructionsStep ==
  ASSUME IInv, EndInstructions
  PROVE  IInv'
<1> USE DEF EndInstructions, insertVars, IInv
<1>1. vals = << >> /\ focus = NoFocus
  BY DEF InvVals, Sought, SoughtAt, TypeOK
<1>2. TypeOK'
  BY DEF TypeOK, Value, PHI
<1>3. InvFn'
  BY DEF InvFn, Analyzed
<1>4. InvPHIs'
  BY PHIsKept DEF Unfilled
<1>5. InvMap'
  BY DEF InvMap, MapOK, Known
<1>6. InvWalk' /\ InvVals'
  BY <1>1 DEF InvWalk, InvVals, Idle
<1>7. InvTodo'
  BY <1>1 DEF InvTodo
<1> QED
  BY <1>2, <1>3, <1>4, <1>5, <1>6, <1>7

LEMMA SeekIncomingStep ==
  ASSUME IInv, NEW slot \in todo, SeekIncoming(slot)
  PROVE  IInv'
<1> USE DEF SeekIncoming, Seek, insertVars, IInv
<1>1. PICK q \in phis[slot[1]] : q.def = slot[2] /\ Seek(q.in[bb], Terminator(fn.P, bb))
  OBVIOUS
<1> DEFINE v  == q.in[bb]
           pt == Terminator(fn.P, bb)
<1>2. slot[1] \in fn.P.succ[bb] /\ bb \in Blocks(fn.P)
  BY DEF InvTodo, TypeOK
<1>3. slot[1] \in Blocks(fn.P) /\ bb \in Preds(fn.P, slot[1])
  BY <1>2, FnFacts DEF WellFormed, WellShaped, Preds
<1>4. slot = <<slot[1], q.def>> => Unfilled(slot[1], q, bb)
  BY DEF Unfilled
<1>5. PHIOK(slot[1], q) /\ q \in PHI(slot[1])
  BY <1>1, <1>3 DEF InvPHIs, TypeOK
<1>6. slot = <<slot[1], slot[2]>>
  BY DEF InvTodo
<1>7. SourceAt(v, pt) /\ v \in Value
  BY <1>1, <1>3, <1>4, <1>5, <1>6 DEF PHIOK, PHI
<1>8. v \in DOMAIN rd
  BY <1>7 DEF InvMap, SourceAt
<1>9. walk' = [var |-> v, cur |-> v, pt |-> pt]
  BY <1>1
<1>10. pt \in Nat \X Nat
  BY <1>2, FnFacts DEF Terminator, WellFormed, WellTyped, Blocks
<1>11. slot[1] # 0
  BY <1>3 DEF Blocks
<1>12. focus' = slot /\ focus' # NoFocus /\ vals = << >>
  BY <1>11 DEF NoFocus, InvVals
<1> HIDE DEF v, pt
<1>13. TypeOK'
  <2>1. walk' \in [var : Value, cur : Value, pt : Nat \X Nat]
    BY <1>7, <1>9, <1>10
  <2>2. Value' = Value /\ \A b : PHI(b)' = PHI(b)
    BY DEF Value, PHI
  <2> QED
    BY <2>1, <2>2 DEF TypeOK
<1>14. InvFn'
  BY DEF InvFn, Analyzed
<1>15. InvPHIs'
  BY PHIsKept DEF Unfilled
<1>16. InvMap'
  BY DEF InvMap, MapOK, Known
<1>17. Point = pt /\ Point' = pt
  BY DEF Point, pt
<1>18. SourceAt(v, pt)'
  BY <1>7 DEF SourceAt, Reaches, v, pt
<1>19. ~Idle'
  BY <1>7, <1>9, NoNameIsNoName DEF Idle, NoWalk, Null, Val, SourceAt
<1>20. InvWalk'
  BY <1>7, <1>8, <1>9, <1>12, <1>17, <1>18 DEF InvWalk, SourceAt, Reaches
<1>21. InvVals'
  BY <1>12, <1>19 DEF InvVals
<1>22. InvTodo'
  BY <1>6, <1>12 DEF InvTodo
<1> QED
  BY <1>13, <1>14, <1>15, <1>16, <1>20, <1>21, <1>22

LEMMA SetIncomingStep ==
  ASSUME IInv, SetIncoming
  PROVE  IInv'
<1> USE DEF SetIncoming, insertVars, IInv
<1> DEFINE Filled(q) == IF q.def = focus[2] THEN [q EXCEPT !.in[bb] = vals[1]] ELSE q
<1>1. Len(vals) = 1 /\ vals[1] \in Value /\ bb \in Blocks(fn.P)
  <2>1. Len(vals) = 1
    BY DEF InvVals
  <2>2. vals \in Seq(Value) /\ bb \in Blocks(fn.P)
    BY DEF TypeOK
  <2>3. 1 \in 1 .. Len(vals)
    BY <2>1
  <2>4. vals[1] \in Value
    BY <2>2, <2>3, ElementType, Zenon
  <2> QED
    BY <2>1, <2>2, <2>4
<1>2. /\ DOMAIN phis' = Blocks(fn.P)
      /\ \A b \in Blocks(fn.P) :
           phis'[b] = IF b = focus[1] THEN {Filled(q) : q \in phis[b]} ELSE phis[b]
  BY DEF TypeOK
<1>3. ASSUME NEW b \in Blocks(fn.P), NEW q \in phis[b]
      PROVE  /\ Filled(q) \in PHI(b) /\ Filled(q).def = q.def /\ Filled(q).named = q.named
             /\ \A x \in Preds(fn.P, b) : x # bb => Filled(q).in[x] = q.in[x]
             /\ q.def # focus[2] => Filled(q) = q
  <2>1. q \in PHI(b)
    BY DEF TypeOK
  <2>2. [q EXCEPT !.in[bb] = vals[1]] = [q EXCEPT !.in = [q.in EXCEPT ![bb] = vals[1]]]
    BY <2>1 DEF PHI
  <2> QED
    BY <1>1, <2>1, <2>2 DEF PHI
<1> HIDE DEF Filled
<1>4. TypeOK'
  <2>1. ASSUME NEW b \in Blocks(fn.P) PROVE phis'[b] \subseteq PHI(b)
    <3>1. phis[b] \subseteq PHI(b)
      BY DEF TypeOK
    <3>2. CASE b = focus[1]
      <4>1. phis'[b] = {Filled(q) : q \in phis[b]}
        BY <1>2, <3>2
      <4>2. \A q \in phis[b] : Filled(q) \in PHI(b)
        BY <1>3
      <4> QED
        BY <4>1, <4>2
    <3>3. CASE b # focus[1]
      BY <1>2, <3>1, <3>3
    <3> QED
      BY <3>2, <3>3
  <2>2. Value' = Value /\ \A b : PHI(b)' = PHI(b)
    BY DEF Value, PHI
  <2> QED
    BY <1>2, <2>1, <2>2, EmptySeqType DEF TypeOK
<1>5. InvFn'
  BY DEF InvFn, Analyzed
<1>6. InvPHIs'
  <2>1. \A v, pt : SourceAt(v, pt)' <=> SourceAt(v, pt)
    BY DEF SourceAt, Reaches
  <2>2. /\ stage = "edge" /\ stage' = "edge" /\ seen' = seen /\ bb' = bb /\ todo' = todo
        /\ focus \notin todo /\ focus = <<focus[1], focus[2]>>
    BY DEF InvTodo
  <2>3. ASSUME NEW b \in Blocks(fn.P), NEW q \in phis'[b] PROVE PHIOK(b, q)'
    <3>1. PICK q0 \in phis[b] : \/ (q = q0 /\ b # focus[1])
                               \/ (q = Filled(q0) /\ b = focus[1])
      <4>1. CASE b = focus[1]
        <5>1. q \in {Filled(r) : r \in phis[b]}
          BY <1>2, <4>1
        <5> QED
          BY <4>1, <5>1, Zenon
      <4>2. CASE b # focus[1]
        BY <1>2, <4>2
      <4> QED
        BY <4>1, <4>2
    <3>2. PHIOK(b, q0)
      BY DEF InvPHIs
    <3>3. q.def = q0.def /\ q.named = q0.named
      BY <1>3, <3>1
    <3>4. ASSUME NEW x \in Preds(fn.P, b), Unfilled(b, q, x)'
          PROVE  Unfilled(b, q0, x) /\ q.in[x] = q0.in[x]
      <4>1. Unfilled(b, q0, x) /\ (x = bb => <<b, q.def>> \in todo)
        BY <2>2, <3>3, <3>4, Zenon DEF TypeOK, Unfilled
      <4>2. x = bb /\ b = focus[1] => q.def # focus[2]
        BY <4>1, <2>2
      <4>3. b = focus[1] => q.in[x] = q0.in[x]
        BY <1>3, <3>1, <3>3, <4>2
      <4> QED
        BY <3>1, <4>1, <4>3
    <3> QED
      BY <2>1, <3>2, <3>3, <3>4 DEF PHIOK, Reaches
  <2> QED
    BY <2>3 DEF InvPHIs
<1>7. InvMap'
  BY DEF InvMap, MapOK, Known
<1>8. InvWalk' /\ InvVals' /\ InvTodo'
  BY DEF InvWalk, InvVals, InvTodo, Idle
<1> QED
  BY <1>4, <1>5, <1>6, <1>7, <1>8

LEMMA NextBlockStep ==
  ASSUME IInv, NextBlock
  PROVE  IInv'
<1> USE DEF NextBlock, insertVars, IInv
<1>1. PICK b \in NextInPreorder(fn.P, fn.dom, seen, bb) :
        bb' = b /\ seen' = seen \cup {b} /\ todo' = phis[b]
  OBVIOUS
<1>2. b \in Blocks(fn.P) \ seen
  BY DEF NextInPreorder
<1>3. TypeOK'
  <2>1. Value' = Value /\ \A y : PHI(y)' = PHI(y)
    BY DEF Value, PHI
  <2> QED
    BY <1>1, <1>2, <2>1 DEF TypeOK
<1>4. InvFn'
  BY DEF InvFn, Analyzed
<1>5. InvPHIs'
  BY <1>1, <1>2, PHIsKept DEF Unfilled
<1>6. InvMap'
  BY DEF InvMap, MapOK, Known
<1>7. vals = << >> /\ Idle
  BY DEF InvVals
<1>8. InvWalk' /\ InvVals' /\ InvTodo'
  BY <1>1, <1>7 DEF InvWalk, InvVals, InvTodo, Idle
<1> QED
  BY <1>3, <1>4, <1>5, <1>6, <1>8

LEMMA EndTraversalStep ==
  ASSUME IInv, EndTraversal \/ Cleanup
  PROVE  IInv'
<1> USE DEF EndTraversal, Cleanup, insertVars, visitVars, IInv
<1>1. TypeOK'
  BY DEF TypeOK, Value, PHI
<1>2. InvFn'
  BY DEF InvFn, Analyzed
<1>3. InvPHIs'
  BY PHIsKept DEF Unfilled
<1>4. InvMap'
  BY DEF InvMap, MapOK, Known
<1>5. vals = << >> /\ Idle /\ focus = NoFocus
  BY DEF InvVals
<1>6. Idle' /\ vals' = << >> /\ focus' = NoFocus /\ stage' \in {"cleanup", "done"}
  BY <1>5 DEF Idle
<1>7. InvWalk' /\ InvVals' /\ InvTodo'
  BY <1>6 DEF InvWalk, InvVals, InvTodo
<1> QED
  BY <1>1, <1>2, <1>3, <1>4, <1>7

LEMMA StutterStep ==
  ASSUME IInv, UNCHANGED vars
  PROVE  IInv'
<1> USE DEF vars, insertVars, visitVars, IInv
<1>1. TypeOK'
  BY DEF TypeOK, Value, PHI
<1>2. InvFn'
  BY DEF InvFn, Analyzed
<1>3. InvPHIs'
  BY PHIsKept DEF Unfilled
<1>4. InvMap'
  BY DEF InvMap, MapOK, Known
<1>5. UNCHANGED <<Idle, Sought, Point>>
  BY DEF Idle, Sought, SoughtAt, Point
<1>6. InvWalk'
  BY <1>5 DEF InvWalk, SourceAt, Reaches
<1>7. InvVals'
  BY <1>5 DEF InvVals, Known, Reaches, Value
<1>8. InvTodo'
  BY DEF InvTodo
<1> QED
  BY <1>1, <1>2, <1>3, <1>4, <1>6, <1>7, <1>8

-----------------------------------------------------------------------------

LEMMA InitIInv == Init => IInv
<1> SUFFICES ASSUME Init PROVE IInv
  OBVIOUS
<1> USE DEF Init
<1>1. PICK P \in Programs : fn = Analyzed(P)
  OBVIOUS
<1>2. fn.P = P /\ fn.dom = Dominators(P) /\ WellFormed(P)
  BY <1>1, ProgramsAssumption DEF Analyzed
<1>3. InvFn
  BY <1>1, <1>2 DEF InvFn
<1>4. \A n \in Names(P) : Src(P, n) \in Value /\ Src(P, n).web = n
  BY <1>2, SrcFields DEF Value
<1>5. ASSUME NEW b \in Blocks(P), NEW q \in P.phis[b]
      PROVE  SourcePHI(P, q) \in PHI(b) /\ PHIOK(b, SourcePHI(P, q))
  <2>1. q.def \in Names(P) /\ DOMAIN q.in = Preds(P, b)
    BY <1>2 DEF WellFormed, SingleDefs, WellShaped, Names, InPHIs
  <2>2. \A x \in Preds(P, b) : StrictUse(P, fn.dom, q.in[x], Terminator(P, x))
    BY <1>2 DEF WellFormed, Strict
  <2>3. \A x \in Preds(P, b) : q.in[x] \in Names(P)
    BY <2>2 DEF StrictUse
  <2>4. SourcePHI(P, q) \in PHI(b)
    BY <1>2, <1>4, <2>1, <2>3 DEF SourcePHI, PHI
  <2>5. /\ SourcePHI(P, q).def = Src(P, q.def) /\ SourcePHI(P, q).named = NoName
        /\ \A x \in Preds(P, b) : SourcePHI(P, q).in[x] = Src(P, q.in[x])
    BY <2>1 DEF SourcePHI
  <2>6. \A x \in Preds(P, b) : SourceAt(Src(P, q.in[x]), Terminator(P, x))
    BY <1>2, <1>4, <2>2, <2>3 DEF SourceAt, StrictUse, Reaches
  <2> QED
    BY <1>2, <1>4, <2>1, <2>4, <2>5, <2>6 DEF PHIOK
<1>6. TypeOK
  <2>1. NoWalk \in [var : Value, cur : Value, pt : Nat \X Nat]
    BY DEF NoWalk, Null, Val, Value
  <2>2. 1 \in Blocks(P) /\ fn.dom \in [Blocks(P) -> SUBSET Blocks(P)]
    BY <1>2 DEF WellFormed, WellShaped, Blocks, Dominators
  <2>3. DOMAIN phis = Blocks(P) /\ \A b \in Blocks(P) : phis[b] \subseteq PHI(b)
    BY <1>2, <1>5
  <2>4. DOMAIN rd = {}
    OBVIOUS
  <2> QED
    BY <1>2, <2>1, <2>2, <2>3, <2>4, EmptySeqType DEF TypeOK
<1>7. InvPHIs
  BY <1>2, <1>5 DEF InvPHIs
<1>8. InvMap /\ InvWalk /\ InvVals /\ InvTodo
  BY DEF InvMap, MapOK, InvWalk, InvVals, InvTodo, Idle
<1> QED
  BY <1>3, <1>6, <1>7, <1>8 DEF IInv

\* Every step of the pass preserves the inductive invariant.
LEMMA NextIInv == IInv /\ [Next]_vars => IInv'
<1> SUFFICES ASSUME IInv, [Next]_vars PROVE IInv'
  OBVIOUS
<1>1. CASE \E n \in names_left : StartName(n)
  BY <1>1, StartNameStep
<1>2. CASE \E b \in worklist : InsertPHIs(b)
  BY <1>2, InsertPHIsStep
<1>3. CASE BeginRename
  BY <1>3, BeginRenameStep
<1>4. CASE FollowChain \/ EndChain
  BY <1>4, FollowChainStep, EndChainStep
<1>5. CASE PHIStep
  BY <1>5, VisitSourcePHIStep, SeekPHIStep, VisitInsertedPHIStep, EndPHIsStep DEF PHIStep
<1>6. CASE SeekOperand
  BY <1>6, SeekOperandStep
<1>7. CASE VisitSequence
  BY <1>7, VisitWriteStep, VisitInsertSeqStep, VisitSwapStep, VisitSplitStep
     DEF VisitSequence
<1>8. CASE VisitAssoc
  BY <1>8, VisitWriteStep, VisitHasStep DEF VisitAssoc
<1>9. CASE VisitAccess
  BY <1>9, VisitWriteStep, VisitInstructionStep, VisitReadStep DEF VisitAccess
<1>10. CASE VisitInstruction
  BY <1>10, VisitInstructionStep
<1>11. CASE EndInstructions
  BY <1>11, EndInstructionsStep
<1>12. CASE EdgeStep
  BY <1>12, SeekIncomingStep, SetIncomingStep, NextBlockStep, EndTraversalStep DEF EdgeStep
<1>13. CASE Cleanup
  BY <1>13, EndTraversalStep
<1>14. CASE Terminating \/ UNCHANGED vars
  BY <1>14, StutterStep DEF Terminating
<1> QED
  BY <1>1, <1>2, <1>3, <1>4, <1>5, <1>6, <1>7, <1>8, <1>9, <1>10, <1>11, <1>12,
     <1>13, <1>14 DEF Next, Pass

\* IInv holds in every state of the pass, with or without use-PHIs.
THEOREM Inductive == Spec => []IInv
  BY InitIInv, NextIInv, PTL DEF Spec

\* The pass's bookkeeping keeps its types on every well-formed function.
THEOREM TypeCorrect == Spec => []TypeOK
<1>1. IInv => TypeOK
  BY DEF IInv
<1> QED
  BY <1>1, Inductive, PTL

(***************************************************************************)
(* update_reaching_definition never returns nullptr, and what it returns   *)
(* dominates the program point it was asked for, on every function LLVM's  *)
(* verifier accepts.  So every operand and every incoming value of a PHI   *)
(* that the pass writes is one that the verifier accepts again.            *)
(***************************************************************************)
THEOREM ReachingDefinitionsDominate == Spec => []ReachingDominates
<1>1. IInv => ReachingDominates
  BY NoNameIsNoName DEF IInv, InvVals, ReachingDominates, Null, Val
<1> QED
  BY <1>1, Inductive, PTL

\* The chains of reaching_definitions stay in the web of their variable.
THEOREM WebsAreClosed == Spec => []ChainsStayInWeb
<1>1. IInv => ChainsStayInWeb
  BY DEF IInv, InvMap, MapOK, Known, ChainsStayInWeb
<1> QED
  BY <1>1, Inductive, PTL

-----------------------------------------------------------------------------
(***************************************************************************)
(* ResultVerifies.  Sequences: what is emitted, and what cleanup leaves.   *)
(***************************************************************************)

LEMMA EntriesAre ==
  ASSUME NEW S, NEW s \in Seq(S)
  PROVE  s \in Seq(Entries(s))
<1>1. /\ Len(s) \in Nat /\ s \in [1 .. Len(s) -> S] /\ DOMAIN s = 1 .. Len(s)
  BY LenProperties
<1>2. \A i \in 1 .. Len(s) : s[i] \in Entries(s)
  BY <1>1 DEF Entries
<1>3. s \in [1 .. Len(s) -> Entries(s)]
  BY <1>1, <1>2
<1> QED
  BY <1>1, <1>3

\* The elements of whole are those of s, then some of t.
Joined(whole, s, t) ==
  \A i \in DOMAIN whole :
    \/ i \in DOMAIN s /\ whole[i] = s[i]
    \/ i > Len(s) /\ \E k \in DOMAIN t : whole[i] = t[k]

LEMMA Emitting ==
  ASSUME NEW s, s \in Seq(Entries(s)), NEW t, t \in Seq(Entries(t)), NEW whole, whole = s \o t
  PROVE  /\ whole \in Seq(Entries(whole)) /\ Joined(whole, s, t)
         /\ Staying(whole) = Staying(s) \cup Staying(t)
<1> DEFINE S == Entries(s) \cup Entries(t)
<1>1. s \in Seq(S) /\ t \in Seq(S)
  BY DEF Entries
<1>2. /\ whole \in Seq(S) /\ Len(whole) = Len(s) + Len(t)
      /\ \A i \in 1 .. Len(s) + Len(t) :
           whole[i] = IF i <= Len(s) THEN s[i] ELSE t[i - Len(s)]
  BY <1>1, ConcatProperties
<1> HIDE DEF S
<1>3. /\ Len(s) \in Nat /\ Len(t) \in Nat /\ DOMAIN s = 1 .. Len(s) /\ DOMAIN t = 1 .. Len(t)
      /\ DOMAIN whole = 1 .. Len(s) + Len(t)
  BY <1>1, <1>2
<1>4. whole \in Seq(Entries(whole))
  BY <1>2, EntriesAre
<1>5. \A i \in DOMAIN whole :
              \/ i \in DOMAIN s /\ whole[i] = s[i]
              \/ i - Len(s) \in DOMAIN t /\ whole[i] = t[i - Len(s)] /\ i > Len(s)
  BY <1>2, <1>3
<1>6. \A i \in DOMAIN s : i \in DOMAIN whole /\ whole[i] = s[i]
  BY <1>2, <1>3
<1>7. \A i \in DOMAIN t : i + Len(s) \in DOMAIN whole /\ whole[i + Len(s)] = t[i]
  <2> SUFFICES ASSUME NEW i \in DOMAIN t
               PROVE  i + Len(s) \in DOMAIN whole /\ whole[i + Len(s)] = t[i]
    OBVIOUS
  <2>1. PICK k : k = i + Len(s)
    OBVIOUS
  <2>2. k \in DOMAIN whole /\ ~(k <= Len(s)) /\ k - Len(s) = i
    BY <1>3, <2>1
  <2> QED
    BY <1>2, <1>3, <2>1, <2>2
<1>8. Staying(whole) \subseteq Staying(s) \cup Staying(t)
  BY <1>5 DEF Staying
<1>9. Staying(s) \subseteq Staying(whole)
  BY <1>6 DEF Staying
<1>10. Staying(t) \subseteq Staying(whole)
  BY <1>7 DEF Staying
<1>11. Joined(whole, s, t)
  BY <1>5 DEF Joined
<1> QED
  BY <1>4, <1>8, <1>9, <1>10, <1>11

\* What cleanup leaves of the first instructions, however many.
Leaving(f, s, n) ==
  f = [i \in 0 .. n |->
         IF i = 0 THEN << >>
         ELSE IF s[i].marked THEN f[i - 1] ELSE Append(f[i - 1], s[i])]

LEMMA LeavingExists ==
  ASSUME NEW s, NEW m \in Nat
  PROVE  \E f : Leaving(f, s, m)
<1> DEFINE Q == {n \in Nat : \E f : Leaving(f, s, n)}
<1>1. 0 \in Q
  <2> DEFINE f == [i \in 0 .. 0 |-> << >>]
  <2>1. Leaving(f, s, 0)
    BY DEF Leaving
  <2> QED
    BY <2>1
<1>2. ASSUME NEW n \in 1 .. m, n - 1 \in Q PROVE n \in Q
  <2>1. PICK g : Leaving(g, s, n - 1)
    BY <1>2
  <2> DEFINE last == IF s[n].marked THEN g[n - 1] ELSE Append(g[n - 1], s[n])
             f == [i \in 0 .. n |-> IF i = n THEN last ELSE g[i]]
  <2>2. \A i \in 0 .. n - 1 :
          g[i] = IF i = 0 THEN << >> ELSE IF s[i].marked THEN g[i - 1] ELSE Append(g[i - 1], s[i])
    BY <2>1 DEF Leaving
  <2>3. f = [i \in 0 .. n |-> f[i]] /\ f[n] = last /\ \A i \in 0 .. n - 1 : f[i] = g[i]
    OBVIOUS
  <2> HIDE DEF f
  <2>4. \A i \in 0 .. n : i # n => i \in 0 .. n - 1 /\ (i # 0 => i - 1 \in 0 .. n - 1)
    OBVIOUS
  <2>5. \A i \in 0 .. n :
          f[i] = IF i = 0 THEN << >> ELSE IF s[i].marked THEN f[i - 1] ELSE Append(f[i - 1], s[i])
    <3> TAKE i \in 0 .. n
    <3>1. CASE i = n
      <4>1. n - 1 \in 0 .. n - 1 /\ n # 0
        OBVIOUS
      <4> QED
        BY <2>3, <3>1, <4>1
    <3>2. CASE i # n
      BY <2>2, <2>3, <2>4, <3>2
    <3> QED
      BY <3>1, <3>2
  <2>6. Leaving(f, s, n)
    BY <2>3, <2>5 DEF Leaving
  <2> QED
    BY <2>6
<1> HIDE DEF Q
<1>3. \A n \in 0 .. m : n \in Q
  BY <1>1, <1>2, CountUp
<1> QED
  BY <1>3 DEF Q

LEMMA CleanedIs ==
  ASSUME NEW s, Len(s) \in Nat
  PROVE  \E f : Leaving(f, s, Len(s)) /\ Cleaned(s) = f[Len(s)]
<1> DEFINE f == CHOOSE f : f = [i \in 0 .. Len(s) |->
                  IF i = 0 THEN << >>
                  ELSE IF s[i].marked THEN f[i - 1] ELSE Append(f[i - 1], s[i])]
<1>1. \E g : g = [i \in 0 .. Len(s) |->
                  IF i = 0 THEN << >>
                  ELSE IF s[i].marked THEN g[i - 1] ELSE Append(g[i - 1], s[i])]
  <2>1. \E g : Leaving(g, s, Len(s))
    BY LeavingExists
  <2> QED
    BY <2>1 DEF Leaving
<1>2. f = [i \in 0 .. Len(s) |->
             IF i = 0 THEN << >>
             ELSE IF s[i].marked THEN f[i - 1] ELSE Append(f[i - 1], s[i])]
  BY <1>1
<1>3. Cleaned(s) = f[Len(s)]
  BY DEF Cleaned
<1> HIDE DEF f
<1>4. Leaving(f, s, Len(s))
  BY <1>2 DEF Leaving
<1> QED
  BY <1>3, <1>4

\* t holds, in their order, the instructions that stay of the first n of s.
LeftOf(t, s, n) ==
  /\ t \in Seq(Entries(s)) /\ Sorted(t)
  /\ \A j \in DOMAIN t : ~t[j].marked /\ \E k \in 1 .. n : t[j] = s[k]
  /\ \A k \in 1 .. n : ~s[k].marked => \E j \in DOMAIN t : t[j] = s[k]

LEMMA OneMoreLeft ==
  ASSUME NEW s, s \in Seq(Entries(s)), Sorted(s), \A i \in DOMAIN s : s[i].at[2] \in Nat,
         NEW n \in 1 .. Len(s), NEW t, LeftOf(t, s, n - 1)
  PROVE  LeftOf(IF s[n].marked THEN t ELSE Append(t, s[n]), s, n)
<1>1. /\ Len(s) \in Nat /\ DOMAIN s = 1 .. Len(s) /\ n \in DOMAIN s /\ s[n] \in Entries(s)
  BY DEF Entries
<1>2. \A k \in 1 .. n : k = n \/ k \in 1 .. n - 1
  OBVIOUS
<1>3. \A k \in 1 .. n - 1 : k \in 1 .. n /\ k \in DOMAIN s /\ k < n
  BY <1>1
<1>4. CASE s[n].marked
  BY <1>2, <1>3, <1>4 DEF LeftOf
<1>5. CASE ~s[n].marked
  <2>1. PICK w : w = Append(t, s[n])
    OBVIOUS
  <2>2. /\ t \in Seq(Entries(s)) /\ w \in Seq(Entries(s)) /\ Len(t) \in Nat
        /\ DOMAIN t = 1 .. Len(t) /\ DOMAIN w = 1 .. Len(t) + 1
        /\ w[Len(t) + 1] = s[n] /\ \A j \in DOMAIN t : w[j] = t[j]
    BY <1>1, <2>1 DEF LeftOf
  <2>3. \A j \in DOMAIN w : j \in DOMAIN t \/ j = Len(t) + 1
    BY <2>2
  <2>4. \A j \in DOMAIN t : j \in DOMAIN w
    BY <2>2
  <2>5. \A j \in DOMAIN w : ~w[j].marked /\ \E k \in 1 .. n : w[j] = s[k]
    <3>1. \A j \in DOMAIN t : ~t[j].marked /\ \E k \in 1 .. n : t[j] = s[k]
      BY <1>3 DEF LeftOf
    <3>2. n \in 1 .. n
      OBVIOUS
    <3> QED
      BY <1>5, <2>2, <2>3, <3>1, <3>2
  <2>6. \A k \in 1 .. n : ~s[k].marked => \E j \in DOMAIN w : w[j] = s[k]
    <3> SUFFICES ASSUME NEW k \in 1 .. n, ~s[k].marked
                 PROVE  \E j \in DOMAIN w : w[j] = s[k]
      OBVIOUS
    <3>1. CASE k = n
      <4>1. Len(t) + 1 \in DOMAIN w
        BY <2>2
      <4> QED
        BY <2>2, <3>1, <4>1
    <3>2. CASE k \in 1 .. n - 1
      BY <2>2, <2>4, <3>2 DEF LeftOf
    <3> QED
      BY <1>2, <3>1, <3>2
  <2>7. Sorted(w)
    <3> SUFFICES ASSUME NEW i \in DOMAIN w, NEW j \in DOMAIN w, i < j
                 PROVE  w[i].at[2] <= w[j].at[2]
      BY DEF Sorted
    <3>1. i \in DOMAIN t
      BY <2>2
    <3>2. CASE j \in DOMAIN t
      BY <2>2, <3>1, <3>2 DEF LeftOf, Sorted
    <3>3. CASE j = Len(t) + 1
      <4>1. PICK k \in 1 .. n - 1 : t[i] = s[k]
        BY <3>1 DEF LeftOf
      <4>2. s[k].at[2] <= s[n].at[2]
        BY <1>1, <1>3 DEF Sorted
      <4> QED
        BY <2>2, <3>1, <3>3, <4>1, <4>2
    <3> QED
      BY <2>3, <3>2, <3>3
  <2>8. LeftOf(w, s, n)
    BY <2>2, <2>5, <2>6, <2>7 DEF LeftOf
  <2> QED
    BY <1>5, <2>1, <2>8
<1> QED
  BY <1>4, <1>5

\* Cleanup leaves what is not marked, in its order.
LEMMA Cleaning ==
  ASSUME NEW s, s \in Seq(Entries(s)), Sorted(s), \A i \in DOMAIN s : s[i].at[2] \in Nat
  PROVE  LeftOf(Cleaned(s), s, Len(s))
<1>1. Len(s) \in Nat
  OBVIOUS
<1>2. PICK f : Leaving(f, s, Len(s)) /\ Cleaned(s) = f[Len(s)]
  BY <1>1, CleanedIs
<1> DEFINE Q == {n \in 0 .. Len(s) : LeftOf(f[n], s, n)}
<1>3. f[0] = << >>
  BY <1>1, <1>2 DEF Leaving
<1>4. 0 \in Q
  <2>1. PICK t : t = << >>
    OBVIOUS
  <2>2. t \in Seq(Entries(s)) /\ DOMAIN t = {} /\ 1 .. 0 = {}
    BY <2>1
  <2>3. LeftOf(t, s, 0)
    BY <2>2 DEF LeftOf, Sorted
  <2> QED
    BY <1>1, <1>3, <2>1, <2>3
<1>5. ASSUME NEW n \in 1 .. Len(s), n - 1 \in Q PROVE n \in Q
  <2>0. n \in 0 .. Len(s) /\ n # 0
    BY <1>1
  <2>1. f[n] = IF s[n].marked THEN f[n - 1] ELSE Append(f[n - 1], s[n])
    BY <1>2, <2>0 DEF Leaving
  <2>2. LeftOf(f[n - 1], s, n - 1)
    BY <1>5
  <2>3. LeftOf(f[n], s, n)
    BY <2>1, <2>2, OneMoreLeft
  <2> QED
    BY <2>0, <2>3
<1> HIDE DEF Q
<1>6. \A n \in 0 .. Len(s) : n \in Q
  BY <1>1, <1>4, <1>5, CountUp
<1>7. LeftOf(f[Len(s)], s, Len(s))
  BY <1>1, <1>6 DEF Q
<1> QED
  BY <1>2, <1>7

LEMMA CleanedStays ==
  ASSUME NEW s, s \in Seq(Entries(s)), NEW t, LeftOf(t, s, Len(s))
  PROVE  /\ Staying(t) = Staying(s) /\ t \in Seq(Entries(t)) /\ Sorted(t)
         /\ \A j \in DOMAIN t : ~t[j].marked /\ \E k \in DOMAIN s : t[j] = s[k]
<1>1. DOMAIN s = 1 .. Len(s)
  OBVIOUS
<1>2. t \in Seq(Entries(t)) /\ Sorted(t)
  BY EntriesAre DEF LeftOf
<1>3. \A j \in DOMAIN t : ~t[j].marked /\ \E k \in DOMAIN s : t[j] = s[k]
  BY <1>1 DEF LeftOf
<1>4. \A k \in DOMAIN s : ~s[k].marked => \E j \in DOMAIN t : t[j] = s[k]
  BY <1>1 DEF LeftOf
<1>5. Staying(t) \subseteq Staying(s)
  BY <1>3 DEF Staying
<1>6. Staying(s) \subseteq Staying(t)
  BY <1>3, <1>4 DEF Staying
<1> QED
  BY <1>2, <1>3, <1>5, <1>6

-----------------------------------------------------------------------------
(* What is in the result, and what is ahead. *)

\* A name is an argument, or the PHI or the instruction at its position defines it.
LEMMA SourceIs ==
  ASSUME NEW P, WellFormed(P), NEW n \in Names(P), NEW v, v = Src(P, n)
  PROVE  /\ v.web = n
         /\ \/ n \in P.args /\ v.blk = 0
            \/ /\ v.blk \in Blocks(P) /\ v.idx = 0
               /\ \E q \in P.phis[v.blk] : q.def = n
            \/ /\ v.blk \in Blocks(P) /\ v.idx \in 1 .. Len(P.code[v.blk])
               /\ P.code[v.blk][v.idx].def = n
<1>1. v.web = n /\ v.blk = DefPos(P, n)[1] /\ v.idx = DefPos(P, n)[2]
  BY SrcFields
<1>2. CASE n \in P.args
  BY <1>1, <1>2 DEF DefPos
<1>3. CASE n \notin P.args /\ \E b \in Blocks(P) : \E q \in P.phis[b] : q.def = n
  <2>1. PICK b \in Blocks(P) : \E q \in P.phis[b] : q.def = n
    BY <1>3
  <2>2. DefPos(P, n) = <<b, 0>>
    BY <2>1 DEF WellFormed, SingleDefs
  <2> QED
    BY <1>1, <2>1, <2>2
<1>4. CASE n \notin P.args /\ ~\E b \in Blocks(P) : \E q \in P.phis[b] : q.def = n
  <2>1. PICK b \in Blocks(P) : \E i \in 1 .. Len(P.code[b]) : P.code[b][i].def = n
    BY <1>4 DEF Names, InCode, InPHIs
  <2>2. PICK i \in 1 .. Len(P.code[b]) : P.code[b][i].def = n
    BY <2>1
  <2>3. DefPos(P, n) = <<b, i>>
    BY <2>2 DEF WellFormed, SingleDefs, Names
  <2> QED
    BY <1>1, <2>2, <2>3
<1> QED
  BY <1>1, <1>2, <1>3, <1>4

\* The result only grows.
Grown(P, ph, o, ph2, o2) ==
  \A b \in Blocks(P) : /\ \A q \in ph[b] : \E r \in ph2[b] : r.def = q.def
                       /\ Staying(o[b]) \subseteq Staying(o2[b])

LEMMA ResultGrows ==
  ASSUME NEW P, NEW ph, NEW o, NEW ph2, NEW o2, Grown(P, ph, o, ph2, o2),
         NEW v, InResult(P, ph, o, v)
  PROVE  InResult(P, ph2, o2, v)
<1>1. CASE \E n \in P.args : v = Src(P, n)
  BY <1>1 DEF InResult
<1>2. CASE v.blk \in Blocks(P) /\ v.idx = 0 /\ \E q \in ph[v.blk] : q.def = v
  <2>1. \E r \in ph2[v.blk] : r.def = v
    BY <1>2 DEF Grown
  <2> QED
    BY <1>2, <2>1 DEF InResult
<1>3. CASE /\ v.blk \in Blocks(P)
           /\ \E x \in Staying(o[v.blk]) :
                x.at = <<v.blk, v.idx>> /\ \E d \in DOMAIN x.defs : x.defs[d] = v
  <2>1. Staying(o[v.blk]) \subseteq Staying(o2[v.blk])
    BY <1>3 DEF Grown
  <2> QED
    BY <1>3, <2>1 DEF InResult
<1> QED
  BY <1>1, <1>2, <1>3 DEF InResult

LEMMA FitGrows ==
  ASSUME NEW P, NEW dom, NEW ph, NEW o, NEW ph2, NEW o2, Grown(P, ph, o, ph2, o2),
         NEW v, NEW pt, Fit(P, dom, ph, o, v, pt)
  PROVE  Fit(P, dom, ph2, o2, v, pt)
  BY ResultGrows DEF Fit

\* What reaches the point of the pass is not ahead of it.
LEMMA NotAhead ==
  ASSUME IInv, Traversal, stage \in {"phi", "inst", "edge"}, NEW v, Reaches(v, Point)
  PROVE  ~Ahead(fn.P, VisitedTo, v)
<1> SUFFICES ASSUME Ahead(fn.P, VisitedTo, v) PROVE FALSE
  OBVIOUS
<1>1. WellFormed(fn.P) /\ fn.dom = Dominators(fn.P) /\ bb \in seen /\ bb \in Blocks(fn.P) /\ idx \in Nat
  BY FnFacts DEF IInv, TypeOK
<1>2. /\ v.web \in Names(fn.P) /\ v = Src(fn.P, v.web) /\ v.blk \in Blocks(fn.P)
      /\ v.idx >= 1 /\ v.idx >= VisitedTo[v.blk]
  BY DEF Ahead
<1>3. v.idx \in Nat /\ v.blk # 0
  BY <1>1, <1>2, SrcFields DEF Blocks
<1>4. v.idx <= Len(fn.P.code[v.blk]) /\ Len(fn.P.code[v.blk]) \in Nat
  <2>1. v.blk = DefPos(fn.P, v.web)[1] /\ v.idx = DefPos(fn.P, v.web)[2]
    BY <1>1, <1>2, SrcFields
  <2>2. \A b \in Blocks(fn.P) : Len(fn.P.code[b]) \in Nat
    BY <1>1 DEF WellFormed, WellTyped
  <2>3. \/ DefPos(fn.P, v.web) = <<0, 0>>
        \/ \E b \in Blocks(fn.P) : \E i \in 0 .. Len(fn.P.code[b]) : DefPos(fn.P, v.web) = <<b, i>>
    BY <1>1, <1>2, DefPosType
  <2> QED
    BY <1>2, <1>3, <2>1, <2>2, <2>3
<1>5. Dominates(fn.dom, v, Point)
  BY <1>3 DEF Reaches, IsArgument
<1>6. CASE v.blk = bb
  <2>1. VisitedTo[bb] = IF stage = "phi" THEN 1 ELSE IF stage = "inst" THEN idx ELSE Len(fn.P.code[bb]) + 1
    BY <1>1 DEF VisitedTo
  <2>2. Point = <<bb, IF stage = "phi" THEN 0 ELSE IF stage = "inst" THEN idx ELSE Len(fn.P.code[bb]) + 1>>
    BY DEF Point, Terminator
  <2>3. v.idx < Point[2]
    BY <1>5, <1>6, <2>2 DEF Dominates
  <2> QED
    BY <1>1, <1>2, <1>3, <1>4, <1>6, <2>1, <2>2, <2>3
<1>7. CASE v.blk # bb
  <2>1. Point[1] = bb
    BY DEF Point, Terminator
  <2>2. v.blk \in fn.dom[bb]
    BY <1>5, <1>7, <2>1 DEF Dominates
  <2>3. v.blk \in seen
    BY <1>1, <2>2 DEF Traversal
  <2>4. VisitedTo[v.blk] = Len(fn.P.code[v.blk]) + 1
    BY <1>2, <1>7, <2>3 DEF VisitedTo
  <2> QED
    BY <1>2, <1>3, <1>4, <2>4
<1> QED
  BY <1>6, <1>7

\* A step that leaves the PHIs, the code and the visit where they are.
LEMMA BuiltKept ==
  ASSUME Built, UNCHANGED <<fn, phis, out>>, VisitedTo' = VisitedTo,
         ChainsFit(fn.P, phis, out, VisitedTo, rd'),
         \A i \in DOMAIN vals' : InResult(fn.P, phis, out, vals'[i]),
         stage = "names" <=> stage' = "names",
         \A b \in Blocks(fn.P) : \A q \in phis[b] : \A x \in Preds(fn.P, b) :
            Pending(b, q, x) => Pending(b, q, x)',
         Traversal'
  PROVE  Built'
<1>1. ChainsFit(fn.P, phis, out, VisitedTo, rd)'
  BY DEF Built
<1>2. \A i \in DOMAIN vals' : InResult(fn.P, phis, out, vals[i])'
  OBVIOUS
<1>3. NamesFit(fn.P, phis, out, VisitedTo, IF stage = "names" THEN {} ELSE Splits(fn.P))'
  BY DEF Built
<1>4. CodeInOrder(fn.P, out, VisitedTo)'
  BY DEF Built
<1>5. OperandsFit(fn.P, fn.dom, phis, out)'
  BY DEF Built
<1>6. IncomingFit'
  <2> SUFFICES ASSUME NEW b \in Blocks(fn.P), NEW q \in phis[b], NEW x \in Preds(fn.P, b)
               PROVE  Pending(b, q, x)' \/ Fit(fn.P, fn.dom, phis, out, q.in[x], Terminator(fn.P, x))
    BY DEF IncomingFit
  <2> QED
    BY DEF Built, IncomingFit
<1>7. /\ Signatures(fn.P)' /\ (DOMAIN out)' = Blocks(fn.P)' /\ PHIsFirst(fn.P, phis)'
  BY DEF Built
<1> QED
  BY <1>1, <1>2, <1>3, <1>4, <1>5, <1>6, <1>7 DEF Built

-----------------------------------------------------------------------------
(* Steps that write nothing. *)

LEMMA ChainsSet ==
  ASSUME NEW P, NEW ph, NEW o, NEW l, NEW f, ChainsFit(P, ph, o, l, f),
         NEW x, NEW d, InResult(P, ph, o, d)
  PROVE  ChainsFit(P, ph, o, l, SetDef(f, x, d))
<1>1. \A v \in DOMAIN SetDef(f, x, d) :
        /\ SetDef(f, x, d)[v] = IF v = x THEN d ELSE f[v]
        /\ v # x => v \in DOMAIN f
  BY DEF SetDef
<1> QED
  BY <1>1 DEF ChainsFit

LEMMA StartNameBuilt ==
  ASSUME IInv, Built, NEW n \in names_left, StartName(n)
  PROVE  Built'
<1> USE DEF StartName, visitVars
<1>1. VisitedTo' = VisitedTo
  BY DEF VisitedTo
<1>2. ChainsFit(fn.P, phis, out, VisitedTo, rd')
  BY DEF Built
<1>3. \A i \in DOMAIN vals' : InResult(fn.P, phis, out, vals'[i])
  BY DEF Built
<1>4. Traversal'
  BY DEF Built, Traversal
<1>5. \A b, q, x : Pending(b, q, x) => Pending(b, q, x)'
  BY DEF Pending, Unfilled
<1> QED
  BY <1>1, <1>2, <1>3, <1>4, <1>5, BuiltKept

LEMMA BeginRenameBuilt ==
  ASSUME IInv, Built, BeginRename
  PROVE  Built'
<1> USE DEF BeginRename, insertVars
<1>1. VisitedTo' = VisitedTo
  BY DEF VisitedTo
<1>2. ChainsFit(fn.P, phis, out, VisitedTo, rd')
  <2>1. NamesFit(fn.P, phis, out, VisitedTo, {})
    BY DEF Built
  <2>2. \A v \in DOMAIN rd' : rd'[v] = v /\ \E n \in Names(fn.P) : v = Src(fn.P, n)
    OBVIOUS
  <2> QED
    BY <2>1, <2>2 DEF NamesFit, ChainsFit
<1>3. \A i \in DOMAIN vals' : InResult(fn.P, phis, out, vals'[i])
  BY DEF Built
<1>4. Traversal'
  <2>1. focus = NoFocus
    BY DEF IInv, InvVals
  <2> QED
    BY <2>1 DEF Built, Traversal
<1>5. \A b, q, x : Pending(b, q, x) => Pending(b, q, x)'
  BY DEF Pending, Unfilled
<1>6. ChainsFit(fn.P, phis, out, VisitedTo, rd)'
  BY <1>1, <1>2
<1>7. \A i \in DOMAIN vals' : InResult(fn.P, phis, out, vals[i])'
  BY <1>3
<1>8. NamesFit(fn.P, phis, out, VisitedTo, IF stage = "names" THEN {} ELSE Splits(fn.P))'
  <2>1. NamesFit(fn.P, phis, out, VisitedTo, {})
    BY DEF Built
  <2>2. NamesFit(fn.P, phis, out, VisitedTo, Splits(fn.P))
    BY <2>1 DEF NamesFit
  <2> QED
    BY <1>1, <2>2
<1>9. CodeInOrder(fn.P, out, VisitedTo)' /\ OperandsFit(fn.P, fn.dom, phis, out)'
  BY <1>1 DEF Built
<1>10. IncomingFit'
  <2> SUFFICES ASSUME NEW b \in Blocks(fn.P), NEW q \in phis[b], NEW x \in Preds(fn.P, b)
               PROVE  Pending(b, q, x)' \/ Fit(fn.P, fn.dom, phis, out, q.in[x], Terminator(fn.P, x))
    BY DEF IncomingFit
  <2> QED
    BY <1>5 DEF Built, IncomingFit
<1>11. /\ Signatures(fn.P)' /\ (DOMAIN out)' = Blocks(fn.P)' /\ PHIsFirst(fn.P, phis)'
  BY DEF Built
<1> QED
  BY <1>4, <1>6, <1>7, <1>8, <1>9, <1>10, <1>11 DEF Built

LEMMA FollowChainBuilt ==
  ASSUME IInv, Built, FollowChain \/ UNCHANGED vars
  PROVE  Built'
<1> USE DEF FollowChain, insertVars, visitVars, vars
<1>1. VisitedTo' = VisitedTo
  BY DEF VisitedTo
<1>2. ChainsFit(fn.P, phis, out, VisitedTo, rd')
  BY DEF Built
<1>3. \A i \in DOMAIN vals' : InResult(fn.P, phis, out, vals'[i])
  BY DEF Built
<1>4. Traversal'
  BY DEF Built, Traversal
<1>5. \A b, q, x : Pending(b, q, x) => Pending(b, q, x)'
  BY DEF Pending, Unfilled
<1>6. UNCHANGED <<fn, phis, out, stage>>
  OBVIOUS
<1> QED
  BY <1>1, <1>2, <1>3, <1>4, <1>5, <1>6, BuiltKept

LEMMA EndChainBuilt ==
  ASSUME IInv, Built, EndChain
  PROVE  Built'
<1> USE DEF EndChain, insertVars, visitVars
<1>1. /\ walk.cur \in DOMAIN rd /\ NextDef = rd[walk.cur]
      /\ NextDef.web = walk.var.web /\ walk.var.web \in Names(fn.P)
      /\ Reaches(walk.var, walk.pt) /\ walk.pt = Point /\ stage \in {"phi", "inst", "edge"}
  BY DEF IInv, InvWalk, InvMap, MapOK, NextDef, SourceAt
<1>2. NextDef # Null
  BY <1>1, NoNameIsNoName DEF Null, Val
<1>3. Reaches(NextDef, Point)
  BY <1>1, <1>2 DEF ChainEnds, Reaches
<1>4. InResult(fn.P, phis, out, NextDef)
  <2>1. InResult(fn.P, phis, out, NextDef) \/ (NextDef = walk.cur /\ Ahead(fn.P, VisitedTo, walk.cur))
    BY <1>1 DEF Built, ChainsFit
  <2>2. ~Ahead(fn.P, VisitedTo, NextDef)
    BY <1>1, <1>3, NotAhead DEF Built
  <2> QED
    BY <2>1, <2>2
<1>5. VisitedTo' = VisitedTo
  BY DEF VisitedTo
<1>6. ChainsFit(fn.P, phis, out, VisitedTo, rd')
  BY <1>4, ChainsSet DEF Built
<1>7. \A i \in DOMAIN vals' : InResult(fn.P, phis, out, vals'[i])
  <2>1. vals \in Seq(Value) /\ \A i \in DOMAIN vals : InResult(fn.P, phis, out, vals[i])
    BY DEF IInv, TypeOK, Built
  <2>2. \A i \in DOMAIN vals' : vals'[i] = NextDef \/ (i \in DOMAIN vals /\ vals'[i] = vals[i])
    BY <2>1
  <2> QED
    BY <1>4, <2>1, <2>2
<1>8. Traversal'
  BY DEF Built, Traversal
<1>9. \A b, q, x : Pending(b, q, x) => Pending(b, q, x)'
  BY DEF Pending, Unfilled
<1> QED
  BY <1>5, <1>6, <1>7, <1>8, <1>9, BuiltKept

LEMMA VisitSourcePHIBuilt ==
  ASSUME IInv, Built, NEW q \in todo, VisitSourcePHI(q)
  PROVE  Built'
<1> USE DEF VisitSourcePHI, insertVars
<1>1. q \in phis[bb] /\ bb \in Blocks(fn.P)
  BY DEF IInv, InvTodo, TypeOK
<1>2. InResult(fn.P, phis, out, q.def)
  BY <1>1 DEF Built, PHIsFirst, InResult
<1>3. VisitedTo' = VisitedTo
  BY DEF VisitedTo
<1>4. ChainsFit(fn.P, phis, out, VisitedTo, rd')
  BY <1>2, ChainsSet DEF Built
<1>5. \A i \in DOMAIN vals' : InResult(fn.P, phis, out, vals'[i])
  BY DEF Built
<1>6. Traversal'
  BY DEF Built, Traversal
<1>7. \A b, r, x : Pending(b, r, x) => Pending(b, r, x)'
  BY DEF Pending, Unfilled
<1> QED
  BY <1>3, <1>4, <1>5, <1>6, <1>7, BuiltKept

LEMMA SeekPHIBuilt ==
  ASSUME IInv, Built, NEW q \in todo, SeekPHI(q)
  PROVE  Built'
<1> USE DEF SeekPHI, Seek, insertVars
<1>1. q \in phis[bb]
  BY DEF IInv, InvTodo, TypeOK
<1>3. VisitedTo' = VisitedTo
  BY DEF VisitedTo
<1>4. ChainsFit(fn.P, phis, out, VisitedTo, rd')
  BY DEF Built
<1>5. \A i \in DOMAIN vals' : InResult(fn.P, phis, out, vals'[i])
  BY DEF Built
<1>6. Traversal'
  <2>1. focus'[2] = q.def
    OBVIOUS
  <2> QED
    BY <1>1, <2>1 DEF Built, Traversal
<1>7. \A b, r, x : Pending(b, r, x) => Pending(b, r, x)'
  BY DEF Pending, Unfilled
<1> QED
  BY <1>3, <1>4, <1>5, <1>6, <1>7, BuiltKept

LEMMA VisitInsertedPHIBuilt ==
  ASSUME IInv, Built, VisitInsertedPHI
  PROVE  Built'
<1> USE DEF VisitInsertedPHI, insertVars
<1> DEFINE phi == focus[2]
           half == SetDef(rd, Src(fn.P, phi.web), phi)
<1>1. (\E q \in phis[bb] : q.def = phi) /\ bb \in Blocks(fn.P) /\ Len(vals) = 1
  BY DEF Built, Traversal, IInv, TypeOK, InvVals
<1>2. InResult(fn.P, phis, out, phi)
  BY <1>1 DEF Built, PHIsFirst, InResult
<1>3. InResult(fn.P, phis, out, vals[1])
  <2>1. 1 \in DOMAIN vals
    BY <1>1 DEF IInv, TypeOK
  <2> QED
    BY <2>1 DEF Built
<1>4. ChainsFit(fn.P, phis, out, VisitedTo, half)
  BY <1>2, ChainsSet DEF Built
<1>5. rd' = SetDef(half, phi, vals[1])
  OBVIOUS
<1> HIDE DEF half
<1>6. ChainsFit(fn.P, phis, out, VisitedTo, rd')
  BY <1>3, <1>4, <1>5, ChainsSet
<1>7. VisitedTo' = VisitedTo
  BY DEF VisitedTo
<1>8. \A i \in DOMAIN vals' : InResult(fn.P, phis, out, vals'[i])
  OBVIOUS
<1>9. Traversal'
  BY DEF Built, Traversal
<1>10. \A b, r, x : Pending(b, r, x) => Pending(b, r, x)'
  BY DEF Pending, Unfilled
<1> QED
  BY <1>6, <1>7, <1>8, <1>9, <1>10, BuiltKept

LEMMA EndPHIsBuilt ==
  ASSUME IInv, Built, EndPHIs
  PROVE  Built'
<1> USE DEF EndPHIs, insertVars
<1>1. VisitedTo' = VisitedTo
  BY DEF VisitedTo
<1>2. ChainsFit(fn.P, phis, out, VisitedTo, rd')
  BY DEF Built
<1>3. \A i \in DOMAIN vals' : InResult(fn.P, phis, out, vals'[i])
  BY DEF Built
<1>4. Traversal'
  <2>1. Len(fn.P.code[bb]) \in Nat
    BY FnFacts DEF WellFormed, WellTyped, IInv, TypeOK
  <2>2. idx' <= Len(fn.P.code[bb]) + 1
    BY <2>1
  <2> QED
    BY <2>2 DEF Built, Traversal
<1>5. \A b, q, x : Pending(b, q, x) => Pending(b, q, x)'
  BY DEF Pending, Unfilled
<1> QED
  BY <1>1, <1>2, <1>3, <1>4, <1>5, BuiltKept

LEMMA SeekOperandBuilt ==
  ASSUME IInv, Built, SeekOperand
  PROVE  Built'
<1> USE DEF SeekOperand, Seek, insertVars, visitVars
<1>1. VisitedTo' = VisitedTo
  BY DEF VisitedTo
<1>2. ChainsFit(fn.P, phis, out, VisitedTo, rd')
  BY DEF Built
<1>3. \A i \in DOMAIN vals' : InResult(fn.P, phis, out, vals'[i])
  BY DEF Built
<1>4. Traversal'
  BY DEF Built, Traversal
<1>5. \A b, q, x : Pending(b, q, x) => Pending(b, q, x)'
  BY DEF Pending, Unfilled
<1> QED
  BY <1>1, <1>2, <1>3, <1>4, <1>5, BuiltKept

LEMMA EndInstructionsBuilt ==
  ASSUME IInv, Built, EndInstructions
  PROVE  Built'
<1> USE DEF EndInstructions, insertVars
<1>1. VisitedTo' = VisitedTo
  <2>1. idx = Len(fn.P.code[bb]) + 1
    <3>1. Len(fn.P.code[bb]) \in Nat /\ idx \in Nat
      BY FnFacts DEF WellFormed, WellTyped, IInv, TypeOK
    <3>2. idx <= Len(fn.P.code[bb]) + 1 /\ idx > Len(fn.P.code[bb])
      BY DEF Built, Traversal
    <3> QED
      BY <3>1, <3>2
  <2> QED
    BY <2>1 DEF VisitedTo
<1>2. ChainsFit(fn.P, phis, out, VisitedTo, rd')
  BY DEF Built
<1>3. \A i \in DOMAIN vals' : InResult(fn.P, phis, out, vals'[i])
  BY DEF Built
<1>4. Traversal'
  BY DEF Built, Traversal
<1>5. ASSUME NEW b \in Blocks(fn.P), NEW q \in phis[b], NEW x \in Preds(fn.P, b), Pending(b, q, x)
      PROVE  Pending(b, q, x)'
  <2>1. x \notin seen \/ x = bb
    BY <1>5 DEF Pending, Unfilled
  <2>2. x = bb => b \in fn.P.succ[bb]
    BY DEF Preds
  <2>3. x = bb => <<b, q.def>> \in todo'
    BY <2>2
  <2> QED
    BY <2>1, <2>3 DEF Pending, Unfilled
<1> QED
  BY <1>1, <1>2, <1>3, <1>4, <1>5, BuiltKept

LEMMA SeekIncomingBuilt ==
  ASSUME IInv, Built, NEW slot \in todo, SeekIncoming(slot)
  PROVE  Built'
<1> USE DEF SeekIncoming, insertVars
<1>1. VisitedTo' = VisitedTo
  BY DEF VisitedTo
<1>2. ChainsFit(fn.P, phis, out, VisitedTo, rd')
  BY DEF Built
<1>3. \A i \in DOMAIN vals' : InResult(fn.P, phis, out, vals'[i])
  BY DEF Built
<1>4. Traversal'
  BY DEF Built, Traversal
<1>5. ASSUME NEW b \in Blocks(fn.P), NEW q, NEW x, Pending(b, q, x)
      PROVE  Pending(b, q, x)'
  <2>1. /\ focus = NoFocus /\ focus' = slot /\ todo' = todo \ {slot}
        /\ UNCHANGED <<stage, seen, bb>> /\ stage = "edge"
    OBVIOUS
  <2>2. PICK s : s = <<b, q.def>>
    OBVIOUS
  <2>3. s # focus
    BY <2>1, <2>2 DEF NoFocus, Blocks
  <2>4. x \notin seen \/ (x = bb /\ s \in todo)
    BY <1>5, <2>1, <2>2, <2>3 DEF Pending, Unfilled
  <2> QED
    BY <2>1, <2>2, <2>4 DEF Pending, Unfilled
<1> QED
  BY <1>1, <1>2, <1>3, <1>4, <1>5, BuiltKept

-----------------------------------------------------------------------------
(* Steps that change the PHIs, the block or the code as a whole. *)

LEMMA BuiltGrows ==
  ASSUME Built, UNCHANGED <<fn, rd>>, VisitedTo' = VisitedTo,
         Grown(fn.P, phis, out, phis', out'),
         \A i \in DOMAIN vals' : \E k \in DOMAIN vals : vals'[i] = vals[k],
         stage = "names" <=> stage' = "names", PHIsFirst(fn.P, phis'),
         DOMAIN out' = Blocks(fn.P), CodeInOrder(fn.P, out', VisitedTo),
         \A b \in Blocks(fn.P) : Staying(out'[b]) = Staying(out[b]),
         IncomingFit', Traversal'
  PROVE  Built'
<1>1. ChainsFit(fn.P, phis, out, VisitedTo, rd)'
  <2>1. ChainsFit(fn.P, phis', out', VisitedTo, rd)
    BY ResultGrows DEF Built, ChainsFit
  <2> QED
    BY <2>1
<1>2. \A i \in DOMAIN vals' : InResult(fn.P, phis', out', vals'[i])
  BY ResultGrows DEF Built
<1>3. NamesFit(fn.P, phis, out, VisitedTo, IF stage = "names" THEN {} ELSE Splits(fn.P))'
  <2>1. NamesFit(fn.P, phis', out', VisitedTo, IF stage = "names" THEN {} ELSE Splits(fn.P))
    BY ResultGrows DEF Built, NamesFit
  <2> QED
    BY <2>1
<1>4. OperandsFit(fn.P, fn.dom, phis', out')
  BY FitGrows DEF Built, OperandsFit
<1>5. Signatures(fn.P)'
  BY DEF Built
<1> QED
  BY <1>1, <1>2, <1>3, <1>4, <1>5 DEF Built

LEMMA InsertPHIsBuilt ==
  ASSUME IInv, Built, NEW b \in worklist, InsertPHIs(b)
  PROVE  Built'
<1> USE DEF InsertPHIs, visitVars
<1>1. PICK new : /\ phis' = [f \in DOMAIN phis |->
                               IF f \in new THEN phis[f] \cup {NewPHI(current, f)} ELSE phis[f]]
                 /\ DOMAIN phis = Blocks(fn.P)
  BY DEF IInv, TypeOK
<1>2. Grown(fn.P, phis, out, phis', out')
  BY <1>1 DEF Grown
<1>3. PHIsFirst(fn.P, phis')
  <2> SUFFICES ASSUME NEW f \in Blocks(fn.P), NEW q \in phis'[f]
               PROVE  q.def.blk = f /\ q.def.idx = 0
    BY DEF PHIsFirst
  <2>1. q \in phis[f] \/ q = NewPHI(current, f)
    BY <1>1
  <2> QED
    BY <2>1 DEF Built, PHIsFirst, NewPHI, Val
<1>4. VisitedTo' = VisitedTo
  BY DEF VisitedTo
<1>5. Traversal'
  BY DEF Built, Traversal
<1>6. IncomingFit'
  <2> SUFFICES ASSUME NEW c, NEW q, NEW x
               PROVE  Pending(c, q, x)'
    BY DEF IncomingFit
  <2> QED
    BY DEF Built, Traversal, Pending, Unfilled
<1>7. DOMAIN out' = Blocks(fn.P) /\ CodeInOrder(fn.P, out', VisitedTo) /\ vals' = vals
  BY DEF Built
<1> QED
  BY <1>2, <1>3, <1>4, <1>5, <1>6, <1>7, BuiltGrows

LEMMA SetIncomingBuilt ==
  ASSUME IInv, Built, SetIncoming
  PROVE  Built'
<1> USE DEF SetIncoming, insertVars
<1> DEFINE Put(q) == IF q.def = focus[2] THEN [q EXCEPT !.in[bb] = vals[1]] ELSE q
<1>1. /\ DOMAIN phis = Blocks(fn.P) /\ Len(vals) = 1 /\ bb \in Blocks(fn.P)
      /\ focus = <<focus[1], focus[2]>> /\ focus \notin todo /\ 1 \in DOMAIN vals
  BY DEF IInv, TypeOK, InvVals, InvTodo
<1>2. /\ DOMAIN phis' = Blocks(fn.P)
      /\ \A b \in Blocks(fn.P) :
           phis'[b] = IF b = focus[1] THEN {Put(q) : q \in phis[b]} ELSE phis[b]
  BY <1>1
<1>3. ASSUME NEW b \in Blocks(fn.P), NEW q \in phis[b]
      PROVE  /\ Put(q).def = q.def
             /\ \A x \in Preds(fn.P, b) :
                  Put(q).in[x] = IF q.def = focus[2] /\ x = bb THEN vals[1] ELSE q.in[x]
  <2>1. q \in PHI(b)
    BY DEF IInv, TypeOK
  <2>2. [q EXCEPT !.in[bb] = vals[1]] = [q EXCEPT !.in = [q.in EXCEPT ![bb] = vals[1]]]
    BY <2>1 DEF PHI
  <2> QED
    BY <2>1, <2>2 DEF PHI
<1> HIDE DEF Put
<1>4. ASSUME NEW b \in Blocks(fn.P), NEW q \in phis'[b]
      PROVE  \E r \in phis[b] : /\ q.def = r.def
                                /\ \A x \in Preds(fn.P, b) :
                                     q.in[x] = IF <<b, r.def>> = focus /\ x = bb THEN vals[1] ELSE r.in[x]
  <2>1. CASE b = focus[1]
    <3>1. q \in {Put(r) : r \in phis[b]}
      BY <1>2, <2>1
    <3>2. PICK r \in phis[b] : q = Put(r)
      BY <3>1, Zenon
    <3>3. <<b, r.def>> = focus <=> r.def = focus[2]
      BY <1>1, <2>1
    <3> QED
      BY <1>3, <3>2, <3>3
  <2>2. CASE b # focus[1]
    <3>1. q \in phis[b] /\ <<b, q.def>> # focus
      BY <1>1, <1>2, <2>2
    <3> QED
      BY <3>1
  <2> QED
    BY <2>1, <2>2
<1>5. ASSUME NEW b \in Blocks(fn.P), NEW q \in phis[b] PROVE \E r \in phis'[b] : r.def = q.def
  <2>1. CASE b = focus[1]
    <3>1. Put(q) \in phis'[b]
      BY <1>2, <2>1
    <3> QED
      BY <1>3, <3>1
  <2>2. CASE b # focus[1]
    BY <1>2, <2>2
  <2> QED
    BY <2>1, <2>2
<1>6. Grown(fn.P, phis, out, phis', out')
  BY <1>5 DEF Grown
<1>7. PHIsFirst(fn.P, phis')
  BY <1>4 DEF Built, PHIsFirst
<1>8. VisitedTo' = VisitedTo
  BY DEF VisitedTo
<1>9. Traversal'
  BY DEF Built, Traversal
<1>10. Fit(fn.P, fn.dom, phis, out, vals[1], Terminator(fn.P, bb))
  BY <1>1 DEF Built, Fit, IInv, InvVals, Reaches, Point
<1>11. IncomingFit'
  <2> SUFFICES ASSUME NEW b \in Blocks(fn.P), NEW q \in phis'[b], NEW x \in Preds(fn.P, b)
               PROVE  Pending(b, q, x)' \/ Fit(fn.P, fn.dom, phis', out', q.in[x], Terminator(fn.P, x))
    BY DEF IncomingFit
  <2>1. PICK r \in phis[b] : /\ q.def = r.def
                             /\ \A y \in Preds(fn.P, b) :
                                  q.in[y] = IF <<b, r.def>> = focus /\ y = bb THEN vals[1] ELSE r.in[y]
    BY <1>4
  <2>2. CASE <<b, r.def>> = focus /\ x = bb
    BY <1>6, <1>10, <2>1, <2>2, FitGrows
  <2>3. CASE ~(<<b, r.def>> = focus /\ x = bb)
    <3>1. q.in[x] = r.in[x]
      BY <2>1, <2>3
    <3>2. CASE Fit(fn.P, fn.dom, phis, out, r.in[x], Terminator(fn.P, x))
      BY <1>6, <3>1, <3>2, FitGrows
    <3>3. CASE Pending(b, r, x)
      <4>1. Unfilled(b, r, x)
        BY <2>3, <3>3 DEF Pending
      <4>2. Unfilled(b, q, x)'
        BY <2>1, <4>1 DEF Unfilled
      <4> QED
        BY <4>2 DEF Pending
    <3> QED
      BY <3>2, <3>3 DEF Built, IncomingFit
  <2> QED
    BY <2>2, <2>3
<1>12. DOMAIN out' = Blocks(fn.P) /\ CodeInOrder(fn.P, out', VisitedTo) /\ vals' = << >>
  BY DEF Built
<1> QED
  BY <1>6, <1>7, <1>8, <1>9, <1>11, <1>12, BuiltGrows

LEMMA NextBlockBuilt ==
  ASSUME IInv, Built, NextBlock
  PROVE  Built'
<1> USE DEF NextBlock, insertVars
<1>1. PICK b \in NextInPreorder(fn.P, fn.dom, seen, bb) :
        bb' = b /\ seen' = seen \cup {b} /\ todo' = phis[b]
  OBVIOUS
<1>2. WellFormed(fn.P) /\ fn.dom = Dominators(fn.P) /\ bb \in seen
  BY FnFacts DEF IInv, TypeOK
<1>3. 1 \in Blocks(fn.P) /\ Blocks(fn.P) \subseteq ReachAvoiding(fn.P, 0) /\ IsFiniteSet(Blocks(fn.P))
  <2>1. Len(fn.P.succ) \in Nat /\ Blocks(fn.P) = 1 .. Len(fn.P.succ) /\ 1 \in Blocks(fn.P)
    BY <1>2 DEF WellFormed, WellShaped, Blocks
  <2>2. IsFiniteSet(Blocks(fn.P))
    BY <2>1, FS_Interval
  <2> QED
    BY <1>2, <2>1, <2>2 DEF WellFormed, WellShaped
<1>4. \A a \in seen : fn.dom[a] \subseteq seen
  BY DEF Built, Traversal
<1>5. 1 \in seen
  <2>1. 1 \in fn.dom[bb]
    BY <1>2, <1>3, DominatesItself DEF IInv, TypeOK
  <2> QED
    BY <1>2, <1>4, <2>1
<1>6. b \in Blocks(fn.P) \ seen /\ fn.dom[b] \subseteq seen \cup {b}
  BY <1>2, <1>3, <1>4, <1>5, DominatorsFirst
<1>7. VisitedTo' = VisitedTo
  BY <1>1, <1>2, <1>6 DEF VisitedTo
<1>8. Traversal'
  BY <1>1, <1>4, <1>6 DEF Traversal
<1>9. \A c \in Blocks(fn.P) : \A q, x : Pending(c, q, x) => Pending(c, q, x)'
  <2> SUFFICES ASSUME NEW c \in Blocks(fn.P), NEW q, NEW x, Pending(c, q, x) PROVE Pending(c, q, x)'
    OBVIOUS
  <2>1. PICK s : s = <<c, q.def>>
    OBVIOUS
  <2>2. s # focus
    BY <2>1 DEF NoFocus, Blocks
  <2>3. x \notin seen
    BY <2>1, <2>2 DEF Pending, Unfilled
  <2> QED
    BY <1>1, <2>3 DEF Pending, Unfilled
<1>10. ChainsFit(fn.P, phis, out, VisitedTo, rd') /\ vals' = vals
  BY DEF Built
<1> QED
  BY <1>7, <1>8, <1>9, <1>10, BuiltKept DEF Built

LEMMA EndTraversalBuilt ==
  ASSUME IInv, Built, EndTraversal
  PROVE  Built'
<1> USE DEF EndTraversal, insertVars, visitVars
<1>1. VisitedTo' = VisitedTo
  BY DEF VisitedTo
<1>2. Traversal'
  BY DEF Built, Traversal
<1>3. \A c \in Blocks(fn.P) : \A q, x : Pending(c, q, x) => Pending(c, q, x)'
  <2> SUFFICES ASSUME NEW c \in Blocks(fn.P), NEW q, NEW x, Pending(c, q, x) PROVE Pending(c, q, x)'
    OBVIOUS
  <2>1. PICK s : s = <<c, q.def>>
    OBVIOUS
  <2>2. s # focus
    BY <2>1 DEF NoFocus, Blocks
  <2>3. x \notin seen
    BY <2>1, <2>2 DEF Pending, Unfilled
  <2> QED
    BY <2>3 DEF Pending, Unfilled
<1>4. ChainsFit(fn.P, phis, out, VisitedTo, rd') /\ vals' = vals
  BY DEF Built
<1> QED
  BY <1>1, <1>2, <1>3, <1>4, BuiltKept DEF Built

LEMMA CleanupBuilt ==
  ASSUME IInv, Built, Cleanup
  PROVE  Built'
<1> USE DEF Cleanup, insertVars, visitVars
<1>1. VisitedTo' = VisitedTo
  BY DEF VisitedTo
<1>2. \A b \in Blocks(fn.P) : /\ out[b] \in Seq(Entries(out[b])) /\ Sorted(out[b])
                               /\ \A i \in DOMAIN out[b] : out[b][i].at[2] \in Nat
  BY DEF Built, CodeInOrder
<1>3. DOMAIN out' = Blocks(fn.P) /\ \A b \in Blocks(fn.P) : out'[b] = Cleaned(out[b])
  BY DEF Built
<1>4. ASSUME NEW b \in Blocks(fn.P)
      PROVE  /\ Staying(out'[b]) = Staying(out[b]) /\ out'[b] \in Seq(Entries(out'[b])) /\ Sorted(out'[b])
             /\ \A j \in DOMAIN out'[b] : ~out'[b][j].marked /\ \E k \in DOMAIN out[b] : out'[b][j] = out[b][k]
  <2>1. PICK s, t : s = out[b] /\ t = out'[b]
    OBVIOUS
  <2>2. s \in Seq(Entries(s)) /\ LeftOf(t, s, Len(s))
    BY <1>2, <1>3, <2>1, Cleaning
  <2>3. /\ Staying(t) = Staying(s) /\ t \in Seq(Entries(t)) /\ Sorted(t)
        /\ \A j \in DOMAIN t : ~t[j].marked /\ \E k \in DOMAIN s : t[j] = s[k]
    BY <2>2, CleanedStays
  <2>4. Staying(out'[b]) = Staying(out[b])
    BY <2>1, <2>3
  <2>5. out'[b] \in Seq(Entries(out'[b])) /\ Sorted(out'[b])
    BY <2>1, <2>3
  <2>6. ASSUME NEW j \in DOMAIN out'[b]
        PROVE  ~out'[b][j].marked /\ \E k \in DOMAIN out[b] : out'[b][j] = out[b][k]
    <3>1. j \in DOMAIN t
      BY <2>1
    <3>2. PICK k \in DOMAIN s : t[j] = s[k]
      BY <2>3, <3>1
    <3>3. ~t[j].marked
      BY <2>3, <3>1
    <3>4. k \in DOMAIN out[b] /\ out'[b][j] = out[b][k]
      BY <2>1, <3>2
    <3>5. ~out'[b][j].marked
      BY <2>1, <3>3
    <3> QED
      BY <3>4, <3>5
  <2> QED
    BY <2>4, <2>5, <2>6
<1>5. CodeInOrder(fn.P, out', VisitedTo)
  <2> SUFFICES ASSUME NEW b \in Blocks(fn.P), NEW j \in DOMAIN out'[b]
               PROVE  /\ out'[b][j].at[1] = b /\ out'[b][j].at[2] \in Nat
                      /\ out'[b][j].at[2] < VisitedTo[b]
    BY <1>4 DEF CodeInOrder
  <2>1. PICK k \in DOMAIN out[b] : out'[b][j] = out[b][k]
    BY <1>4
  <2> QED
    BY <2>1 DEF Built, CodeInOrder
<1>6. Grown(fn.P, phis, out, phis', out')
  BY <1>4 DEF Grown
<1>7. Traversal'
  BY <1>4 DEF Built, Traversal
<1>8. IncomingFit'
  <2> SUFFICES ASSUME NEW b \in Blocks(fn.P), NEW q \in phis[b], NEW x \in Preds(fn.P, b)
               PROVE  Fit(fn.P, fn.dom, phis', out', q.in[x], Terminator(fn.P, x))
    BY DEF IncomingFit
  <2>1. ~Pending(b, q, x)
    <3>1. todo = {} /\ seen = Blocks(fn.P) /\ x \in Blocks(fn.P)
      BY DEF Built, Traversal, Preds
    <3> QED
      BY <3>1 DEF Pending, Unfilled
  <2>2. Fit(fn.P, fn.dom, phis, out, q.in[x], Terminator(fn.P, x))
    BY <2>1 DEF Built, IncomingFit
  <2> QED
    BY <1>6, <2>2, FitGrows
<1>9. PHIsFirst(fn.P, phis') /\ vals' = vals
  BY DEF Built
<1> QED
  BY <1>1, <1>3, <1>4, <1>5, <1>6, <1>7, <1>8, <1>9, BuiltGrows

-----------------------------------------------------------------------------
(* Instructions. *)

\* Past an instruction, only what it defines is no longer ahead.
LEMMA StillAhead ==
  ASSUME NEW P, WellFormed(P), NEW b \in Blocks(P), NEW i \in 1 .. Len(P.code[b]),
         NEW l, l[b] = i, NEW l2, \A c \in Blocks(P) : l2[c] = IF c = b THEN i + 1 ELSE l[c],
         NEW v, Ahead(P, l, v)
  PROVE  \/ Ahead(P, l2, v)
         \/ P.code[b][i].def # NoName /\ v = Src(P, P.code[b][i].def)
<1>1. v.web \in Names(P) /\ v = Src(P, v.web) /\ v.blk \in Blocks(P) /\ v.idx >= 1 /\ v.idx >= l[v.blk]
  BY DEF Ahead
<1>2. v.idx \in Nat /\ i \in Nat /\ v.blk # 0
  <2>1. v.idx \in Nat
    BY <1>1, SrcFields
  <2>2. Len(P.code[b]) \in Nat
    BY DEF WellFormed, WellTyped
  <2> QED
    BY <1>1, <2>1, <2>2 DEF Blocks
<1>3. CASE v.blk = b /\ v.idx = i
  <2>1. \/ v.web \in P.args /\ v.blk = 0
        \/ v.idx = 0
        \/ P.code[v.blk][v.idx].def = v.web
    BY <1>1, SourceIs
  <2>2. P.code[b][i].def = v.web
    BY <1>2, <1>3, <2>1
  <2> QED
    BY <1>1, <2>2, NoNameIsNoName
<1>4. CASE v.blk = b /\ v.idx # i
  <2>1. v.idx >= i + 1
    BY <1>1, <1>2, <1>4
  <2>2. v.idx >= l2[v.blk]
    BY <1>1, <1>4, <2>1
  <2> QED
    BY <1>1, <2>2 DEF Ahead
<1>5. CASE v.blk # b
  <2>1. v.idx >= l2[v.blk]
    BY <1>1, <1>5
  <2> QED
    BY <1>1, <2>1 DEF Ahead
<1> QED
  BY <1>3, <1>4, <1>5

\* The chains after a visit, and what has become of the name it defines.
ChainsFollow(f) ==
  \A v \in DOMAIN f :
    \/ InResult(fn.P, phis, out', f[v])
    \/ v \in DOMAIN rd /\ f[v] = rd[v]
DefFollows(f) ==
  inst.def # NoName =>
    \/ InResult(fn.P, phis, out', Src(fn.P, inst.def))
    \/ /\ inst.def \in Splits(fn.P)
       /\ \A v \in DOMAIN f : v = Src(fn.P, inst.def) => f[v] # v

\* What a visit may emit.
Emission(new) ==
  /\ new \in Seq(Entries(new))
  /\ \A i \in DOMAIN new : new[i].at = <<bb, idx>>
  /\ \A x \in Staying(new) :
       /\ x.op \notin MutOps
       /\ \A j \in DOMAIN x.args : Fit(fn.P, fn.dom, phis, out, x.args[j], <<bb, idx>>)

LEMMA EmitFacts ==
  ASSUME IInv, Built, AtInst, NEW new, Emission(new), Emit(new)
  PROVE  /\ DOMAIN out' = Blocks(fn.P) /\ Grown(fn.P, phis, out, phis, out')
         /\ \A b \in Blocks(fn.P) :
              /\ out'[b] = IF b = bb THEN out[bb] \o new ELSE out[b]
              /\ Staying(out'[b]) = IF b = bb THEN Staying(out[bb]) \cup Staying(new)
                                    ELSE Staying(out[b])
              /\ VisitedTo'[b] = IF b = bb THEN idx + 1 ELSE VisitedTo[b]
         /\ VisitedTo[bb] = idx
<1>1. bb \in Blocks(fn.P) /\ bb \in seen
  BY DEF IInv, TypeOK
<1>2. /\ DOMAIN out' = Blocks(fn.P)
      /\ \A b \in Blocks(fn.P) : out'[b] = IF b = bb THEN out[bb] \o new ELSE out[b]
  BY <1>1 DEF Emit, Built
<1>3. Staying(out'[bb]) = Staying(out[bb]) \cup Staying(new)
  <2>1. PICK s, whole : s = out[bb] /\ whole = out'[bb]
    OBVIOUS
  <2>2. s \in Seq(Entries(s)) /\ new \in Seq(Entries(new)) /\ whole = s \o new
    BY <1>1, <1>2, <2>1 DEF Built, CodeInOrder, Emission
  <2>3. Staying(whole) = Staying(s) \cup Staying(new)
    BY <2>2, Emitting
  <2> QED
    BY <2>1, <2>3
<1>4. /\ \A b \in Blocks(fn.P) : VisitedTo'[b] = IF b = bb THEN idx + 1 ELSE VisitedTo[b]
      /\ VisitedTo[bb] = idx
  BY <1>1 DEF VisitedTo, Emit, AtInst
<1>5. Grown(fn.P, phis, out, phis, out')
  BY <1>2, <1>3 DEF Grown
<1> QED
  BY <1>2, <1>3, <1>4, <1>5

LEMMA EmittedInOrder ==
  ASSUME IInv, Built, AtInst, NEW new, Emission(new), Emit(new)
  PROVE  CodeInOrder(fn.P, out', VisitedTo')
<1>1. /\ bb \in Blocks(fn.P) /\ bb \in Nat /\ idx \in Nat /\ VisitedTo[bb] = idx
      /\ \A b \in Blocks(fn.P) :
           /\ out'[b] = IF b = bb THEN out[bb] \o new ELSE out[b]
           /\ VisitedTo'[b] = IF b = bb THEN idx + 1 ELSE VisitedTo[b]
  <2>1. /\ VisitedTo[bb] = idx
        /\ \A b \in Blocks(fn.P) :
             /\ out'[b] = IF b = bb THEN out[bb] \o new ELSE out[b]
             /\ VisitedTo'[b] = IF b = bb THEN idx + 1 ELSE VisitedTo[b]
    BY EmitFacts
  <2>2. bb \in Blocks(fn.P) /\ idx \in Nat
    BY DEF IInv, TypeOK
  <2>3. bb \in Nat
    BY <2>2 DEF Blocks
  <2> QED
    BY <2>1, <2>2, <2>3
<1>2. PICK s, whole : s = out[bb] /\ whole = out'[bb]
  OBVIOUS
<1>3. /\ s \in Seq(Entries(s)) /\ new \in Seq(Entries(new)) /\ whole = s \o new /\ Sorted(s)
      /\ \A i \in DOMAIN s : s[i].at[1] = bb /\ s[i].at[2] \in Nat /\ s[i].at[2] < idx
  BY <1>1, <1>2 DEF Built, CodeInOrder, Emission
<1>4. \A i \in DOMAIN new : new[i].at[1] = bb /\ new[i].at[2] = idx
  BY DEF Emission
<1>5. whole \in Seq(Entries(whole)) /\ Joined(whole, s, new)
  <2>1. s \in Seq(Entries(s)) /\ new \in Seq(Entries(new)) /\ whole = s \o new
    BY <1>3
  <2> QED
    BY <2>1, Emitting
<1>6. \A i \in DOMAIN whole : whole[i].at[1] = bb /\ whole[i].at[2] \in Nat /\ whole[i].at[2] < idx + 1
  BY <1>1, <1>3, <1>4, <1>5 DEF Joined
<1>7. Sorted(whole)
  <2> SUFFICES ASSUME NEW i \in DOMAIN whole, NEW j \in DOMAIN whole, i < j
               PROVE  whole[i].at[2] <= whole[j].at[2]
    BY DEF Sorted
  <2>1. CASE j \in DOMAIN s /\ whole[j] = s[j]
    <3>1. i \in DOMAIN s /\ whole[i] = s[i]
      <4>1. DOMAIN s = 1 .. Len(s) /\ Len(s) \in Nat /\ i \in Nat /\ j \in Nat
        BY <1>3, <1>5, <2>1
      <4>2. ~(i > Len(s))
        BY <2>1, <4>1
      <4> QED
        BY <1>5, <4>2 DEF Joined
    <3> QED
      BY <1>3, <2>1, <3>1 DEF Sorted
  <2>2. CASE whole[j].at[2] = idx
    <3>1. whole[i].at[2] \in Nat /\ whole[i].at[2] < idx + 1
      BY <1>6
    <3> QED
      BY <1>1, <2>2, <3>1
  <2> QED
    BY <1>4, <1>5, <2>1, <2>2 DEF Joined
<1>8. ASSUME NEW b \in Blocks(fn.P)
      PROVE  /\ out'[b] \in Seq(Entries(out'[b])) /\ Sorted(out'[b])
             /\ \A i \in DOMAIN out'[b] :
                  out'[b][i].at[1] = b /\ out'[b][i].at[2] \in Nat /\ out'[b][i].at[2] < VisitedTo'[b]
  <2>1. CASE b = bb
    <3>1. out'[b] = whole /\ VisitedTo'[b] = idx + 1
      BY <1>1, <1>2, <2>1
    <3> QED
      BY <1>5, <1>6, <1>7, <2>1, <3>1
  <2>2. CASE b # bb
    <3>1. out'[b] = out[b] /\ VisitedTo'[b] = VisitedTo[b]
      BY <1>1, <2>2
    <3> QED
      BY <3>1 DEF Built, CodeInOrder
  <2> QED
    BY <2>1, <2>2
<1> QED
  BY <1>8 DEF CodeInOrder

LEMMA EmitBuilt ==
  ASSUME IInv, Built, AtInst, NEW new, Emission(new), Emit(new),
         ChainsFollow(rd'), DefFollows(rd')
  PROVE  Built'
<1>1. /\ bb \in Blocks(fn.P) /\ idx \in 1 .. Len(fn.P.code[bb]) /\ inst = fn.P.code[bb][idx]
      /\ WellFormed(fn.P)
  BY AtInstFacts, FnFacts
<1>2. /\ DOMAIN out' = Blocks(fn.P) /\ Grown(fn.P, phis, out, phis, out')
      /\ \A b \in Blocks(fn.P) :
           /\ Staying(out'[b]) = IF b = bb THEN Staying(out[bb]) \cup Staying(new)
                                 ELSE Staying(out[b])
           /\ VisitedTo'[b] = IF b = bb THEN idx + 1 ELSE VisitedTo[b]
      /\ VisitedTo[bb] = idx
  BY EmitFacts
<1>3. /\ UNCHANGED <<fn, stage, phis, bb, seen, todo, focus>> /\ idx' = idx + 1 /\ vals' = << >>
      /\ stage = "inst"
  BY DEF Emit, AtInst, insertVars
<1>4. \A v : Ahead(fn.P, VisitedTo, v) =>
               \/ Ahead(fn.P, VisitedTo', v)
               \/ inst.def # NoName /\ v = Src(fn.P, inst.def)
  BY <1>1, <1>2, StillAhead
<1>5. \A v : InResult(fn.P, phis, out, v) => InResult(fn.P, phis, out', v)
  BY <1>2, ResultGrows
<1>6. ChainsFit(fn.P, phis, out', VisitedTo', rd')
  <2> SUFFICES ASSUME NEW v \in DOMAIN rd', ~InResult(fn.P, phis, out', rd'[v])
               PROVE  rd'[v] = v /\ Ahead(fn.P, VisitedTo', v)
    BY DEF ChainsFit
  <2>1. v \in DOMAIN rd /\ rd'[v] = rd[v]
    BY DEF ChainsFollow
  <2>2. rd[v] = v /\ Ahead(fn.P, VisitedTo, v)
    BY <1>5, <2>1 DEF Built, ChainsFit
  <2>3. ~(inst.def # NoName /\ v = Src(fn.P, inst.def))
    BY <2>1, <2>2 DEF DefFollows
  <2> QED
    BY <1>4, <2>1, <2>2, <2>3
<1>7. NamesFit(fn.P, phis, out', VisitedTo', Splits(fn.P))
  <2> SUFFICES ASSUME NEW n \in Names(fn.P)
               PROVE  \/ InResult(fn.P, phis, out', Src(fn.P, n))
                      \/ Ahead(fn.P, VisitedTo', Src(fn.P, n)) \/ n \in Splits(fn.P)
    BY DEF NamesFit
  <2>1. \/ InResult(fn.P, phis, out, Src(fn.P, n))
        \/ Ahead(fn.P, VisitedTo, Src(fn.P, n)) \/ n \in Splits(fn.P)
    BY <1>3 DEF Built, NamesFit
  <2>2. CASE inst.def # NoName /\ Src(fn.P, n) = Src(fn.P, inst.def)
    <3>1. inst.def \in Names(fn.P)
      BY <1>1, <2>2, InstType
    <3>2. inst.def = n
      BY <1>1, <2>2, <3>1, SrcFields
    <3> QED
      BY <2>2, <3>2 DEF DefFollows
  <2> QED
    BY <1>4, <1>5, <2>1, <2>2 DEF Joined
<1>8. CodeInOrder(fn.P, out', VisitedTo')
  BY EmittedInOrder
<1>9. OperandsFit(fn.P, fn.dom, phis, out')
  <2> SUFFICES ASSUME NEW b \in Blocks(fn.P), NEW x \in Staying(out'[b])
               PROVE  /\ x.op \notin MutOps
                      /\ \A j \in DOMAIN x.args : Fit(fn.P, fn.dom, phis, out', x.args[j], x.at)
    BY DEF OperandsFit
  <2>1. CASE x \in Staying(out[b])
    <3>1. x.op \notin MutOps /\ \A j \in DOMAIN x.args : Fit(fn.P, fn.dom, phis, out, x.args[j], x.at)
      BY <2>1 DEF Built, OperandsFit
    <3> QED
      BY <1>2, <3>1, FitGrows
  <2>2. CASE x \in Staying(new)
    <3>1. /\ x.op \notin MutOps
          /\ \A j \in DOMAIN x.args : Fit(fn.P, fn.dom, phis, out, x.args[j], <<bb, idx>>)
      BY <2>2 DEF Emission
    <3>2. x.at = <<bb, idx>>
      BY <2>2 DEF Emission, Staying
    <3> QED
      BY <1>2, <3>1, <3>2, FitGrows
  <2> QED
    BY <1>2, <2>1, <2>2
<1>10. IncomingFit'
  <2> SUFFICES ASSUME NEW b \in Blocks(fn.P), NEW q \in phis[b], NEW x \in Preds(fn.P, b)
               PROVE  Pending(b, q, x)' \/ Fit(fn.P, fn.dom, phis, out', q.in[x], Terminator(fn.P, x))
    BY <1>3 DEF IncomingFit
  <2>1. Pending(b, q, x) => Pending(b, q, x)'
    BY <1>3 DEF Pending, Unfilled
  <2>2. CASE Fit(fn.P, fn.dom, phis, out, q.in[x], Terminator(fn.P, x))
    BY <1>2, <2>2, FitGrows
  <2> QED
    BY <2>1, <2>2 DEF Built, IncomingFit
<1>11. Traversal'
  <2>1. idx' <= Len(fn.P.code[bb]) + 1
    <3>1. Len(fn.P.code[bb]) \in Nat
      BY <1>1 DEF WellFormed, WellTyped
    <3> QED
      BY <1>1, <1>3, <3>1
  <2> QED
    BY <1>3, <2>1 DEF Built, Traversal
<1>12. \A i \in DOMAIN vals' : InResult(fn.P, phis, out, vals[i])'
  BY <1>3
<1>13. /\ ChainsFit(fn.P, phis, out, VisitedTo, rd)'
       /\ NamesFit(fn.P, phis, out, VisitedTo, IF stage = "names" THEN {} ELSE Splits(fn.P))'
       /\ CodeInOrder(fn.P, out, VisitedTo)' /\ OperandsFit(fn.P, fn.dom, phis, out)'
  BY <1>3, <1>6, <1>7, <1>8, <1>9
<1>14. /\ Signatures(fn.P)' /\ (DOMAIN out)' = Blocks(fn.P)' /\ PHIsFirst(fn.P, phis)'
  BY <1>2, <1>3 DEF Built
<1> QED
  BY <1>10, <1>11, <1>12, <1>13, <1>14 DEF Built

\* An instruction that a visit may emit.
Emissible(e) ==
  /\ e.at = <<bb, idx>>
  /\ \/ e.marked
     \/ /\ e.op \notin MutOps
        /\ \A j \in DOMAIN e.args : Fit(fn.P, fn.dom, phis, out, e.args[j], <<bb, idx>>)

LEMMA EmissionOf ==
  ASSUME NEW E, NEW new \in Seq(E), \A e \in E : Emissible(e)
  PROVE  Emission(new)
<1>1. new \in Seq(Entries(new))
  BY EntriesAre
<1>2. \A i \in DOMAIN new : new[i] \in E
  OBVIOUS
<1>3. \A i \in DOMAIN new : new[i].at = <<bb, idx>>
  BY <1>2 DEF Emissible
<1>4. ASSUME NEW x \in Staying(new)
      PROVE  /\ x.op \notin MutOps
             /\ \A j \in DOMAIN x.args : Fit(fn.P, fn.dom, phis, out, x.args[j], <<bb, idx>>)
  <2>1. Emissible(x) /\ ~x.marked
    BY <1>2 DEF Staying
  <2> QED
    BY <2>1 DEF Emissible
<1> QED
  BY <1>1, <1>3, <1>4 DEF Emission

LEMMA EmissibleFacts ==
  /\ Emissible(Original)
  /\ \A op, defs, args :
       /\ op \notin MutOps
       /\ \A j \in DOMAIN args : Fit(fn.P, fn.dom, phis, out, args[j], <<bb, idx>>)
       => Emissible(Emitted(op, defs, args))
  BY DEF Emissible, Original, Emitted

\* What an emitted instruction defines at its position is in the result.
LEMMA Defines ==
  ASSUME IInv, Built, AtInst, NEW new, Emission(new), Emit(new),
         NEW i \in DOMAIN new, ~new[i].marked, NEW d \in DOMAIN new[i].defs,
         NEW w, w = new[i].defs[d], w.blk = bb, w.idx = idx
  PROVE  InResult(fn.P, phis, out', w)
<1>1. bb \in Blocks(fn.P)
  BY DEF IInv, TypeOK
<1>2. Staying(out'[bb]) = Staying(out[bb]) \cup Staying(new)
  BY <1>1, EmitFacts
<1>3. new[i] \in Staying(out'[bb])
  BY <1>2 DEF Staying
<1>4. new[i].at = <<bb, idx>>
  BY DEF Emission
<1> QED
  BY <1>1, <1>3, <1>4 DEF InResult

\* The operands a visit has resolved.
LEMMA ValsFit ==
  ASSUME IInv, Built, AtInst, NEW j \in DOMAIN vals
  PROVE  Fit(fn.P, fn.dom, phis, out, vals[j], <<bb, idx>>)
<1>1. InResult(fn.P, phis, out, vals[j])
  BY DEF Built
<1>2. Point = <<bb, idx>>
  BY DEF AtInst, Point
<1>3. j \in 1 .. Len(vals)
  BY DEF IInv, TypeOK
<1>4. Reaches(vals[j], <<bb, idx>>)
  BY <1>2, <1>3 DEF IInv, InvVals
<1> QED
  BY <1>1, <1>4 DEF Fit, Reaches

LEMMA StillInResult ==
  ASSUME IInv, Built, AtInst, NEW new, Emission(new), Emit(new),
         NEW v, InResult(fn.P, phis, out, v)
  PROVE  InResult(fn.P, phis, out', v)
<1>1. Grown(fn.P, phis, out, phis, out')
  BY EmitFacts
<1> QED
  BY <1>1, ResultGrows

LEMMA ChainsPushed ==
  /\ ChainsFollow(rd)
  /\ \A f, x, d : ChainsFollow(f) /\ InResult(fn.P, phis, out', d) => ChainsFollow(SetDef(f, x, d))
<1>1. ChainsFollow(rd)
  BY DEF ChainsFollow
<1>2. ASSUME NEW f, NEW x, NEW d, ChainsFollow(f), InResult(fn.P, phis, out', d)
      PROVE  ChainsFollow(SetDef(f, x, d))
  <2>1. \A v \in DOMAIN SetDef(f, x, d) :
          /\ SetDef(f, x, d)[v] = IF v = x THEN d ELSE f[v]
          /\ v # x => v \in DOMAIN f
    BY DEF SetDef
  <2> QED
    BY <1>2, <2>1 DEF ChainsFollow
<1> QED
  BY <1>1, <1>2

\* The instruction has the signature of its operation.
LEMMA SignedHere ==
  ASSUME IInv, Built, AtInst
  PROVE  /\ inst.op \in (MutOps \ {"MutSeqSplit"}) \cup {"AssocHas"} => inst.def = NoName
         /\ inst.op = "AssocHas" => inst.c[1] \notin Splits(fn.P)
<1>1. bb \in Blocks(fn.P) /\ idx \in 1 .. Len(fn.P.code[bb]) /\ inst = fn.P.code[bb][idx]
  BY AtInstFacts
<1> QED
  BY <1>1 DEF Built, Signatures

LEMMA VersionHere ==
  \A w, n : Version(w, n).blk = bb /\ Version(w, n).idx = idx
  BY DEF Version, Val

\* A mutator of the first operand, which pushes one version, and may emit others.
LEMMA PushBuilt ==
  ASSUME IInv, Built, AtInst, inst.def = NoName, 1 \in DOMAIN vals,
         NEW w, NEW new, Emission(new), Emit(new),
         NEW i \in DOMAIN new, ~new[i].marked, new[i].defs = <<Version(w, inst.c[1])>>,
         rd' = SetDef(SetDef(rd, Orig(1), Version(w, inst.c[1])), Version(w, inst.c[1]), vals[1])
  PROVE  Built'
<1> DEFINE y == Version(w, inst.c[1])
<1>1. InResult(fn.P, phis, out', y)
  <2>1. 1 \in DOMAIN new[i].defs /\ y = new[i].defs[1] /\ y.blk = bb /\ y.idx = idx
    BY VersionHere
  <2> HIDE DEF y
  <2> QED
    BY <2>1, Defines
<1>2. InResult(fn.P, phis, out', vals[1])
  <2>1. InResult(fn.P, phis, out, vals[1])
    BY DEF Built
  <2> QED
    BY <2>1, StillInResult
<1> HIDE DEF y
<1>3. ChainsFollow(SetDef(SetDef(rd, Orig(1), y), y, vals[1]))
  BY <1>1, <1>2, ChainsPushed
<1>4. ChainsFollow(rd')
  BY <1>3 DEF y
<1>5. DefFollows(rd')
  BY DEF DefFollows
<1> QED
  BY <1>4, <1>5, EmitBuilt

LEMMA EmptyArgs ==
  \A pt : \A j \in DOMAIN << >> : Fit(fn.P, fn.dom, phis, out, << >>[j], pt)
  OBVIOUS

LEMMA WriteBuilt ==
  ASSUME IInv, Built,
         \/ VisitMutIndexWrite \/ VisitMutAssocWrite \/ VisitMutSeqInsert
         \/ VisitMutSeqRemove \/ VisitMutSeqSwapWithin \/ VisitMutAssocInsert
         \/ VisitMutAssocRemove
  PROVE  Built'
<1>1. PICK op : Ready(WriteOps) /\ NewVersion(op) /\ op \notin MutOps
  BY DEF VisitMutIndexWrite, VisitMutAssocWrite, VisitMutSeqInsert, VisitMutSeqRemove,
         VisitMutSeqSwapWithin, VisitMutAssocInsert, VisitMutAssocRemove, Ready,
         MutOps, WriteOps, PairOps
<1>2. AtInst /\ inst.op \in WriteOps /\ Len(vals) = Len(Resolved(inst))
  BY <1>1 DEF Ready
<1>3. inst.def = NoName
  BY <1>2, SignedHere DEF MutOps, WriteOps
<1>4. 1 \in DOMAIN vals
  <2>1. Resolved(inst) = inst.c /\ Len(inst.c) = 1
    BY <1>2, OneOperand DEF Resolved, WriteOps
  <2> QED
    BY <1>2, <2>1 DEF IInv, TypeOK
<1>5. Fit(fn.P, fn.dom, phis, out, vals[1], <<bb, idx>>)
  BY <1>2, <1>4, ValsFit
<1>6. PICK e : e = Emitted(op, <<Version("ssa", inst.c[1])>>, <<vals[1]>>)
  OBVIOUS
<1>7. PICK new : new = <<e, Original>>
  OBVIOUS
<1>8. Emit(new)
  BY <1>1, <1>6, <1>7 DEF NewVersion
<1>9. Emission(new)
  <2>1. Emissible(e)
    <3>1. \A j \in DOMAIN <<vals[1]>> : Fit(fn.P, fn.dom, phis, out, <<vals[1]>>[j], <<bb, idx>>)
      BY <1>5
    <3> QED
      BY <1>1, <1>6, <3>1, EmissibleFacts
  <2>2. new \in Seq({e, Original})
    BY <1>7
  <2>3. \A x \in {e, Original} : Emissible(x)
    BY <2>1, EmissibleFacts
  <2> QED
    BY <2>2, <2>3, EmissionOf
<1>10. /\ 1 \in DOMAIN new /\ ~new[1].marked /\ new[1].defs = <<Version("ssa", inst.c[1])>>
  BY <1>6, <1>7 DEF Emitted
<1>11. rd' = SetDef(SetDef(rd, Orig(1), Version("ssa", inst.c[1])), Version("ssa", inst.c[1]), vals[1])
  BY <1>1 DEF NewVersion
<1> QED
  BY <1>2, <1>3, <1>4, <1>8, <1>9, <1>10, <1>11, PushBuilt

\* Two operands that were resolved.
LEMMA PairFits ==
  ASSUME IInv, Built, Ready(PairOps)
  PROVE  /\ AtInst /\ inst.def = NoName /\ 1 \in DOMAIN vals /\ 2 \in DOMAIN vals
         /\ \A j \in DOMAIN <<vals[1], vals[2]>> :
              Fit(fn.P, fn.dom, phis, out, <<vals[1], vals[2]>>[j], <<bb, idx>>)
<1>1. AtInst /\ Len(vals) = 2
  BY PairFacts
<1>2. inst.op \in PairOps
  BY DEF Ready
<1>3. inst.def = NoName
  BY <1>1, <1>2, SignedHere DEF MutOps, PairOps
<1>4. 1 \in DOMAIN vals /\ 2 \in DOMAIN vals
  BY <1>1 DEF IInv, TypeOK
<1>5. /\ Fit(fn.P, fn.dom, phis, out, vals[1], <<bb, idx>>)
      /\ Fit(fn.P, fn.dom, phis, out, vals[2], <<bb, idx>>)
  BY <1>1, <1>4, ValsFit
<1> QED
  BY <1>1, <1>3, <1>4, <1>5

LEMMA InsertSeqBuilt ==
  ASSUME IInv, Built, VisitMutSeqInsertSeq
  PROVE  Built'
<1>1. Ready(PairOps)
  BY DEF VisitMutSeqInsertSeq, Ready, PairOps
<1>2. /\ AtInst /\ inst.def = NoName /\ 1 \in DOMAIN vals
      /\ \A j \in DOMAIN <<vals[1], vals[2]>> :
              Fit(fn.P, fn.dom, phis, out, <<vals[1], vals[2]>>[j], <<bb, idx>>)
  BY <1>1, PairFits
<1>3. PICK e : e = Emitted("SeqInsertSeq", <<Version("ssa", inst.c[1])>>, <<vals[1], vals[2]>>)
  OBVIOUS
<1>4. PICK new : new = <<e, Original>>
  OBVIOUS
<1>5. Emit(new)
  BY <1>3, <1>4 DEF VisitMutSeqInsertSeq
<1>6. Emission(new)
  <2>1. Emissible(e)
    <3>1. "SeqInsertSeq" \notin MutOps
      BY DEF MutOps, WriteOps, PairOps
    <3> QED
      BY <1>2, <1>3, <3>1, EmissibleFacts
  <2>2. new \in Seq({e, Original})
    BY <1>4
  <2>3. \A x \in {e, Original} : Emissible(x)
    BY <2>1, EmissibleFacts
  <2> QED
    BY <2>2, <2>3, EmissionOf
<1>7. /\ 1 \in DOMAIN new /\ ~new[1].marked /\ new[1].defs = <<Version("ssa", inst.c[1])>>
  BY <1>3, <1>4 DEF Emitted
<1>8. rd' = SetDef(SetDef(rd, Orig(1), Version("ssa", inst.c[1])), Version("ssa", inst.c[1]), vals[1])
  BY DEF VisitMutSeqInsertSeq
<1> QED
  BY <1>2, <1>5, <1>6, <1>7, <1>8, PushBuilt

LEMMA AppendBuilt ==
  ASSUME IInv, Built, VisitMutSeqAppend
  PROVE  Built'
<1>1. Ready(PairOps)
  BY DEF VisitMutSeqAppend, Ready, PairOps
<1>2. /\ AtInst /\ inst.def = NoName /\ 1 \in DOMAIN vals
      /\ \A j \in DOMAIN <<vals[1], vals[2]>> :
              Fit(fn.P, fn.dom, phis, out, <<vals[1], vals[2]>>[j], <<bb, idx>>)
  BY <1>1, PairFits
<1>3. PICK e : e = Emitted("SeqInsertSeq", <<Version("ssa", inst.c[1])>>, <<vals[1], vals[2]>>)
  OBVIOUS
<1>4. PICK end : end = Emitted("End", << >>, << >>)
  OBVIOUS
<1>5. PICK new : new = <<end, e, Original>>
  OBVIOUS
<1>6. Emit(new)
  BY <1>3, <1>4, <1>5 DEF VisitMutSeqAppend
<1>7. Emission(new)
  <2>1. Emissible(e)
    <3>1. "SeqInsertSeq" \notin MutOps
      BY DEF MutOps, WriteOps, PairOps
    <3> QED
      BY <1>2, <1>3, <3>1, EmissibleFacts
  <2>2. Emissible(end)
    <3>1. "End" \notin MutOps
      BY DEF MutOps, WriteOps, PairOps
    <3> QED
      BY <1>4, <3>1, EmptyArgs, EmissibleFacts
  <2>3. new \in Seq({end, e, Original})
    BY <1>5
  <2>4. \A x \in {end, e, Original} : Emissible(x)
    BY <2>1, <2>2, EmissibleFacts
  <2> QED
    BY <2>3, <2>4, EmissionOf
<1>8. /\ 2 \in DOMAIN new /\ ~new[2].marked /\ new[2].defs = <<Version("ssa", inst.c[1])>>
  BY <1>3, <1>5 DEF Emitted
<1>9. rd' = SetDef(SetDef(rd, Orig(1), Version("ssa", inst.c[1])), Version("ssa", inst.c[1]), vals[1])
  BY DEF VisitMutSeqAppend
<1> QED
  BY <1>2, <1>6, <1>7, <1>8, <1>9, PushBuilt

LEMMA SwapBuilt ==
  ASSUME IInv, Built, VisitMutSeqSwap
  PROVE  Built'
<1> DEFINE from == Version("ssa", inst.c[1])
           to   == Version("ssa", inst.c[2])
<1>1. Ready(PairOps)
  BY DEF VisitMutSeqSwap, Ready, PairOps
<1>2. /\ AtInst /\ inst.def = NoName /\ 1 \in DOMAIN vals /\ 2 \in DOMAIN vals
      /\ \A j \in DOMAIN <<vals[1], vals[2]>> :
              Fit(fn.P, fn.dom, phis, out, <<vals[1], vals[2]>>[j], <<bb, idx>>)
  BY <1>1, PairFits
<1>3. from.blk = bb /\ from.idx = idx /\ to.blk = bb /\ to.idx = idx
  BY VersionHere
<1>4. rd' = SetDef(SetDef(SetDef(SetDef(rd, Orig(1), from), from, vals[1]), Orig(2), to), to, vals[2])
  BY DEF VisitMutSeqSwap
<1>5. PICK e : e = Emitted("SeqSwap", <<from, to>>, <<vals[1], vals[2]>>)
  OBVIOUS
<1>6. PICK new : new = <<e, Original>>
  OBVIOUS
<1>7. Emit(new)
  BY <1>5, <1>6 DEF VisitMutSeqSwap
<1> HIDE DEF from, to
<1>8. Emission(new)
  <2>1. Emissible(e)
    <3>1. "SeqSwap" \notin MutOps
      BY DEF MutOps, WriteOps, PairOps
    <3> QED
      BY <1>2, <1>5, <3>1, EmissibleFacts
  <2>2. new \in Seq({e, Original})
    BY <1>6
  <2>3. \A x \in {e, Original} : Emissible(x)
    BY <2>1, EmissibleFacts
  <2> QED
    BY <2>2, <2>3, EmissionOf
<1>9. /\ 1 \in DOMAIN new /\ ~new[1].marked /\ 1 \in DOMAIN new[1].defs /\ 2 \in DOMAIN new[1].defs
      /\ new[1].defs[1] = from /\ new[1].defs[2] = to
  BY <1>5, <1>6 DEF Emitted
<1>10. InResult(fn.P, phis, out', from) /\ InResult(fn.P, phis, out', to)
  BY <1>2, <1>3, <1>7, <1>8, <1>9, Defines
<1>11. InResult(fn.P, phis, out', vals[1]) /\ InResult(fn.P, phis, out', vals[2])
  <2>1. InResult(fn.P, phis, out, vals[1]) /\ InResult(fn.P, phis, out, vals[2])
    BY <1>2 DEF Built
  <2> QED
    BY <1>2, <1>7, <1>8, <2>1, StillInResult
<1>12. ChainsFollow(SetDef(SetDef(SetDef(SetDef(rd, Orig(1), from), from, vals[1]), Orig(2), to), to, vals[2]))
  BY <1>10, <1>11, ChainsPushed
<1>13. DefFollows(rd')
  BY <1>2 DEF DefFollows
<1> QED
  BY <1>2, <1>4, <1>7, <1>8, <1>12, <1>13, EmitBuilt

LEMMA SplitBuilt ==
  ASSUME IInv, Built, VisitMutSeqSplit
  PROVE  Built'
<1> DEFINE copy == Version("copy", inst.def)
           rest == Version("ssa", inst.c[1])
           s    == Src(fn.P, inst.def)
<1>1. AtInst /\ Len(vals) = Len(Resolved(inst)) /\ inst.op = "MutSeqSplit"
  BY DEF VisitMutSeqSplit, Ready
<1>2. /\ bb \in Blocks(fn.P) /\ idx \in 1 .. Len(fn.P.code[bb])
      /\ inst = fn.P.code[bb][idx]
      /\ inst \in [op : STRING, def : Names(fn.P) \cup {NoName}, c : Seq(Names(fn.P))]
  BY <1>1, AtInstFacts
<1>3. Resolved(inst) = inst.c /\ Len(inst.c) = 1 /\ inst.def # NoName
  <2>1. Len(inst.c) = 1 /\ inst.def # NoName
    BY <1>1, <1>2, FnFacts DEF WellFormed, WellTyped
  <2> QED
    BY <1>1, <2>1 DEF Resolved
<1>4. inst.def \in Names(fn.P) /\ inst.def \in Splits(fn.P)
  BY <1>1, <1>2, <1>3 DEF Splits
<1>5. 1 \in DOMAIN vals
  BY <1>1, <1>3 DEF IInv, TypeOK
<1>6. \A j \in DOMAIN <<vals[1]>> : Fit(fn.P, fn.dom, phis, out, <<vals[1]>>[j], <<bb, idx>>)
  <2>1. Fit(fn.P, fn.dom, phis, out, vals[1], <<bb, idx>>)
    BY <1>1, <1>5, ValsFit
  <2> QED
    BY <2>1
<1>7. copy.blk = bb /\ copy.idx = idx /\ rest.blk = bb /\ rest.idx = idx
  BY VersionHere
<1>8. copy # s /\ vals[1] # s /\ rest # s /\ Orig(1) # s
  <2>1. s.kind = "src" /\ s.web = inst.def /\ s.blk = bb /\ s.idx = idx
    <3>1. DefPos(fn.P, inst.def) = <<bb, idx>>
      BY <1>2, <1>3, FnFacts DEF WellFormed, SingleDefs
    <3> QED
      BY <1>4, <3>1, FnFacts, SrcFields
  <2>2. copy.kind = "copy" /\ rest.kind = "ssa"
    BY DEF Version, Val
  <2>3. bb # 0
    BY <1>2 DEF Blocks
  <2>4. \A v : v.blk = bb /\ v.idx = idx /\ idx \in Nat => ~Dominates(fn.dom, v, <<bb, idx>>)
    BY DEF Dominates
  <2>5. ~Dominates(fn.dom, s, <<bb, idx>>) /\ ~IsArgument(s)
    <3>1. idx \in Nat
      BY DEF IInv, TypeOK
    <3>2. ~Dominates(fn.dom, s, <<bb, idx>>)
      BY <2>1, <2>4, <3>1
    <3>3. ~IsArgument(s)
      BY <2>1, <2>3 DEF IsArgument
    <3> QED
      BY <3>2, <3>3
  <2>6. vals[1] # s
    BY <1>6, <2>5 DEF Fit
  <2>7. IsArgument(Orig(1)) \/ Dominates(fn.dom, Orig(1), <<bb, idx>>)
    <3>1. 1 \in 1 .. Len(inst.c)
      BY <1>3
    <3>2. StrictUse(fn.P, fn.dom, inst.c[1], <<bb, idx>>)
      BY <1>2, <3>1, FnFacts DEF WellFormed, Strict
    <3> QED
      BY <3>2 DEF StrictUse, Orig
  <2>8. Orig(1) # s
    BY <2>5, <2>7
  <2> QED
    BY <2>1, <2>2, <2>6, <2>8
<1>9. rd' = SetDef(SetDef(SetDef(rd, s, copy), Orig(1), rest), rest, vals[1])
  BY DEF VisitMutSeqSplit
<1>10. PICK e1, e2 : /\ e1 = Emitted("SeqCopy", <<copy>>, <<vals[1]>>)
                     /\ e2 = Emitted("SeqRemove", <<rest>>, <<vals[1]>>)
  OBVIOUS
<1>11. PICK new : new = <<e1, e2, Original>>
  OBVIOUS
<1>12. Emit(new)
  BY <1>10, <1>11 DEF VisitMutSeqSplit
<1> HIDE DEF copy, rest, s
<1>13. Emission(new)
  <2>1. Emissible(e1) /\ Emissible(e2)
    <3>1. "SeqCopy" \notin MutOps /\ "SeqRemove" \notin MutOps
      BY DEF MutOps, WriteOps, PairOps
    <3> QED
      BY <1>6, <1>10, <3>1, EmissibleFacts
  <2>2. new \in Seq({e1, e2, Original})
    BY <1>11
  <2>3. \A x \in {e1, e2, Original} : Emissible(x)
    BY <2>1, EmissibleFacts
  <2> QED
    BY <2>2, <2>3, EmissionOf
<1>14. /\ 1 \in DOMAIN new /\ ~new[1].marked /\ 1 \in DOMAIN new[1].defs /\ new[1].defs[1] = copy
       /\ 2 \in DOMAIN new /\ ~new[2].marked /\ 1 \in DOMAIN new[2].defs /\ new[2].defs[1] = rest
  BY <1>10, <1>11 DEF Emitted
<1>15. InResult(fn.P, phis, out', copy) /\ InResult(fn.P, phis, out', rest)
  BY <1>1, <1>7, <1>12, <1>13, <1>14, Defines
<1>16. InResult(fn.P, phis, out', vals[1])
  <2>1. InResult(fn.P, phis, out, vals[1])
    BY <1>5 DEF Built
  <2> QED
    BY <1>1, <1>12, <1>13, <2>1, StillInResult
<1>17. ChainsFollow(SetDef(SetDef(SetDef(rd, s, copy), Orig(1), rest), rest, vals[1]))
  BY <1>15, <1>16, ChainsPushed
<1>18. rd'[s] = copy
  BY <1>8, <1>9 DEF SetDef
<1>19. DefFollows(rd')
  BY <1>4, <1>8, <1>18 DEF DefFollows, s
<1> QED
  BY <1>1, <1>9, <1>12, <1>13, <1>17, <1>19, EmitBuilt

\* What the instruction defines, once a visit has emitted it.
LEMMA ResultDefined ==
  ASSUME IInv, Built, AtInst, NEW new, Emission(new), Emit(new),
         NEW i \in DOMAIN new, ~new[i].marked, new[i].defs = Result, inst.def # NoName
  PROVE  InResult(fn.P, phis, out', Src(fn.P, inst.def))
<1> DEFINE s == Src(fn.P, inst.def)
<1>1. /\ bb \in Blocks(fn.P) /\ idx \in 1 .. Len(fn.P.code[bb]) /\ inst = fn.P.code[bb][idx]
      /\ inst.def \in Names(fn.P)
  BY AtInstFacts
<1>2. s.blk = bb /\ s.idx = idx
  <2>1. DefPos(fn.P, inst.def) = <<bb, idx>>
    BY <1>1, FnFacts DEF WellFormed, SingleDefs
  <2> QED
    BY <1>1, <2>1, FnFacts, SrcFields
<1>3. 1 \in DOMAIN new[i].defs /\ s = new[i].defs[1]
  BY DEF Result
<1> HIDE DEF s
<1>4. InResult(fn.P, phis, out', s)
  BY <1>2, <1>3, Defines
<1> QED
  BY <1>4 DEF s

LEMMA ResultFollows ==
  ASSUME IInv, Built, AtInst, NEW new, Emission(new), Emit(new),
         NEW i \in DOMAIN new, ~new[i].marked, new[i].defs = Result
  PROVE  DefFollows(rd')
  BY ResultDefined DEF DefFollows

\* An instruction that is emitted with its operands resolved.
LEMMA ResolvedFits ==
  ASSUME IInv, Built, AtInst
  PROVE  \A op, defs : op \notin MutOps => Emissible(Emitted(op, defs, vals))
  BY ValsFit, EmissibleFacts

LEMMA ReadBuilt ==
  ASSUME IInv, Built, VisitRead
  PROVE  Built'
<1> DEFINE use == Version("use", inst.c[1])
<1>1. AtInst /\ Len(vals) = Len(Resolved(inst)) /\ inst.op \in ReadOps
  BY DEF VisitRead, Ready
<1>2. 1 \in DOMAIN vals
  <2>1. Resolved(inst) = inst.c /\ Len(inst.c) = 1
    BY <1>1, OneOperand DEF Resolved, ReadOps
  <2> QED
    BY <1>1, <2>1 DEF IInv, TypeOK
<1>3. inst.op \notin MutOps /\ "UsePHI" \notin MutOps
  BY <1>1 DEF MutOps, WriteOps, PairOps, ReadOps
<1>4. PICK e : e = Emitted(inst.op, Result, vals)
  OBVIOUS
<1>5. PICK e2 : e2 = Emitted("UsePHI", <<use>>, vals)
  OBVIOUS
<1>6. Emissible(e) /\ Emissible(e2)
  BY <1>1, <1>3, <1>4, <1>5, ResolvedFits
<1>7. ~e.marked /\ e.defs = Result /\ ~e2.marked /\ e2.defs = <<use>>
  BY <1>4, <1>5 DEF Emitted
<1>8. CASE UsePHIs
  <2>1. PICK new : new = <<e, e2>>
    OBVIOUS
  <2>2. Emit(new) /\ rd' = SetDef(SetDef(rd, Orig(1), use), use, vals[1])
    BY <1>4, <1>5, <1>8, <2>1 DEF VisitRead
  <2>3. Emission(new)
    <3>1. new \in Seq({e, e2})
      BY <2>1
    <3> QED
      BY <1>6, <3>1, EmissionOf
  <2>4. /\ 1 \in DOMAIN new /\ ~new[1].marked /\ new[1].defs = Result
        /\ 2 \in DOMAIN new /\ ~new[2].marked /\ 1 \in DOMAIN new[2].defs /\ new[2].defs[1] = use
    BY <1>7, <2>1
  <2>5. DefFollows(rd')
    BY <1>1, <2>2, <2>3, <2>4, ResultFollows
  <2>6. use.blk = bb /\ use.idx = idx
    BY VersionHere
  <2> HIDE DEF use
  <2>7. InResult(fn.P, phis, out', use)
    BY <1>1, <2>2, <2>3, <2>4, <2>6, Defines
  <2>8. InResult(fn.P, phis, out', vals[1])
    <3>1. InResult(fn.P, phis, out, vals[1])
      BY <1>2 DEF Built
    <3> QED
      BY <1>1, <2>2, <2>3, <3>1, StillInResult
  <2>9. ChainsFollow(SetDef(SetDef(rd, Orig(1), use), use, vals[1]))
    BY <2>7, <2>8, ChainsPushed
  <2>10. ChainsFollow(rd')
    BY <2>2, <2>9
  <2> QED
    BY <1>1, <2>2, <2>3, <2>5, <2>10, EmitBuilt
<1>9. CASE ~UsePHIs
  <2>1. PICK new : new = <<e>>
    OBVIOUS
  <2>2. Emit(new) /\ rd' = rd
    BY <1>4, <1>9, <2>1 DEF VisitRead
  <2>3. Emission(new)
    <3>1. new \in Seq({e})
      BY <2>1
    <3> QED
      BY <1>6, <3>1, EmissionOf
  <2>4. 1 \in DOMAIN new /\ ~new[1].marked /\ new[1].defs = Result
    BY <1>7, <2>1
  <2>5. DefFollows(rd')
    BY <1>1, <2>2, <2>3, <2>4, ResultFollows
  <2>6. ChainsFollow(rd')
    BY <2>2, ChainsPushed
  <2> QED
    BY <1>1, <2>2, <2>3, <2>5, <2>6, EmitBuilt
<1> QED
  BY <1>8, <1>9

LEMMA InstructionBuilt ==
  ASSUME IInv, Built, VisitInstruction
  PROVE  Built'
<1>1. AtInst /\ inst.op \notin MutOps
  BY DEF VisitInstruction
<1>2. PICK e : e = Emitted(inst.op, Result, vals)
  OBVIOUS
<1>3. PICK new : new = <<e>>
  OBVIOUS
<1>4. /\ Emit(new)
      /\ inst.def = NoName => rd' = rd
      /\ inst.def # NoName => rd' = SetDef(rd, Src(fn.P, inst.def), Src(fn.P, inst.def))
  BY <1>2, <1>3 DEF VisitInstruction, Result
<1>5. Emissible(e) /\ ~e.marked /\ e.defs = Result
  <2>1. Emissible(e)
    BY <1>1, <1>2, ResolvedFits
  <2> QED
    BY <1>2, <2>1 DEF Emitted
<1>6. Emission(new)
  <2>1. new \in Seq({e})
    BY <1>3
  <2> QED
    BY <1>5, <2>1, EmissionOf
<1>7. 1 \in DOMAIN new /\ ~new[1].marked /\ new[1].defs = Result
  BY <1>3, <1>5
<1>8. DefFollows(rd')
  BY <1>1, <1>4, <1>6, <1>7, ResultFollows
<1>9. ChainsFollow(rd')
  <2>1. CASE inst.def = NoName
    BY <1>4, <2>1, ChainsPushed
  <2>2. CASE inst.def # NoName
    <3>1. PICK s : s = Src(fn.P, inst.def)
      OBVIOUS
    <3>2. InResult(fn.P, phis, out', s)
      BY <1>1, <1>4, <1>6, <1>7, <2>2, <3>1, ResultDefined
    <3>3. ChainsFollow(SetDef(rd, s, s))
      BY <3>2, ChainsPushed
    <3> QED
      BY <1>4, <2>2, <3>1, <3>3
  <2> QED
    BY <2>1, <2>2
<1> QED
  BY <1>1, <1>4, <1>6, <1>8, <1>9, EmitBuilt

LEMMA StructWriteBuilt ==
  ASSUME IInv, Built, VisitMutStructWrite
  PROVE  Built'
<1>1. AtInst /\ inst.op = "MutStructWrite"
  BY DEF VisitMutStructWrite, Ready
<1>2. inst.def = NoName
  BY <1>1, SignedHere DEF MutOps
<1>3. PICK e : e = Emitted("StructWrite", << >>, << >>)
  OBVIOUS
<1>4. PICK new : new = <<e, Original>>
  OBVIOUS
<1>5. Emit(new) /\ rd' = rd
  BY <1>3, <1>4 DEF VisitMutStructWrite
<1>6. Emissible(e) /\ Emissible(Original)
  <2>1. "StructWrite" \notin MutOps
    BY DEF MutOps, WriteOps, PairOps
  <2>2. \A j \in DOMAIN << >> : Fit(fn.P, fn.dom, phis, out, << >>[j], <<bb, idx>>)
    BY EmptyArgs
  <2> QED
    BY <1>3, <2>1, <2>2, EmissibleFacts
<1>7. Emission(new)
  <2>1. new \in Seq({e, Original})
    BY <1>4
  <2> QED
    BY <1>6, <2>1, EmissionOf
<1>8. DefFollows(rd')
  BY <1>2 DEF DefFollows
<1>9. ChainsFollow(rd')
  BY <1>5, ChainsPushed
<1> QED
  BY <1>1, <1>5, <1>7, <1>8, <1>9, EmitBuilt

\* What has() asks is in the result, whether or not its operand is resolved.
LEMMA AskedFits ==
  ASSUME IInv, Built, AtInst, inst.op = "AssocHas"
  PROVE  Fit(fn.P, fn.dom, phis, out, Orig(1), <<bb, idx>>)
<1>1. /\ bb \in Blocks(fn.P) /\ idx \in 1 .. Len(fn.P.code[bb]) /\ inst = fn.P.code[bb][idx]
      /\ WellFormed(fn.P) /\ fn.dom = Dominators(fn.P)
  BY AtInstFacts, FnFacts
<1>2. Len(inst.c) = 1
  BY <1>1 DEF WellFormed, WellTyped
<1>3. StrictUse(fn.P, fn.dom, inst.c[1], <<bb, idx>>)
  BY <1>1, <1>2 DEF WellFormed, Strict
<1>4. /\ inst.c[1] \in Names(fn.P)
      /\ IsArgument(Orig(1)) \/ Dominates(fn.dom, Orig(1), <<bb, idx>>)
  BY <1>3 DEF StrictUse, Orig
<1>5. Reaches(Orig(1), Point)
  <2>1. Point = <<bb, idx>>
    BY DEF AtInst, Point
  <2> QED
    BY <1>4, <2>1 DEF Reaches
<1>6. ~Ahead(fn.P, VisitedTo, Orig(1))
  BY <1>5, NotAhead DEF Built, AtInst
<1>7. inst.c[1] \notin Splits(fn.P) /\ stage # "names"
  BY SignedHere DEF AtInst
<1>8. InResult(fn.P, phis, out, Orig(1))
  <2>1. NamesFit(fn.P, phis, out, VisitedTo, Splits(fn.P))
    BY <1>7 DEF Built
  <2> QED
    BY <1>4, <1>6, <1>7, <2>1 DEF NamesFit, Orig
<1> QED
  BY <1>4, <1>8 DEF Fit

LEMMA HasBuilt ==
  ASSUME IInv, Built, VisitAssocHas
  PROVE  Built'
<1>1. AtInst /\ Len(vals) = Len(Resolved(inst)) /\ inst.op = "AssocHas"
  BY DEF VisitAssocHas, Ready
<1>2. inst.def = NoName
  BY <1>1, SignedHere
<1>3. "AssocHas" \notin MutOps /\ "UsePHI" \notin MutOps
  BY DEF MutOps, WriteOps, PairOps
<1>4. DefFollows(rd')
  BY <1>2 DEF DefFollows
<1>5. CASE UsePHIs
  <2>1. 1 \in DOMAIN vals
    <3>1. /\ bb \in Blocks(fn.P) /\ idx \in 1 .. Len(fn.P.code[bb])
          /\ inst = fn.P.code[bb][idx] /\ WellTyped(fn.P)
      BY <1>1, AtInstFacts, FnFacts DEF WellFormed
    <3>2. Len(inst.c) = 1
      BY <1>1, <3>1 DEF WellTyped
    <3>3. Resolved(inst) = inst.c
      BY <1>5 DEF Resolved
    <3> QED
      BY <1>1, <3>2, <3>3 DEF IInv, TypeOK
  <2>2. PICK e : e = Emitted("AssocHas", << >>, vals)
    OBVIOUS
  <2>3. PICK e2 : e2 = Emitted("UsePHI", <<Version("use", inst.c[1])>>, vals)
    OBVIOUS
  <2>4. PICK new : new = <<e, e2>>
    OBVIOUS
  <2>5. Emit(new) /\ rd' = SetDef(SetDef(rd, Orig(1), vals[1]), vals[1], vals[1])
    BY <1>5, <2>2, <2>3, <2>4 DEF VisitAssocHas
  <2>6. Emissible(e) /\ Emissible(e2)
    BY <1>1, <1>3, <2>2, <2>3, ResolvedFits
  <2>7. Emission(new)
    <3>1. new \in Seq({e, e2})
      BY <2>4
    <3> QED
      BY <2>6, <3>1, EmissionOf
  <2>8. InResult(fn.P, phis, out', vals[1])
    <3>1. InResult(fn.P, phis, out, vals[1])
      BY <2>1 DEF Built
    <3> QED
      BY <1>1, <2>5, <2>7, <3>1, StillInResult
  <2>9. ChainsFollow(SetDef(SetDef(rd, Orig(1), vals[1]), vals[1], vals[1]))
    BY <2>8, ChainsPushed
  <2>10. ChainsFollow(rd')
    BY <2>5, <2>9
  <2> QED
    BY <1>1, <1>4, <2>5, <2>7, <2>10, EmitBuilt
<1>6. CASE ~UsePHIs
  <2>1. PICK e : e = Emitted("AssocHas", << >>, <<Orig(1)>>)
    OBVIOUS
  <2>2. PICK new : new = <<e>>
    OBVIOUS
  <2>3. Emit(new) /\ rd' = rd
    BY <1>6, <2>1, <2>2 DEF VisitAssocHas
  <2>4. Emissible(e)
    <3>1. PICK o : o = Orig(1)
      OBVIOUS
    <3>2. Fit(fn.P, fn.dom, phis, out, o, <<bb, idx>>)
      BY <1>1, <3>1, AskedFits
    <3>3. \A j \in DOMAIN <<o>> : Fit(fn.P, fn.dom, phis, out, <<o>>[j], <<bb, idx>>)
      BY <3>2
    <3>4. Emissible(Emitted("AssocHas", << >>, <<o>>))
      BY <1>3, <3>3, EmissibleFacts
    <3> QED
      BY <2>1, <3>1, <3>4
  <2>5. Emission(new)
    <3>1. new \in Seq({e})
      BY <2>2
    <3> QED
      BY <2>4, <3>1, EmissionOf
  <2>6. ChainsFollow(rd')
    BY <2>3, ChainsPushed
  <2> QED
    BY <1>1, <1>4, <2>3, <2>5, <2>6, EmitBuilt
<1> QED
  BY <1>5, <1>6

-----------------------------------------------------------------------------
(* The result verifies. *)

\* Nothing is visited yet: names are PHIs and arguments of the source, or ahead.
LEMMA InitBuilt == ASSUME SignaturesHold, Init PROVE Built
<1>1. PICK P \in Programs : fn = Analyzed(P)
  BY DEF Init
<1>2. /\ fn.P = P /\ fn.dom = Dominators(P) /\ WellFormed(P) /\ Signatures(P)
      /\ stage = "names" /\ bb = 1 /\ seen = {1} /\ DOMAIN rd = {} /\ DOMAIN vals = {}
      /\ phis = [b \in Blocks(P) |-> {SourcePHI(P, q) : q \in P.phis[b]}]
      /\ out = [b \in Blocks(P) |-> << >>]
  BY <1>1, ProgramsAssumption DEF Init, Analyzed, SignaturesHold
<1>3. \A b \in Blocks(P) : VisitedTo[b] = 1
  BY <1>2 DEF VisitedTo
<1>4. ASSUME NEW b \in Blocks(P), NEW q \in P.phis[b]
      PROVE  /\ q.def \in Names(P) /\ Src(P, q.def).blk = b /\ Src(P, q.def).idx = 0
  <2>1. q.def \in Names(P) /\ DefPos(P, q.def) = <<b, 0>>
    BY <1>2 DEF WellFormed, SingleDefs, Names, InPHIs
  <2> QED
    BY <1>2, <2>1, SrcFields
<1>5. PHIsFirst(P, phis)
  <2> SUFFICES ASSUME NEW b \in Blocks(P), NEW q \in phis[b]
               PROVE  q.def.blk = b /\ q.def.idx = 0
    BY DEF PHIsFirst
  <2>1. PICK r \in P.phis[b] : q = SourcePHI(P, r)
    BY <1>2
  <2>2. q.def = Src(P, r.def)
    BY <2>1 DEF SourcePHI
  <2> QED
    BY <1>4, <2>2
<1>6. ASSUME NEW n \in Names(P)
      PROVE  InResult(P, phis, out, Src(P, n)) \/ Ahead(P, VisitedTo, Src(P, n))
  <2>1. PICK v : v = Src(P, n)
    OBVIOUS
  <2>2. /\ v.web = n
        /\ \/ n \in P.args /\ v.blk = 0
           \/ /\ v.blk \in Blocks(P) /\ v.idx = 0
              /\ \E q \in P.phis[v.blk] : q.def = n
           \/ /\ v.blk \in Blocks(P) /\ v.idx \in 1 .. Len(P.code[v.blk])
              /\ P.code[v.blk][v.idx].def = n
    BY <1>2, <2>1, SourceIs
  <2>3. CASE n \in P.args
    BY <2>1, <2>3 DEF InResult
  <2>4. CASE v.blk \in Blocks(P) /\ v.idx = 0 /\ \E q \in P.phis[v.blk] : q.def = n
    <3>1. PICK q \in P.phis[v.blk] : q.def = n
      BY <2>4
    <3>2. SourcePHI(P, q) \in phis[v.blk] /\ SourcePHI(P, q).def = v
      BY <1>2, <2>1, <2>4, <3>1 DEF SourcePHI
    <3> QED
      BY <2>1, <2>4, <3>2 DEF InResult
  <2>5. CASE v.blk \in Blocks(P) /\ v.idx \in 1 .. Len(P.code[v.blk])
    <3>1. v.idx >= 1 /\ VisitedTo[v.blk] = 1
      BY <1>3, <2>5
    <3> QED
      BY <2>1, <2>2, <2>5, <3>1 DEF Ahead
  <2> QED
    BY <2>2, <2>3, <2>4, <2>5
<1>7. CodeInOrder(P, out, VisitedTo)
  <2>1. \A b \in Blocks(P) : out[b] \in Seq(Entries(out[b])) /\ DOMAIN out[b] = {}
    BY <1>2, EmptySeqType
  <2> QED
    BY <2>1 DEF CodeInOrder, Sorted
<1>8. OperandsFit(P, fn.dom, phis, out)
  <2>1. \A b \in Blocks(P) : Staying(out[b]) = {}
    BY <1>2 DEF Staying
  <2> QED
    BY <2>1 DEF OperandsFit
<1>9. IncomingFit
  BY <1>2 DEF IncomingFit, Pending, Unfilled
<1>10. Traversal
  <2>1. fn.dom[1] \subseteq {1}
    <3>1. 1 \in Blocks(P)
      BY <1>2 DEF WellFormed, WellShaped, Blocks
    <3>2. \A a : a # 1 => 1 \in ReachAvoiding(P, a)
      BY <3>1 DEF ReachAvoiding, ClosedFrom
    <3> QED
      BY <1>2, <3>1, <3>2 DEF Dominators
  <2> QED
    BY <1>2, <2>1 DEF Traversal
<1>11. ChainsFit(P, phis, out, VisitedTo, rd) /\ NamesFit(P, phis, out, VisitedTo, {})
  BY <1>2, <1>6 DEF ChainsFit, NamesFit
<1> QED
  BY <1>2, <1>5, <1>7, <1>8, <1>9, <1>10, <1>11 DEF Built

\* Every step of the pass preserves Built.
LEMMA NextBuilt == IInv /\ Built /\ [Next]_vars => Built'
<1> SUFFICES ASSUME IInv, Built, [Next]_vars PROVE Built'
  OBVIOUS
<1>1. CASE \E n \in names_left : StartName(n)
  BY <1>1, StartNameBuilt
<1>2. CASE \E b \in worklist : InsertPHIs(b)
  BY <1>2, InsertPHIsBuilt
<1>3. CASE BeginRename
  BY <1>3, BeginRenameBuilt
<1>4. CASE FollowChain \/ EndChain
  BY <1>4, FollowChainBuilt, EndChainBuilt
<1>5. CASE PHIStep
  BY <1>5, VisitSourcePHIBuilt, SeekPHIBuilt, VisitInsertedPHIBuilt, EndPHIsBuilt DEF PHIStep
<1>6. CASE SeekOperand
  BY <1>6, SeekOperandBuilt
<1>7. CASE VisitSequence
  BY <1>7, WriteBuilt, InsertSeqBuilt, AppendBuilt, SwapBuilt, SplitBuilt DEF VisitSequence
<1>8. CASE VisitAssoc
  BY <1>8, WriteBuilt, HasBuilt DEF VisitAssoc
<1>9. CASE VisitAccess
  BY <1>9, WriteBuilt, StructWriteBuilt, ReadBuilt DEF VisitAccess
<1>10. CASE VisitInstruction
  BY <1>10, InstructionBuilt
<1>11. CASE EndInstructions
  BY <1>11, EndInstructionsBuilt
<1>12. CASE EdgeStep
  BY <1>12, SeekIncomingBuilt, SetIncomingBuilt, NextBlockBuilt, EndTraversalBuilt DEF EdgeStep
<1>13. CASE Cleanup
  BY <1>13, CleanupBuilt
<1>14. CASE Terminating \/ UNCHANGED vars
  BY <1>14, FollowChainBuilt DEF Terminating
<1> QED
  BY <1>1, <1>2, <1>3, <1>4, <1>5, <1>6, <1>7, <1>8, <1>9, <1>10, <1>11, <1>12,
     <1>13, <1>14 DEF Next, Pass

\* What fits a point of b is defined before the i-th instruction of the result there.
LEMMA FitIsDefined ==
  ASSUME Built, NEW b \in Blocks(fn.P), NEW i, NEW k,
         \A j \in DOMAIN out[b] : out[b][j].at[2] < k => j \in 1 .. i - 1,
         NEW v, Fit(fn.P, fn.dom, phis, out, v, <<b, k>>)
  PROVE  v \in DefinedBefore(b, i) \cup AtEntry(b)
<1>1. \A c \in Blocks(fn.P) : DOMAIN out[c] = 1 .. Len(out[c]) /\ Len(out[c]) \in Nat
  BY DEF Built, CodeInOrder
<1>2. CASE \E n \in fn.P.args : v = Src(fn.P, n)
  BY <1>2 DEF AtEntry
<1>3. CASE v.blk \in Blocks(fn.P)
  <2>1. ~IsArgument(v)
    BY <1>3 DEF IsArgument, Blocks
  <2>2. (v.blk = b /\ v.idx < k) \/ (v.blk # b /\ v.blk \in fn.dom[b])
    BY <2>1 DEF Fit, Dominates
  <2>3. CASE \E q \in phis[v.blk] : q.def = v
    <3>1. \A m : v \in DefinedBefore(v.blk, m)
      BY <2>3 DEF DefinedBefore
    <3> QED
      BY <2>2, <3>1 DEF AtEntry
  <2>4. CASE \E x \in Staying(out[v.blk]) :
                x.at = <<v.blk, v.idx>> /\ \E d \in DOMAIN x.defs : x.defs[d] = v
    <3>1. PICK j \in DOMAIN out[v.blk] :
                 /\ out[v.blk][j].at = <<v.blk, v.idx>>
                 /\ \E d \in DOMAIN out[v.blk][j].defs : out[v.blk][j].defs[d] = v
      BY <2>4 DEF Staying
    <3>2. \A m : j \in 1 .. m - 1 => v \in DefinedBefore(v.blk, m)
      BY <3>1 DEF DefinedBefore
    <3>3. CASE v.blk = b /\ v.idx < k
      <4>1. out[b][j].at[2] < k
        BY <3>1, <3>3
      <4> QED
        BY <3>1, <3>2, <3>3, <4>1
    <3>4. CASE v.blk # b /\ v.blk \in fn.dom[b]
      <4>1. j \in 1 .. (Len(out[v.blk]) + 1) - 1
        BY <1>1, <1>3, <3>1
      <4> QED
        BY <3>2, <3>4, <4>1 DEF AtEntry
    <3> QED
      BY <2>2, <3>3, <3>4
  <2> QED
    BY <1>2, <1>3, <2>3, <2>4 DEF Fit, InResult
<1> QED
  BY <1>2, <1>3 DEF Fit, InResult

LEMMA BuiltVerifies == ASSUME IInv, Built PROVE ResultVerifies
<1> SUFFICES ASSUME stage = "done", NEW b \in Blocks(fn.P)
             PROVE  /\ \A i \in 1 .. Len(out[b]) :
                         /\ out[b][i].op \notin MutOps
                         /\ \A j \in DOMAIN out[b][i].args :
                              out[b][i].args[j] \in DefinedBefore(b, i) \cup AtEntry(b)
                    /\ \A q \in phis[b] : \A x \in Preds(fn.P, b) :
                         q.in[x] \in DefinedBefore(x, Len(out[x]) + 1) \cup AtEntry(x)
  BY DEF ResultVerifies
<1>1. \A c \in Blocks(fn.P) :
        /\ DOMAIN out[c] = 1 .. Len(out[c]) /\ Len(out[c]) \in Nat
        /\ \A i \in DOMAIN out[c] : ~out[c][i].marked /\ out[c][i].at[1] = c
                                    /\ out[c][i].at[2] \in Nat
        /\ Sorted(out[c])
  BY DEF Built, CodeInOrder, Traversal
<1>2. ASSUME NEW i \in 1 .. Len(out[b])
      PROVE  /\ out[b][i].op \notin MutOps
             /\ \A j \in DOMAIN out[b][i].args :
                  out[b][i].args[j] \in DefinedBefore(b, i) \cup AtEntry(b)
  <2>1. out[b][i] \in Staying(out[b])
    BY <1>1 DEF Staying
  <2>2. /\ out[b][i].op \notin MutOps
        /\ \A j \in DOMAIN out[b][i].args :
             Fit(fn.P, fn.dom, phis, out, out[b][i].args[j], out[b][i].at)
    BY <2>1 DEF Built, OperandsFit
  <2>3. PICK k : k = out[b][i].at[2]
    OBVIOUS
  <2>4. \A j \in DOMAIN out[b] : out[b][j].at[2] < k => j \in 1 .. i - 1
    <3> SUFFICES ASSUME NEW j \in DOMAIN out[b], out[b][j].at[2] < k PROVE j < i
      BY <1>1
    <3>1. k \in Nat /\ out[b][j].at[2] \in Nat /\ i \in DOMAIN out[b] /\ i \in Nat /\ j \in Nat
      BY <1>1, <2>3
    <3>2. i # j
      BY <2>3, <3>1
    <3>3. i < j => k <= out[b][j].at[2]
      BY <1>1, <2>3, <3>1 DEF Sorted
    <3> QED
      BY <3>1, <3>2, <3>3
  <2>5. ASSUME NEW j \in DOMAIN out[b][i].args
        PROVE  out[b][i].args[j] \in DefinedBefore(b, i) \cup AtEntry(b)
    <3>1. PICK v : v = out[b][i].args[j]
      OBVIOUS
    <3>2. Fit(fn.P, fn.dom, phis, out, v, out[b][i].at)
      BY <2>2, <3>1
    <3>3. \A dom : Dominates(dom, v, out[b][i].at) <=> Dominates(dom, v, <<b, k>>)
      BY <1>1, <2>3 DEF Dominates
    <3>4. Fit(fn.P, fn.dom, phis, out, v, <<b, k>>)
      BY <3>2, <3>3 DEF Fit
    <3> QED
      BY <2>4, <3>1, <3>4, FitIsDefined
  <2> QED
    BY <2>2, <2>5
<1>3. ASSUME NEW q \in phis[b], NEW x \in Preds(fn.P, b)
      PROVE  q.in[x] \in DefinedBefore(x, Len(out[x]) + 1) \cup AtEntry(x)
  <2>1. x \in Blocks(fn.P)
    BY DEF Preds
  <2>2. ~Pending(b, q, x)
    <3>1. seen = Blocks(fn.P) /\ todo = {}
      BY DEF Built, Traversal
    <3> QED
      BY <2>1, <3>1 DEF Pending, Unfilled
  <2>3. Fit(fn.P, fn.dom, phis, out, q.in[x], Terminator(fn.P, x))
    BY <2>2 DEF Built, IncomingFit
  <2>4. PICK k : Terminator(fn.P, x) = <<x, k>>
    BY DEF Terminator
  <2>5. PICK v : v = q.in[x]
    OBVIOUS
  <2>6. PICK i : i = Len(out[x]) + 1
    OBVIOUS
  <2>7. \A j \in DOMAIN out[x] : j \in 1 .. i - 1
    BY <1>1, <2>1, <2>6
  <2>8. Fit(fn.P, fn.dom, phis, out, v, <<x, k>>)
    BY <2>3, <2>4, <2>5
  <2> QED
    BY <2>1, <2>5, <2>6, <2>7, <2>8, FitIsDefined
<1> QED
  BY <1>2, <1>3

(***************************************************************************)
(* Once construction is done, no mutable instruction is left and every     *)
(* operand and every incoming value of a PHI is defined on every path to   *)
(* its use: nothing that Cleanup erases is used.  It rests on has() asking *)
(* an associative array and on mutators returning nothing: the visitor of  *)
(* has() without use-PHIs, and that of a mutator, resolve no such name.    *)
(***************************************************************************)
THEOREM ResultIsVerified ==
  ASSUME SignaturesHold
  PROVE  Spec => []ResultVerifies
<1>1. Init => IInv /\ Built
  BY InitIInv, InitBuilt
<1>2. IInv /\ Built /\ [Next]_vars => (IInv /\ Built)'
  BY NextIInv, NextBuilt
<1>3. IInv /\ Built => ResultVerifies
  BY BuiltVerifies
<1> QED
  BY <1>1, <1>2, <1>3, PTL DEF Spec

-----------------------------------------------------------------------------
-----------------------------------------------------------------------------
(* Versions are ordered by the paths that pass them. *)

Located(P, v) ==
  /\ v.blk \in Nat /\ v.idx \in Nat /\ (v.blk # 0 => v.blk \in Blocks(P))
  /\ IsArgument(v) <=> v.blk = 0

IsPoint(P, pt) == \E b \in Blocks(P) : \E i \in Nat : pt = <<b, i>>

LEMMA DominatorsOrdered ==
  ASSUME NEW P, WellShaped(P), NEW dom, dom = Dominators(P)
  PROVE  /\ 0 \notin Blocks(P)
         /\ \A b \in Blocks(P) : b \in Nat /\ b \in dom[b] /\ dom[b] \subseteq Blocks(P)
         /\ \A a, b, c \in Blocks(P) : a \in dom[b] /\ b \in dom[c] => a \in dom[c]
         /\ \A a, b \in Blocks(P) : a \in dom[b] /\ b \in dom[a] => a = b
         /\ \A a, b, c \in Blocks(P) : a \in dom[c] /\ b \in dom[c] => a \in dom[b] \/ b \in dom[a]
<1>1. /\ 1 \in Blocks(P) /\ Blocks(P) \subseteq ReachAvoiding(P, 0)
      /\ 0 \notin Blocks(P) /\ \A b \in Blocks(P) : b \in Nat
  BY DEF WellShaped, Blocks
<1>2. \A b \in Blocks(P) : b \in dom[b] /\ dom[b] \subseteq Blocks(P)
  BY <1>1, DominatesItself DEF Dominators
<1>3. ASSUME NEW a \in Blocks(P), NEW b \in Blocks(P), NEW c \in Blocks(P), a \in dom[b], b \in dom[c]
      PROVE  a \in dom[c]
  BY <1>1, <1>3, DominatesOn
<1>4. ASSUME NEW a \in Blocks(P), NEW b \in Blocks(P), a \in dom[b], b \in dom[a]
      PROVE  a = b
  BY <1>4, DominanceIsAnOrder
<1>5. ASSUME NEW a \in Blocks(P), NEW b \in Blocks(P), NEW c \in Blocks(P), a \in dom[c], b \in dom[c]
      PROVE  a \in dom[b] \/ b \in dom[a]
  BY <1>1, <1>5, DominatorsAreAChain
<1> QED
  BY <1>1, <1>2, <1>3, <1>4, <1>5

LEMMA ReachingIsTransitive ==
  ASSUME NEW P, WellShaped(P), NEW dom, dom = Dominators(P),
         NEW e, Located(P, e), NEW d, Located(P, d), NEW pt, IsPoint(P, pt),
         Above(dom, e, d), ReachesAt(dom, d, pt)
  PROVE  ReachesAt(dom, e, pt)
<1>1. PICK b \in Blocks(P), i \in Nat : pt = <<b, i>>
  BY DEF IsPoint
<1>2. pt[1] = b /\ pt[2] = i
  BY <1>1
<1> DEFINE db == d.blk
           di == d.idx
           eb == e.blk
           ei == e.idx
<1>3. /\ db \in Blocks(P) /\ db # 0 /\ di \in Nat /\ ei \in Nat
      /\ eb # 0 => eb \in Blocks(P)
      /\ ~IsArgument(d) /\ (IsArgument(e) \/ eb # 0)
  BY DEF Above, Located
<1>4. IsArgument(e) \/ (eb = db /\ ei < di) \/ (eb # db /\ eb \in dom[db])
  BY DEF Above, ReachesAt, Dominates
<1>5. (db = b /\ di < i) \/ (db # b /\ db \in dom[b])
  BY <1>2, <1>3 DEF ReachesAt, Dominates
<1>6. ReachesAt(dom, e, pt) <=> IsArgument(e) \/ (eb = b /\ ei < i) \/ (eb # b /\ eb \in dom[b])
  BY <1>2 DEF ReachesAt, Dominates
<1> HIDE DEF db, di, eb, ei
<1>7. CASE IsArgument(e)
  BY <1>6, <1>7
<1>8. CASE eb = db /\ ei < di
  BY <1>3, <1>5, <1>6, <1>8
<1>9. CASE ~IsArgument(e) /\ eb # db /\ eb \in dom[db]
  BY <1>3, <1>5, <1>6, <1>9, DominatorsOrdered
<1> QED
  BY <1>4, <1>7, <1>8, <1>9

LEMMA ReachingIsAChain ==
  ASSUME NEW P, WellShaped(P), NEW dom, dom = Dominators(P),
         NEW e, Located(P, e), NEW d, Located(P, d), NEW pt, IsPoint(P, pt),
         ReachesAt(dom, e, pt), ReachesAt(dom, d, pt)
  PROVE  \/ Above(dom, e, d) \/ Above(dom, d, e)
         \/ e.blk = d.blk /\ e.idx = d.idx
         \/ e.blk = 0 /\ d.blk = 0
<1>1. PICK b \in Blocks(P), i \in Nat : pt = <<b, i>>
  BY DEF IsPoint
<1>2. pt[1] = b /\ pt[2] = i
  BY <1>1
<1> DEFINE db == d.blk
           di == d.idx
           eb == e.blk
           ei == e.idx
<1>3. /\ di \in Nat /\ ei \in Nat /\ (db # 0 => db \in Blocks(P)) /\ (eb # 0 => eb \in Blocks(P))
      /\ (IsArgument(d) <=> db = 0) /\ (IsArgument(e) <=> eb = 0)
  BY DEF Located
<1>4. Above(dom, e, d) <=> db # 0 /\ (eb = 0 \/ (eb = db /\ ei < di) \/ (eb # db /\ eb \in dom[db]))
  BY <1>3 DEF Above, ReachesAt, Dominates
<1>5. Above(dom, d, e) <=> eb # 0 /\ (db = 0 \/ (db = eb /\ di < ei) \/ (db # eb /\ db \in dom[eb]))
  BY <1>3 DEF Above, ReachesAt, Dominates
<1>6. /\ eb = 0 \/ (eb = b /\ ei < i) \/ (eb # b /\ eb \in dom[b])
      /\ db = 0 \/ (db = b /\ di < i) \/ (db # b /\ db \in dom[b])
  BY <1>2, <1>3 DEF ReachesAt, Dominates
<1> HIDE DEF db, di, eb, ei
<1>7. b \in dom[b]
  BY DominatorsOrdered
<1>8. eb # 0 /\ db # 0 => eb \in dom[db] \/ db \in dom[eb]
  BY <1>3, <1>6, <1>7, DominatorsOrdered
<1>9. (eb = db /\ ei = di) \/ (eb = 0 /\ db = 0) \/ Above(dom, e, d) \/ Above(dom, d, e)
  BY <1>3, <1>4, <1>5, <1>6, <1>8
<1> QED
  BY <1>9 DEF db, di, eb, ei

LEMMA AboveIsStrict ==
  ASSUME NEW P, WellShaped(P), NEW dom, dom = Dominators(P),
         NEW e, Located(P, e), NEW d, Located(P, d), Above(dom, e, d)
  PROVE  ~Above(dom, d, e) /\ e # d
<1> DEFINE db == d.blk
           di == d.idx
           eb == e.blk
           ei == e.idx
<1>3. /\ di \in Nat /\ ei \in Nat /\ (db # 0 => db \in Blocks(P)) /\ (eb # 0 => eb \in Blocks(P))
      /\ (IsArgument(d) <=> db = 0) /\ (IsArgument(e) <=> eb = 0)
  BY DEF Located
<1>4. db # 0 /\ (eb = 0 \/ (eb = db /\ ei < di) \/ (eb # db /\ eb \in dom[db]))
  BY <1>3 DEF Above, ReachesAt, Dominates
<1>5. Above(dom, d, e) <=> eb # 0 /\ (db = 0 \/ (db = eb /\ di < ei) \/ (db # eb /\ db \in dom[eb]))
  BY <1>3 DEF Above, ReachesAt, Dominates
<1>6. eb # db \/ ei # di => e # d
  BY DEF db, di, eb, ei
<1> HIDE DEF db, di, eb, ei
<1>7. eb # db \/ ei # di
  BY <1>3, <1>4
<1>8. ~(eb # 0 /\ db # eb /\ db \in dom[eb] /\ eb \in dom[db])
  BY <1>3, DominatorsOrdered
<1> QED
  BY <1>3, <1>4, <1>5, <1>6, <1>7, <1>8

-----------------------------------------------------------------------------
(* The versions of a name. *)

\* What PHIs define: names whose PHI the front end left there, or new ones.
Placed(P, dom, pd) ==
  /\ DOMAIN pd = Blocks(P)
  /\ \A b \in Blocks(P) : \A v \in pd[b] :
       /\ v.web \in Names(P)
       /\ \/ v = Src(P, v.web) /\ DefPos(P, v.web) = <<b, 0>>
          \/ v = Val("phi", v.web, b, 0) /\ b # 1 /\ ReachesAt(dom, Src(P, v.web), <<b, 0>>)
  /\ \A b \in Blocks(P) : \A r \in P.phis[b] : Src(P, r.def) \in pd[b]

Ground(P, dom, pd) ==
  WellFormed(P) /\ Signatures(P) /\ dom = Dominators(P) /\ Placed(P, dom, pd)

LEMMA VersionForms ==
  ASSUME NEW P, NEW pd, NEW n, NEW v \in Versions(P, pd, n)
  PROVE  \/ n \in P.args /\ v = Src(P, n)
         \/ \E b \in Blocks(P) : v \in pd[b] /\ v.web = n
         \/ \E b \in Blocks(P) : \E i \in 1 .. Len(P.code[b]) :
              Redefines(P.code[b][i], n) /\ v = Renamed(P, n, b, i)
  BY DEF Versions

\* Where an instruction makes a new version of n it defines or uses n.
LEMMA RedefinesUses ==
  ASSUME NEW P, WellFormed(P), NEW n \in Names(P), NEW b \in Blocks(P),
         NEW i \in 1 .. Len(P.code[b]), Redefines(P.code[b][i], n)
  PROVE  \/ P.code[b][i].def = n /\ DefPos(P, n) = <<b, i>>
         \/ P.code[b][i].def # n /\ ReachesAt(Dominators(P), Src(P, n), <<b, i>>)
<1> DEFINE x == P.code[b][i]
<1>1. /\ x.op \in ReadOps \cup WriteOps \cup {"MutSeqSplit"} => Len(x.c) = 1
      /\ x.op \in PairOps => Len(x.c) = 2
  BY DEF WellFormed, WellTyped
<1>2. CASE x.def = n
  <2>1. x.def # NoName
    BY <1>2, NoNameIsNoName
  <2> QED
    BY <1>2, <2>1 DEF WellFormed, SingleDefs
<1>3. CASE x.def # n
  <2>1. \E j \in 1 .. Len(x.c) : x.c[j] = n
    BY <1>1, <1>3 DEF Redefines, MutOps, PairOps
  <2>2. \A j \in 1 .. Len(x.c) : StrictUse(P, Dominators(P), x.c[j], <<b, i>>)
    BY DEF WellFormed, Strict
  <2> QED
    BY <1>3, <2>1, <2>2 DEF StrictUse, ReachesAt
<1> QED
  BY <1>2, <1>3

LEMMA RenamedFields ==
  ASSUME NEW P, WellFormed(P), NEW n \in Names(P), NEW b \in Blocks(P),
         NEW i \in 1 .. Len(P.code[b]), Redefines(P.code[b][i], n),
         NEW v, v = Renamed(P, n, b, i)
  PROVE  /\ v.web = n /\ v.blk = b /\ v.idx = i
         /\ v.kind = "src" => v = Src(P, n)
<1>1. CASE P.code[b][i].def = n
  <2>1. DefPos(P, n) = <<b, i>>
    BY <1>1, RedefinesUses
  <2>2. Src(P, n) = [kind |-> "src", web |-> n, blk |-> b, idx |-> i]
    BY <2>1 DEF Src, Val
  <2> QED
    BY <1>1, <2>2 DEF Renamed, Val
<1>2. CASE P.code[b][i].def # n
  BY <1>2 DEF Renamed, Val
<1> QED
  BY <1>1, <1>2

\* A version is where it says, and is what is defined there.
LEMMA VersionFacts ==
  ASSUME NEW P, NEW dom, NEW pd, Ground(P, dom, pd), NEW n \in Names(P),
         NEW v \in Versions(P, pd, n)
  PROVE  /\ v.web = n /\ Located(P, v)
         /\ v.blk = 0 => n \in P.args /\ v = Src(P, n) /\ v.idx = 0
         /\ v.blk # 0 /\ v.idx = 0 => v \in pd[v.blk]
         /\ v.blk # 0 /\ v.idx # 0 =>
              /\ v.idx \in 1 .. Len(P.code[v.blk]) /\ Redefines(P.code[v.blk][v.idx], n)
              /\ v = Renamed(P, n, v.blk, v.idx)
<1>1. WellFormed(P) /\ Placed(P, dom, pd)
  BY DEF Ground
<1>2. \A b \in Blocks(P) : b \in Nat /\ b # 0
  BY DEF Blocks
<1>3. CASE n \in P.args /\ v = Src(P, n)
  <2>1. DefPos(P, n) = <<0, 0>>
    BY <1>3 DEF DefPos
  <2>2. v = [kind |-> "src", web |-> n, blk |-> 0, idx |-> 0]
    BY <1>3, <2>1 DEF Src, Val
  <2>3. v.kind = "src" /\ v.web = n /\ v.blk = 0 /\ v.idx = 0
    BY <2>2
  <2> QED
    BY <1>3, <2>3 DEF Located, IsArgument
<1>4. ASSUME NEW b \in Blocks(P), v \in pd[b], v.web = n
      PROVE  v.blk = b /\ v.idx = 0
  <2>1. (v = Src(P, n) /\ DefPos(P, n) = <<b, 0>>) \/ v = Val("phi", n, b, 0)
    BY <1>1, <1>4 DEF Placed
  <2>2. CASE v = Src(P, n) /\ DefPos(P, n) = <<b, 0>>
    BY <2>2 DEF Src, Val
  <2>3. CASE v = Val("phi", n, b, 0)
    BY <2>3 DEF Val
  <2> QED
    BY <2>1, <2>2, <2>3
<1>5. ASSUME NEW b \in Blocks(P), v \in pd[b], v.web = n
      PROVE  v.blk = b /\ v.idx = 0 /\ Located(P, v)
  BY <1>2, <1>4, <1>5 DEF Located, IsArgument
<1>6. ASSUME NEW b \in Blocks(P), NEW i \in 1 .. Len(P.code[b]),
             Redefines(P.code[b][i], n), v = Renamed(P, n, b, i)
      PROVE  v.web = n /\ v.blk = b /\ v.idx = i /\ i # 0 /\ Located(P, v)
  <2>1. v.web = n /\ v.blk = b /\ v.idx = i
    BY <1>1, <1>6, RenamedFields
  <2>2. i \in Nat /\ i # 0
    OBVIOUS
  <2> QED
    BY <1>2, <2>1, <2>2 DEF Located, IsArgument
<1> QED
  BY <1>2, <1>3, <1>5, <1>6, VersionForms

\* A place defines one version of a name.
LEMMA OneVersion ==
  ASSUME NEW P, NEW dom, NEW pd, Ground(P, dom, pd), NEW n \in Names(P),
         NEW v \in Versions(P, pd, n), NEW w \in Versions(P, pd, n),
         v.blk = w.blk, v.idx = w.idx
  PROVE  v = w
<1> DEFINE b == v.blk
           i == v.idx
<1>4. v.web = n /\ w.web = n /\ (b # 0 => b \in Blocks(P))
  BY VersionFacts DEF Located
<1>5. /\ b # 0 /\ i = 0 => v \in pd[b]
      /\ b # 0 /\ i # 0 => v = Renamed(P, n, b, i)
      /\ b = 0 => v = Src(P, n)
  BY VersionFacts
<1>6. /\ b # 0 /\ i = 0 => w \in pd[b]
      /\ b # 0 /\ i # 0 => w = Renamed(P, n, b, i)
      /\ b = 0 => w = Src(P, n)
  BY VersionFacts
<1>1. CASE v.blk = 0
  BY <1>1, <1>5, <1>6
<1>2. CASE v.blk # 0 /\ v.idx # 0
  BY <1>2, <1>5, <1>6
<1>3. CASE v.blk # 0 /\ v.idx = 0
  <2>1. b \in Blocks(P) /\ b # 0 /\ v \in pd[b] /\ w \in pd[b] /\ v.web = n /\ w.web = n
    BY <1>3, <1>4, <1>5, <1>6
  <2>2. ~(DefPos(P, n) = <<b, 0>> /\ ReachesAt(dom, Src(P, n), <<b, 0>>))
    BY <2>1 DEF Src, Val, ReachesAt, IsArgument, Dominates
  <2>3. ASSUME NEW u \in pd[b], u.web = n
        PROVE  \/ u = Src(P, n) /\ DefPos(P, n) = <<b, 0>>
               \/ u = Val("phi", n, b, 0) /\ ReachesAt(dom, Src(P, n), <<b, 0>>)
    BY <2>1, <2>3 DEF Ground, Placed
  <2> QED
    BY <2>1, <2>2, <2>3
<1> QED
  BY <1>1, <1>2, <1>3

\* Every version is where the name is defined, or a path to it passes that place.
LEMMA VersionsFollowName ==
  ASSUME NEW P, NEW dom, NEW pd, Ground(P, dom, pd), NEW n \in Names(P),
         NEW v \in Versions(P, pd, n)
  PROVE  \/ DefPos(P, n) = <<v.blk, v.idx>>
         \/ v.blk # 0 /\ ReachesAt(dom, Src(P, n), <<v.blk, v.idx>>)
<1>1. WellFormed(P) /\ Placed(P, dom, pd) /\ dom = Dominators(P)
  BY DEF Ground
<1>2. CASE v.blk = 0
  BY <1>2, VersionFacts DEF DefPos
<1>3. CASE v.blk # 0 /\ v.idx # 0
  <2>1. /\ v.blk \in Blocks(P) /\ v.idx \in 1 .. Len(P.code[v.blk])
        /\ Redefines(P.code[v.blk][v.idx], n)
    BY <1>3, VersionFacts DEF Located
  <2> QED
    BY <1>1, <1>3, <2>1, RedefinesUses
<1>4. CASE v.blk # 0 /\ v.idx = 0
  <2>1. v.blk \in Blocks(P) /\ v \in pd[v.blk] /\ v.web = n
    BY <1>4, VersionFacts DEF Located
  <2> QED
    BY <1>1, <1>4, <2>1 DEF Placed
<1> QED
  BY <1>2, <1>3, <1>4

\* There is a version where the name is defined.
LEMMA FirstVersion ==
  ASSUME NEW P, NEW dom, NEW pd, Ground(P, dom, pd), NEW n \in Names(P)
  PROVE  /\ Located(P, Src(P, n)) /\ Src(P, n).web = n
         /\ DefPos(P, n) = <<Src(P, n).blk, Src(P, n).idx>>
         /\ \E v \in Versions(P, pd, n) : v.blk = Src(P, n).blk /\ v.idx = Src(P, n).idx
         /\ Src(P, n).idx = 0 => Src(P, n) \in Versions(P, pd, n)
<1> DEFINE s == Src(P, n)
<1>1. WellFormed(P) /\ Placed(P, dom, pd)
  BY DEF Ground
<1>2. \A b \in Blocks(P) : b \in Nat /\ b # 0
  BY DEF Blocks
<1>3. /\ s.web = n /\ s.kind = "src" /\ s.blk = DefPos(P, n)[1] /\ s.idx = DefPos(P, n)[2]
      /\ s.blk \in Nat /\ s.idx \in Nat
  BY <1>1, SrcFields
<1>4. DefPos(P, n) = <<s.blk, s.idx>>
  BY <1>1, <1>3, DefPosType
<1>5. /\ s.web = n
      /\ \/ n \in P.args /\ s.blk = 0
         \/ /\ s.blk \in Blocks(P) /\ s.idx = 0
            /\ \E q \in P.phis[s.blk] : q.def = n
         \/ /\ s.blk \in Blocks(P) /\ s.idx \in 1 .. Len(P.code[s.blk])
            /\ P.code[s.blk][s.idx].def = n
  BY <1>1, SourceIs
<1>6. Located(P, s)
  BY <1>2, <1>3, <1>5 DEF Located, IsArgument
<1> DEFINE There == /\ \E v \in Versions(P, pd, n) : v.blk = s.blk /\ v.idx = s.idx
                    /\ s.idx = 0 => s \in Versions(P, pd, n)
<1>7. ASSUME n \in P.args PROVE There
  <2>1. s \in Versions(P, pd, n)
    BY <1>7 DEF Versions
  <2> QED
    BY <2>1
<1>8. ASSUME s.blk \in Blocks(P), s.idx = 0, \E q \in P.phis[s.blk] : q.def = n
      PROVE  There
  <2>1. s \in pd[s.blk]
    BY <1>1, <1>8 DEF Placed
  <2>2. s \in Versions(P, pd, n)
    BY <1>3, <1>8, <2>1 DEF Versions
  <2> QED
    BY <2>2
<1>9. ASSUME s.blk \in Blocks(P), s.idx \in 1 .. Len(P.code[s.blk]), P.code[s.blk][s.idx].def = n
      PROVE  There
  <2>1. Redefines(P.code[s.blk][s.idx], n)
    BY <1>9 DEF Redefines
  <2> DEFINE v == Renamed(P, n, s.blk, s.idx)
  <2>2. v \in Versions(P, pd, n)
    BY <1>9, <2>1 DEF Versions
  <2>3. v.blk = s.blk /\ v.idx = s.idx
    BY <1>1, <1>9, <2>1, RenamedFields
  <2>4. s.idx # 0
    BY <1>9
  <2> QED
    BY <2>2, <2>3, <2>4
<1>10. There
  BY <1>5, <1>7, <1>8, <1>9
<1> QED
  BY <1>3, <1>4, <1>6, <1>10

\* The order of the versions of a name.
LEMMA VersionOrder ==
  ASSUME NEW P, NEW dom, NEW pd, Ground(P, dom, pd), NEW n \in Names(P)
  PROVE  /\ \A e, d \in Versions(P, pd, n) : Above(dom, e, d) => ~UpTo(dom, d, e)
         /\ \A e, d, c \in Versions(P, pd, n) : UpTo(dom, e, d) /\ UpTo(dom, d, c) => UpTo(dom, e, c)
         /\ \A e, d \in Versions(P, pd, n) : \A pt :
              IsPoint(P, pt) /\ ReachesAt(dom, d, pt) /\ UpTo(dom, e, d) => ReachesAt(dom, e, pt)
         /\ \A e, d \in Versions(P, pd, n) : \A pt :
              IsPoint(P, pt) /\ ReachesAt(dom, d, pt) /\ ReachesAt(dom, e, pt) =>
                UpTo(dom, e, d) \/ Above(dom, d, e)
<1>1. WellShaped(P) /\ dom = Dominators(P)
  BY DEF Ground, WellFormed
<1>2. \A e \in Versions(P, pd, n) : Located(P, e)
  BY VersionFacts
<1>3. \A e, d \in Versions(P, pd, n) : Above(dom, e, d) => ~UpTo(dom, d, e)
  BY <1>1, <1>2, AboveIsStrict DEF UpTo
<1>4. \A d \in Versions(P, pd, n) : d.blk # 0 => IsPoint(P, <<d.blk, d.idx>>)
  BY <1>2 DEF Located, IsPoint
<1>5. \A e, d \in Versions(P, pd, n) : \A pt :
        IsPoint(P, pt) /\ ReachesAt(dom, d, pt) /\ UpTo(dom, e, d) => ReachesAt(dom, e, pt)
  BY <1>1, <1>2, ReachingIsTransitive DEF UpTo
<1>6. ASSUME NEW e \in Versions(P, pd, n), NEW d \in Versions(P, pd, n), NEW c \in Versions(P, pd, n),
             UpTo(dom, e, d), UpTo(dom, d, c)
      PROVE  UpTo(dom, e, c)
  <2>1. CASE d = c
    BY <1>6, <2>1
  <2>2. CASE d # c
    <3>1. c.blk # 0 /\ ReachesAt(dom, d, <<c.blk, c.idx>>)
      BY <1>6, <2>2 DEF UpTo, Above
    <3>2. ReachesAt(dom, e, <<c.blk, c.idx>>)
      BY <1>4, <1>5, <1>6, <3>1
    <3> QED
      BY <3>1, <3>2 DEF UpTo, Above
  <2> QED
    BY <2>1, <2>2
<1>7. ASSUME NEW e \in Versions(P, pd, n), NEW d \in Versions(P, pd, n), NEW pt,
             IsPoint(P, pt), ReachesAt(dom, d, pt), ReachesAt(dom, e, pt)
      PROVE  UpTo(dom, e, d) \/ Above(dom, d, e)
  <2>1. Located(P, e) /\ Located(P, d)
    BY <1>2
  <2>2. \/ Above(dom, e, d) \/ Above(dom, d, e)
        \/ e.blk = d.blk /\ e.idx = d.idx
        \/ e.blk = 0 /\ d.blk = 0
    BY <1>1, <1>7, <2>1, ReachingIsAChain
  <2>3. e.blk = 0 /\ d.blk = 0 => e = d
    BY VersionFacts
  <2>4. e.blk = d.blk /\ e.idx = d.idx => e = d
    BY OneVersion
  <2> QED
    BY <2>2, <2>3, <2>4 DEF UpTo
<1> QED
  BY <1>3, <1>5, <1>6, <1>7

LEMMA LatestIsUnique ==
  ASSUME NEW P, NEW dom, NEW pd, Ground(P, dom, pd), NEW n \in Names(P), NEW pt,
         NEW v, Latest(P, dom, pd, n, pt, v), NEW w, Latest(P, dom, pd, n, pt, w)
  PROVE  v = w
<1>1. v \in Versions(P, pd, n) /\ w \in Versions(P, pd, n) /\ UpTo(dom, v, w) /\ UpTo(dom, w, v)
  BY DEF Latest
<1> QED
  BY <1>1, VersionOrder DEF UpTo

-----------------------------------------------------------------------------
(* What the map of reaching definitions knows. *)

\* The visit goes on to a point that no further version reaches.
LEMMA ChainsGoOn ==
  ASSUME NEW P, NEW dom, NEW pd, NEW S, NEW f, NEW pt, Chains(P, dom, pd, S, f, pt),
         NEW S1, NEW pt1,
         \A n \in Names(P) : \A e \in Versions(P, pd, n) : e \in S <=> e \in S1,
         \A n \in Names(P) : f[Src(P, n)] = Src(P, n) /\ Src(P, n) \notin S => Src(P, n) \notin S1,
         \A n \in Names(P) : \A e \in Versions(P, pd, n) \cap S :
            ReachesAt(dom, e, pt1) => ReachesAt(dom, e, pt)
  PROVE  Chains(P, dom, pd, S1, f, pt1)
<1>1. \A n \in Names(P) : Src(P, n) \in DOMAIN f /\ \A e \in Versions(P, pd, n) \cap S1 :
        ReachesAt(dom, e, pt1) => UpTo(dom, e, f[Src(P, n)])
  BY DEF Chains
<1>2. \A v \in DOMAIN f : v.web \in Names(P)
  BY DEF Chains
<1>3. \A d \in DOMAIN f : d # Src(P, d.web) =>
        /\ d \in Versions(P, pd, d.web) \cap S1
        /\ \A e \in Versions(P, pd, d.web) \cap S1 : Above(dom, e, d) => UpTo(dom, e, f[d])
  BY <1>2 DEF Chains
<1>4. \A v \in DOMAIN f :
       \/ f[v] \in Versions(P, pd, v.web) \cap S1
       \/ f[v] = v /\ v = Src(P, v.web) /\ v \notin S1
  BY <1>2 DEF Chains
<1> QED
  BY <1>1, <1>2, <1>3, <1>4 DEF Chains

\* A name gets version w, and w the one that was the latest before it.
LEMMA ChainsPush ==
  ASSUME NEW P, NEW dom, NEW pd, Ground(P, dom, pd),
         NEW S, NEW f, NEW pt, Chains(P, dom, pd, S, f, pt), NEW n \in Names(P),
         NEW w \in Versions(P, pd, n), w # Src(P, n), NEW z \in Versions(P, pd, n) \cap S,
         \A e \in Versions(P, pd, n) \cap S :
            /\ ~Above(dom, w, e) /\ (Above(dom, e, w) => UpTo(dom, e, z))
            /\ ReachesAt(dom, e, pt) => UpTo(dom, e, w)
  PROVE  Chains(P, dom, pd, S \cup {w}, SetDef(SetDef(f, Src(P, n), w), w, z), pt)
<1> DEFINE s == Src(P, n)
           h == SetDef(f, s, w)
           g == SetDef(h, w, z)
<1> HIDE DEF s
<1>8. /\ DOMAIN h = DOMAIN f \cup {s} /\ h[s] = w
      /\ \A x \in DOMAIN f : x # s => h[x] = f[x]
  BY DEF SetDef
<1> HIDE DEF h
<1>9. /\ DOMAIN g = DOMAIN h \cup {w} /\ g[w] = z
      /\ \A x \in DOMAIN h : x # w => g[x] = h[x]
  BY DEF SetDef
<1> HIDE DEF g
<1>1. /\ DOMAIN g = DOMAIN f \cup {s, w} /\ g[w] = z /\ g[s] = w
      /\ \A x \in DOMAIN f : x # s /\ x # w => g[x] = f[x]
  BY <1>8, <1>9 DEF s
<1>2. \A m \in Names(P) : Src(P, m).web = m
  BY FirstVersion
<1>3. w.web = n /\ ~Above(dom, w, w)
  BY VersionFacts, VersionOrder DEF UpTo
<1> HIDE DEF g, s
<1>4. \A m \in Names(P) : \A e \in Versions(P, pd, m) : m # n => e # w
  BY <1>3, VersionFacts
<1>5. \A m \in Names(P) : Src(P, m) \in DOMAIN g /\ \A e \in Versions(P, pd, m) \cap (S \cup {w}) :
        ReachesAt(dom, e, pt) => UpTo(dom, e, g[Src(P, m)])
  <2> TAKE m \in Names(P)
  <2>1. Src(P, m) \in DOMAIN f /\ \A e \in Versions(P, pd, m) \cap S :
          ReachesAt(dom, e, pt) => UpTo(dom, e, f[Src(P, m)])
    BY DEF Chains
  <2>2. CASE m = n
    BY <1>1, <2>1, <2>2 DEF s, UpTo
  <2>3. CASE m # n
    BY <1>1, <1>2, <1>3, <1>4, <2>1, <2>3 DEF s
  <2> QED
    BY <2>2, <2>3
<1>6. \A d \in DOMAIN g : d # Src(P, d.web) =>
        /\ d \in Versions(P, pd, d.web) \cap (S \cup {w})
        /\ \A e \in Versions(P, pd, d.web) \cap (S \cup {w}) : Above(dom, e, d) => UpTo(dom, e, g[d])
  <2> SUFFICES ASSUME NEW d \in DOMAIN g, d # Src(P, d.web)
               PROVE  /\ d \in Versions(P, pd, d.web) \cap (S \cup {w})
                      /\ \A e \in Versions(P, pd, d.web) \cap (S \cup {w}) :
                           Above(dom, e, d) => UpTo(dom, e, g[d])
    OBVIOUS
  <2>1. CASE d = w
    BY <1>1, <1>3, <2>1
  <2>2. CASE d # w
    <3>1. d # s /\ d \in DOMAIN f /\ g[d] = f[d]
      BY <1>1, <1>2, <2>2 DEF s
    <3>2. d \in Versions(P, pd, d.web) \cap S
          /\ \A e \in Versions(P, pd, d.web) \cap S : Above(dom, e, d) => UpTo(dom, e, f[d])
      BY <3>1 DEF Chains
    <3>3. w \in Versions(P, pd, d.web) => ~Above(dom, w, d)
      <4>1. d.web \in Names(P)
        BY <3>1 DEF Chains
      <4> QED
        BY <1>4, <3>2, <4>1
    <3> QED
      BY <3>1, <3>2, <3>3
  <2> QED
    BY <2>1, <2>2
<1>7. \A v \in DOMAIN g :
        /\ v.web \in Names(P)
        /\ \/ g[v] \in Versions(P, pd, v.web) \cap (S \cup {w})
           \/ g[v] = v /\ v = Src(P, v.web) /\ v \notin S \cup {w}
  <2> TAKE v \in DOMAIN g
  <2>1. CASE v = w
    BY <1>1, <1>3, <2>1
  <2>2. CASE v = s /\ v # w
    BY <1>1, <1>2, <2>2 DEF s
  <2>3. CASE v # s /\ v # w
    BY <1>1, <2>3 DEF Chains
  <2> QED
    BY <2>1, <2>2, <2>3
<1> QED
  BY <1>5, <1>6, <1>7 DEF Chains, g, h, s

\* A name gets version w, behind which no chain goes on.
LEMMA ChainsStart ==
  ASSUME NEW P, NEW dom, NEW pd, Ground(P, dom, pd),
         NEW S, NEW f, NEW pt, Chains(P, dom, pd, S, f, pt), NEW n \in Names(P),
         NEW w \in Versions(P, pd, n), NEW g, DOMAIN g = DOMAIN f, g[Src(P, n)] = w,
         \A x \in DOMAIN f : x # Src(P, n) => g[x] = f[x],
         \A e \in Versions(P, pd, n) \cap S :
            ~Above(dom, w, e) /\ (ReachesAt(dom, e, pt) => UpTo(dom, e, w))
  PROVE  Chains(P, dom, pd, S \cup {w}, g, pt)
<1>2. \A m \in Names(P) : Src(P, m).web = m
  BY FirstVersion
<1>3. w.web = n
  BY VersionFacts
<1>4. \A m \in Names(P) : \A e \in Versions(P, pd, m) : m # n => e # w
  BY <1>3, VersionFacts
<1>5. \A m \in Names(P) : Src(P, m) \in DOMAIN g /\ \A e \in Versions(P, pd, m) \cap (S \cup {w}) :
        ReachesAt(dom, e, pt) => UpTo(dom, e, g[Src(P, m)])
  <2> TAKE m \in Names(P)
  <2>1. Src(P, m) \in DOMAIN f /\ \A e \in Versions(P, pd, m) \cap S :
          ReachesAt(dom, e, pt) => UpTo(dom, e, f[Src(P, m)])
    BY DEF Chains
  <2>2. CASE m = n
    BY <2>1, <2>2 DEF UpTo
  <2>3. CASE m # n
    BY <1>2, <1>4, <2>1, <2>3
  <2> QED
    BY <2>2, <2>3
<1>6. \A d \in DOMAIN g : d # Src(P, d.web) =>
        /\ d \in Versions(P, pd, d.web) \cap (S \cup {w})
        /\ \A e \in Versions(P, pd, d.web) \cap (S \cup {w}) : Above(dom, e, d) => UpTo(dom, e, g[d])
  <2> SUFFICES ASSUME NEW d \in DOMAIN g, d # Src(P, d.web)
               PROVE  /\ d \in Versions(P, pd, d.web) \cap (S \cup {w})
                      /\ \A e \in Versions(P, pd, d.web) \cap (S \cup {w}) :
                           Above(dom, e, d) => UpTo(dom, e, g[d])
    OBVIOUS
  <2>1. d # Src(P, n) /\ g[d] = f[d]
    BY <1>2
  <2>2. d \in Versions(P, pd, d.web) \cap S /\ d.web \in Names(P)
        /\ \A e \in Versions(P, pd, d.web) \cap S : Above(dom, e, d) => UpTo(dom, e, f[d])
    BY <2>1 DEF Chains
  <2>3. w \in Versions(P, pd, d.web) => ~Above(dom, w, d)
    BY <1>4, <2>2
  <2> QED
    BY <2>1, <2>2, <2>3
<1>7. \A v \in DOMAIN g :
        /\ v.web \in Names(P)
        /\ \/ g[v] \in Versions(P, pd, v.web) \cap (S \cup {w})
           \/ g[v] = v /\ v = Src(P, v.web) /\ v \notin S \cup {w}
  <2> TAKE v \in DOMAIN g
  <2>1. CASE v = Src(P, n)
    BY <1>2, <2>1
  <2>2. CASE v # Src(P, n)
    <3>1. /\ g[v] = f[v] /\ v.web \in Names(P)
          /\ \/ f[v] \in Versions(P, pd, v.web) \cap S
             \/ f[v] = v /\ v = Src(P, v.web) /\ v \notin S
      BY <2>2 DEF Chains
    <3>2. v = Src(P, v.web) => v # w
      BY <1>3, <2>2
    <3> QED
      BY <3>1, <3>2
  <2> QED
    BY <2>1, <2>2
<1> QED
  BY <1>5, <1>6, <1>7 DEF Chains

\* A name is known to have version z at the point.
LEMMA ChainsAsk ==
  ASSUME NEW P, NEW dom, NEW pd, Ground(P, dom, pd),
         NEW S, NEW f, NEW pt, Chains(P, dom, pd, S, f, pt), NEW n \in Names(P),
         NEW z \in Versions(P, pd, n) \cap S,
         \A e \in Versions(P, pd, n) \cap S : ReachesAt(dom, e, pt) => UpTo(dom, e, z)
  PROVE  /\ Chains(P, dom, pd, S, SetDef(f, Src(P, n), z), pt)
         /\ Chains(P, dom, pd, S, SetDef(SetDef(f, Src(P, n), z), z, z), pt)
<1>2. \A m \in Names(P) : Src(P, m).web = m
  BY FirstVersion
<1>3. z.web = n
  BY VersionFacts
<1>4. ASSUME NEW g, DOMAIN f \subseteq DOMAIN g, DOMAIN g \subseteq DOMAIN f \cup {z}, g[Src(P, n)] = z,
             z \in DOMAIN g => g[z] = z \/ (g[z] = f[z] /\ z \in DOMAIN f),
             \A x \in DOMAIN f : x # Src(P, n) /\ x # z => g[x] = f[x]
      PROVE  Chains(P, dom, pd, S, g, pt)
  <2>1. \A m \in Names(P) : Src(P, m) \in DOMAIN g /\ \A e \in Versions(P, pd, m) \cap S :
          ReachesAt(dom, e, pt) => UpTo(dom, e, g[Src(P, m)])
    <3> TAKE m \in Names(P)
    <3>1. Src(P, m) \in DOMAIN f /\ \A e \in Versions(P, pd, m) \cap S :
            ReachesAt(dom, e, pt) => UpTo(dom, e, f[Src(P, m)])
      BY DEF Chains
    <3>2. m # n => Src(P, m) # Src(P, n) /\ Src(P, m) # z
      BY <1>2, <1>3
    <3> QED
      BY <1>4, <3>1, <3>2
  <2>2. \A d \in DOMAIN g : d # Src(P, d.web) =>
          /\ d \in Versions(P, pd, d.web) \cap S
          /\ \A e \in Versions(P, pd, d.web) \cap S : Above(dom, e, d) => UpTo(dom, e, g[d])
    <3> SUFFICES ASSUME NEW d \in DOMAIN g, d # Src(P, d.web)
                 PROVE  /\ d \in Versions(P, pd, d.web) \cap S
                        /\ \A e \in Versions(P, pd, d.web) \cap S : Above(dom, e, d) => UpTo(dom, e, g[d])
      OBVIOUS
    <3>1. CASE d = z /\ g[d] = z
      BY <1>3, <3>1 DEF UpTo
    <3>2. CASE d \in DOMAIN f /\ g[d] = f[d]
      BY <3>2 DEF Chains
    <3>3. d # Src(P, n)
      BY <1>2
    <3> QED
      BY <1>4, <3>1, <3>2, <3>3
  <2>3. \A v \in DOMAIN g :
          /\ v.web \in Names(P)
          /\ \/ g[v] \in Versions(P, pd, v.web) \cap S
             \/ g[v] = v /\ v = Src(P, v.web) /\ v \notin S
    <3> TAKE v \in DOMAIN g
    <3>1. CASE (v = z \/ v = Src(P, n)) /\ g[v] = z
      BY <1>2, <1>3, <3>1
    <3>2. CASE v \in DOMAIN f /\ g[v] = f[v]
      BY <3>2 DEF Chains
    <3> QED
      BY <1>4, <3>1, <3>2
  <2> QED
    BY <2>1, <2>2, <2>3 DEF Chains
<1> DEFINE s == Src(P, n)
           g1 == SetDef(f, s, z)
           g2 == SetDef(g1, z, z)
<1>5. s \in DOMAIN f
  BY DEF Chains
<1> HIDE DEF s
<1>10. /\ DOMAIN g1 = DOMAIN f \cup {s} /\ g1[s] = z
       /\ \A x \in DOMAIN f : x # s => g1[x] = f[x]
  BY DEF SetDef
<1> HIDE DEF g1
<1>7. /\ DOMAIN g2 = DOMAIN g1 \cup {z} /\ g2[z] = z
      /\ \A x \in DOMAIN g1 : x # z => g2[x] = g1[x]
  BY DEF SetDef
<1> HIDE DEF g2
<1>6. /\ DOMAIN g1 = DOMAIN f /\ g1[s] = z
      /\ \A x \in DOMAIN f : x # s => g1[x] = f[x]
  BY <1>5, <1>10
<1>8. Chains(P, dom, pd, S, g1, pt)
  BY <1>4, <1>6 DEF s
<1>9. Chains(P, dom, pd, S, g2, pt)
  BY <1>4, <1>5, <1>6, <1>7 DEF s
<1> QED
  BY <1>8, <1>9 DEF g1, g2, s

-----------------------------------------------------------------------------
(***************************************************************************)
(* The latest versions.  What has been passed.                             *)
(***************************************************************************)

LEMMA GroundHolds ==
  ASSUME IInv, Built, InvSlots
  PROVE  Ground(fn.P, fn.dom, PHIDefs(phis))
<1> DEFINE P == fn.P
           dom == fn.dom
           pd == PHIDefs(phis)
<1>1. WellFormed(P) /\ dom = Dominators(P) /\ Signatures(P)
  BY FnFacts DEF Built
<1>2. DOMAIN phis = Blocks(P)
  BY DEF IInv, TypeOK
<1>3. DOMAIN pd = Blocks(P) /\ \A b \in Blocks(P) : pd[b] = {q.def : q \in phis[b]}
  BY <1>2 DEF PHIDefs
<1>4. ASSUME NEW b \in Blocks(P), NEW q \in phis[b]
      PROVE  /\ q.def.web \in Names(P)
             /\ \/ q.def = Src(P, q.def.web) /\ DefPos(P, q.def.web) = <<b, 0>>
                \/ /\ q.def = Val("phi", q.def.web, b, 0) /\ b # 1
                   /\ ReachesAt(dom, Src(P, q.def.web), <<b, 0>>)
  <2>1. /\ q.def.web \in Names(P)
        /\ q.named = NoName => q.def = Src(P, q.def.web)
        /\ q.named # NoName => q.def.web = q.named /\ Reaches(Src(P, q.named), <<b, 0>>)
    BY DEF IInv, InvPHIs, PHIOK
  <2>2. IF q.named = NoName THEN \E r \in P.phis[b] : q.def = Src(P, r.def)
        ELSE q.def = Val("phi", q.named, b, 0) /\ b # 1
    BY DEF InvSlots, PHIsNamed
  <2>3. CASE q.named = NoName
    <3>1. PICK r \in P.phis[b] : q.def = Src(P, r.def)
      BY <2>2, <2>3
    <3>2. DefPos(P, r.def) = <<b, 0>>
      BY <1>1 DEF WellFormed, SingleDefs
    <3>3. q.def.web = r.def
      BY <3>1 DEF Src, Val
    <3> QED
      BY <2>1, <3>1, <3>2, <3>3
  <2>4. CASE q.named # NoName
    BY <2>1, <2>2, <2>4 DEF Reaches, ReachesAt
  <2> QED
    BY <2>3, <2>4
<1>5. \A b \in Blocks(P) : \A r \in P.phis[b] : Src(P, r.def) \in pd[b]
  BY <1>3 DEF InvSlots, PHIsNamed
<1>6. Placed(P, dom, pd)
  BY <1>3, <1>4, <1>5 DEF Placed
<1> QED
  BY <1>1, <1>6 DEF Ground

Vers(n) == Versions(fn.P, PHIDefs(phis), n)

LEMMA CandidateFacts ==
  ASSUME IInv, Built, InvSlots, NEW v \in Candidates
  PROVE  /\ v.web \in Names(fn.P) /\ Located(fn.P, v)
         /\ v = Src(fn.P, v.web) \/ v \in Vers(v.web)
         /\ v.blk # 0 => v.idx \in 0 .. Len(fn.P.code[v.blk])
<1> DEFINE P == fn.P
<1>1. Ground(P, fn.dom, PHIDefs(phis)) /\ WellFormed(P)
  BY GroundHolds DEF Ground
<1>2. PICK n \in Names(P) : v \in Vers(n) \/ v = Src(P, n)
  BY DEF Candidates, Vers
<1>3. CASE v \in Vers(n)
  <2>1. v.web = n /\ Located(P, v)
    BY <1>1, <1>3, VersionFacts DEF Vers
  <2>2. v.blk # 0 /\ v.idx # 0 => v.idx \in 1 .. Len(P.code[v.blk])
    BY <1>1, <1>3, VersionFacts DEF Vers
  <2>3. v.blk # 0 => Len(P.code[v.blk]) \in Nat
    BY <1>1, <2>1 DEF WellFormed, WellTyped, Located
  <2> QED
    BY <1>3, <2>1, <2>2, <2>3
<1>4. CASE v = Src(P, n)
  <2>1. v.web = n /\ Located(P, v)
    BY <1>1, <1>4, FirstVersion
  <2>2. \/ n \in P.args /\ v.blk = 0
        \/ v.blk \in Blocks(P) /\ v.idx = 0
        \/ v.blk \in Blocks(P) /\ v.idx \in 1 .. Len(P.code[v.blk])
    BY <1>1, <1>4, SourceIs
  <2>3. v.blk # 0 => Len(P.code[v.blk]) \in Nat
    BY <1>1, <2>1 DEF WellFormed, WellTyped, Located
  <2> QED
    BY <1>4, <2>1, <2>2, <2>3
<1> QED
  BY <1>2, <1>3, <1>4

LEMMA VersionsAreCandidates ==
  \A n \in Names(fn.P) : Src(fn.P, n) \in Candidates /\ Vers(n) \subseteq Candidates
  BY DEF Candidates, Vers

\* What reaches the point has been passed.
LEMMA PointPassed ==
  ASSUME IInv, Built, InvSlots, stage \in {"phi", "inst", "edge"},
         NEW v \in Candidates, Reaches(v, Point)
  PROVE  v \in Passed
<1> DEFINE P == fn.P
<1>1. Located(P, v) /\ (v.blk # 0 => v.idx \in 0 .. Len(P.code[v.blk]))
  BY CandidateFacts
<1>2. CASE v.blk = 0
  BY <1>2 DEF Passed
<1>3. CASE v.blk # 0
  <2>1. /\ v.blk \in Blocks(P) /\ v.idx \in Nat /\ v.idx <= Len(P.code[v.blk]) /\ ~IsArgument(v)
        /\ Len(P.code[v.blk]) \in Nat
    <3>1. Len(P.code[v.blk]) \in Nat
      BY <1>1, <1>3, FnFacts DEF WellFormed, WellTyped, Located
    <3> QED
      BY <1>1, <1>3, <3>1 DEF Located
  <2>2. bb \in seen /\ fn.dom[bb] \subseteq seen
    BY DEF IInv, TypeOK, Built, Traversal
  <2>3. CASE v.blk = bb
    <3>1. Point[1] = bb /\ v.idx < Point[2]
      BY <2>1, <2>3 DEF Point, Reaches, Dominates, Terminator
    <3>2. CASE stage = "phi"
      BY <2>1, <3>1, <3>2 DEF Point
    <3>3. CASE stage = "inst"
      <4>1. v.idx < idx
        BY <3>1, <3>3 DEF Point
      <4>2. VisitedTo[bb] = idx /\ ~Waiting(v)
        BY <2>1, <2>2, <2>3, <3>3 DEF VisitedTo, Waiting
      <4> QED
        BY <2>2, <2>3, <4>1, <4>2 DEF Passed
    <3>4. CASE stage = "edge"
      <4>1. v.idx < VisitedTo[bb] /\ ~Waiting(v)
        BY <2>1, <2>2, <2>3, <3>4 DEF VisitedTo, Waiting
      <4> QED
        BY <2>2, <2>3, <4>1 DEF Passed
    <3> QED
      BY <3>2, <3>3, <3>4
  <2>4. CASE v.blk # bb
    <3>1. v.blk \in fn.dom[bb]
      BY <2>1, <2>4 DEF Point, Reaches, Dominates, Terminator
    <3>2. v.blk \in seen /\ ~Waiting(v)
      BY <2>2, <2>4, <3>1 DEF Waiting
    <3>3. VisitedTo[v.blk] = Len(P.code[v.blk]) + 1
      BY <2>1, <2>4, <3>2 DEF VisitedTo
    <3>4. v.idx < VisitedTo[v.blk]
      BY <2>1, <3>3
    <3> QED
      BY <3>2, <3>4 DEF Passed
  <2> QED
    BY <2>3, <2>4
<1> QED
  BY <1>2, <1>3

\* Nothing that has been passed is below a definition that is still to come.
LEMMA NothingBelow ==
  ASSUME IInv, Built, InvSlots, stage \in {"phi", "inst"}, VisitIsNewest,
         NEW d \in Passed, NEW w, w.blk = bb, w.idx \in Nat, stage = "inst" => w.idx >= idx
  PROVE  ~Above(fn.dom, w, d) /\ (stage = "inst" => d # w)
<1>1. d \in Candidates /\ (d.blk = 0 \/ (d.blk \in seen /\ d.idx < VisitedTo[d.blk]))
  BY DEF Passed
<1>2. Located(fn.P, d) /\ idx \in Nat
  BY <1>1, CandidateFacts DEF IInv, TypeOK
<1>3. bb \in Blocks(fn.P) /\ bb # 0 /\ bb \in seen
  BY DEF IInv, TypeOK, Blocks
<1>8. d.blk = bb => d.idx < IF stage = "phi" THEN 1 ELSE idx
  BY <1>1, <1>3 DEF VisitedTo
<1>9. stage = "inst" => d # w
  BY <1>1, <1>2, <1>3, <1>8 DEF Located
<1>4. ~IsArgument(w)
  BY <1>3 DEF IsArgument
<1>5. CASE d.blk = 0
  BY <1>3, <1>5, <1>9 DEF Above
<1>6. CASE d.blk = bb
  BY <1>2, <1>4, <1>6, <1>8, <1>9 DEF Above, ReachesAt, Dominates, Located
<1>7. CASE d.blk # 0 /\ d.blk # bb
  BY <1>1, <1>4, <1>7, <1>9 DEF Above, ReachesAt, Dominates, VisitIsNewest
<1> QED
  BY <1>5, <1>6, <1>7

LEMMA PassedSame ==
  ASSUME UNCHANGED <<fn, stage, phis, bb, seen, idx>>, todo' = todo, focus' = focus
  PROVE  /\ Passed' = Passed /\ Here' = Here /\ Point' = Point /\ VisitedTo' = VisitedTo
  BY DEF Passed, Candidates, Here, Point, VisitedTo, Waiting

LEMMA SlotsKept ==
  ASSUME InvSlots, UNCHANGED <<fn, phis>>, FocusIsPHI', FocusIsSlot',
         \A b \in Blocks(fn.P) : \A q \in phis[b] : \A x \in Preds(fn.P, b) :
            Pending(b, q, x)' <=> Pending(b, q, x)
  PROVE  InvSlots'
<1>1. PHIsNamed'
  BY DEF InvSlots, PHIsNamed
<1>2. ASSUME NEW b \in Blocks(fn.P), NEW q \in phis[b], NEW x \in Preds(fn.P, b),
             NEW n \in SlotNames(fn.P, b, q, x)
      PROVE  IF Pending(b, q, x)' THEN q.in[x] = Src(fn.P, n)
             ELSE LatestFor(n, Terminator(fn.P, x), q.in[x])
  BY DEF InvSlots, SlotsFilled
<1>3. SlotsFilled'
  BY <1>2 DEF SlotsFilled, LatestFor
<1> QED
  BY <1>1, <1>3 DEF InvSlots

LEMMA PendingSame ==
  ASSUME UNCHANGED <<stage, bb, seen, focus, todo>>, NEW b, NEW q, NEW x
  PROVE  Pending(b, q, x)' <=> Pending(b, q, x)
  BY DEF Pending, Unfilled

LEMMA JoinsKept ==
  ASSUME InvJoins, UNCHANGED <<fn, names_left, current>>, PHIDefs(phis') = PHIDefs(phis),
         stage' # "names", stage # "names" \/ (worklist = {} /\ names_left = {})
  PROVE  InvJoins'
<1>4. names_left' = {}
  BY DEF InvJoins
<1>1. current' \notin names_left'
  BY DEF InvJoins
<1>2. \A n \in names_left : \A b \in Blocks(fn.P) : ~HasPHI(PHIDefs(phis'), n, b)
  BY DEF InvJoins
<1>3. \A n \in Names(fn.P) \ names_left : \A b \in Blocks(fn.P) :
        b \in DefParents(fn.P, n) \/ HasPHI(PHIDefs(phis'), n, b) =>
          ClosedAt(fn.P, fn.dom, PHIDefs(phis'), n, b)
  BY DEF InvJoins
<1> QED
  BY <1>1, <1>2, <1>3, <1>4 DEF InvJoins

Tracked == InvChains /\ InvSlots /\ InvJoins

\* What a step that visits nothing keeps.
LEMMA TrackedKept ==
  ASSUME Tracked, stage # "names", UNCHANGED <<fn, stage, names_left, current, phis, bb, seen, idx>>,
         todo' = todo, focus' = focus, ChainsHold', WalkFollows', FoundIsLatest', FocusIsSlot'
  PROVE  Tracked'
<1>1. VisitIsNewest'
  BY DEF Tracked, InvChains, VisitIsNewest
<1>2. InvChains'
  BY <1>1 DEF InvChains
<1>3. FocusIsPHI'
  BY DEF Tracked, InvSlots, FocusIsPHI
<1>4. InvSlots'
  BY <1>3, SlotsKept, PendingSame DEF Tracked
<1>5. InvJoins'
  BY JoinsKept DEF Tracked
<1> QED
  BY <1>2, <1>4, <1>5 DEF Tracked

LEMMA WalkFacts ==
  ASSUME IInv, ~Idle
  PROVE  /\ stage \in {"phi", "inst", "edge"} /\ stage # "names" /\ walk.pt = Point
         /\ walk.var.web \in Names(fn.P) /\ walk.var = Src(fn.P, walk.var.web)
         /\ walk.cur \in DOMAIN rd /\ walk.cur.web = walk.var.web
         /\ NextDef = rd[walk.cur] /\ ReachesAt(fn.dom, walk.var, Point)
  BY DEF IInv, InvWalk, SourceAt, NextDef, Reaches, ReachesAt

\* The next definition in the chain is a version, or the name before its definition.
LEMMA NextDefFacts ==
  ASSUME IInv, Built, Tracked, ~Idle, NextDef # walk.var \/ ReachesAt(fn.dom, NextDef, Point)
  PROVE  NextDef \in Vers(walk.var.web) \cap Passed
<1> DEFINE n == walk.var.web
           c == NextDef
<1>1. /\ n \in Names(fn.P) /\ walk.var = Src(fn.P, n) /\ walk.cur \in DOMAIN rd
      /\ walk.cur.web = n /\ c = rd[walk.cur] /\ stage \in {"phi", "inst", "edge"}
      /\ stage # "names"
  BY WalkFacts
<1>2. \/ c \in Vers(n) \cap Passed
      \/ c = walk.cur /\ walk.cur = Src(fn.P, n) /\ walk.cur \notin Passed
  BY <1>1 DEF Tracked, InvChains, ChainsHold, Chains, Vers
<1>3. CASE c = walk.cur /\ walk.cur = Src(fn.P, n) /\ walk.cur \notin Passed
  <2>1. Reaches(c, Point) /\ c \in Candidates
    BY <1>1, <1>3, VersionsAreCandidates DEF Reaches, ReachesAt
  <2>2. c \in Passed
    BY <1>1, <2>1, PointPassed DEF Tracked
  <2> QED
    BY <1>3, <2>2
<1> QED
  BY <1>2, <1>3

LEMMA FollowChainTracked ==
  ASSUME IInv, Built, Tracked, FollowChain
  PROVE  Tracked'
<1> DEFINE n == walk.var.web
           c == NextDef
<1>1. /\ ~Idle /\ ~ChainEnds /\ walk' = [walk EXCEPT !.cur = c]
      /\ UNCHANGED <<fn, stage, names_left, current, phis, rd, bb, seen, idx, todo, focus, vals>>
  BY DEF FollowChain, insertVars, visitVars
<1>2. /\ stage # "names" /\ walk.pt = Point /\ n \in Names(fn.P) /\ walk.var = Src(fn.P, n)
      /\ walk.cur \in DOMAIN rd /\ c = rd[walk.cur]
  BY <1>1, WalkFacts
<1>3. c # walk.var /\ ~ReachesAt(fn.dom, c, walk.pt)
  BY <1>1 DEF ChainEnds, ReachesAt
<1>4. c \in Vers(n) \cap Passed
  BY <1>1, <1>3, NextDefFacts
<1>5. walk \in [var : Value, cur : Value, pt : Nat \X Nat]
  BY DEF IInv, TypeOK
<1>6. walk'.var = walk.var /\ walk'.cur = c /\ walk'.pt = walk.pt
  BY <1>1, <1>5
<1>7. c.web = n
  BY <1>2, <1>4, GroundHolds, VersionFacts DEF Tracked, Vers
<1>8. c \in DOMAIN rd
  <2>1. IInv'
    BY <1>1, FollowChainStep
  <2>2. ~Idle'
    <3>1. NextDef # Null
      BY <1>1 DEF ChainEnds
    <3> QED
      BY <1>6, <3>1 DEF Idle, NoWalk
  <2>3. (walk.cur \in DOMAIN rd)'
    BY <2>1, <2>2 DEF IInv, InvWalk
  <2> QED
    BY <1>1, <1>6, <2>3
<1>9. ASSUME NEW e \in Vers(n) \cap Passed, ReachesAt(fn.dom, e, walk.pt)
      PROVE  UpTo(fn.dom, e, rd[c])
  <2>1. UpTo(fn.dom, e, c)
    BY <1>1, <1>2, <1>9 DEF Tracked, InvChains, WalkFollows, Vers
  <2>2. Above(fn.dom, e, c)
    BY <1>3, <1>9, <2>1 DEF UpTo
  <2>3. \A d \in DOMAIN rd : d # Src(fn.P, d.web) =>
          \A x \in Vers(d.web) \cap Passed : Above(fn.dom, x, d) => UpTo(fn.dom, x, rd[d])
    BY <1>2 DEF Tracked, InvChains, ChainsHold, Chains, Vers
  <2> QED
    BY <1>2, <1>3, <1>7, <1>8, <1>9, <2>2, <2>3
<1>10. Passed' = Passed /\ Here' = Here /\ Point' = Point
  BY <1>1, PassedSame
<1>11. WalkFollows'
  BY <1>1, <1>6, <1>9, <1>10 DEF WalkFollows, Vers
<1>12. ChainsHold' /\ FoundIsLatest'
  BY <1>1, <1>2, <1>10 DEF Tracked, InvChains, ChainsHold, FoundIsLatest, LatestFor
<1>13. FocusIsSlot'
  BY <1>1, <1>6 DEF Tracked, InvSlots, FocusIsSlot, Idle
<1> QED
  BY <1>1, <1>2, <1>11, <1>12, <1>13, TrackedKept

\* The inserted PHI that is being visited is a version not passed yet.
LEMMA PHIFocus ==
  ASSUME IInv, Built, InvSlots, stage = "phi", focus # NoFocus
  PROVE  /\ focus = <<bb, focus[2]>> /\ bb \in Blocks(fn.P)
         /\ focus[2].web \in Names(fn.P) /\ focus[2] \in Vers(focus[2].web)
         /\ focus[2].blk = bb /\ focus[2].idx = 0 /\ focus[2].kind = "phi"
         /\ focus[2] \notin Passed /\ \A q \in todo : q.def # focus[2]
<1> DEFINE w == focus[2]
<1>1. focus = <<bb, w>>
  BY DEF InvSlots, FocusIsPHI
<1>2. PICK q \in phis[bb] \ todo : q.def = w /\ q.named # NoName
  BY DEF InvSlots, FocusIsPHI
<1>3. bb \in Blocks(fn.P) /\ todo \subseteq phis[bb] /\ DOMAIN phis = Blocks(fn.P)
  BY DEF IInv, TypeOK, InvTodo
<1>4. w = Val("phi", q.named, bb, 0) /\ \A r \in phis[bb] : r.def = q.def => r = q
  BY <1>2, <1>3 DEF InvSlots, PHIsNamed
<1>5. w.web = q.named /\ w.blk = bb /\ w.idx = 0 /\ w.kind = "phi"
  BY <1>4 DEF Val
<1>6. w.web \in Names(fn.P)
  BY <1>2, <1>3 DEF IInv, InvPHIs, PHIOK
<1>7. w \in Vers(w.web)
  <2>1. w \in PHIDefs(phis)[bb]
    BY <1>2, <1>3 DEF PHIDefs
  <2> QED
    BY <1>3, <2>1 DEF Vers, Versions
<1>8. \A r \in todo : r.def # w
  BY <1>2, <1>3, <1>4
<1>9. w \notin Passed
  BY <1>1, <1>3, <1>5 DEF Passed, Waiting, Blocks
<1> QED
  BY <1>1, <1>3, <1>5, <1>6, <1>7, <1>8, <1>9

LEMMA EndChainTracked ==
  ASSUME IInv, Built, Tracked, EndChain
  PROVE  Tracked'
<1> DEFINE n == walk.var.web
           c == NextDef
<1>1. /\ ~Idle /\ walk' = NoWalk /\ rd' = SetDef(rd, walk.var, c) /\ vals' = Append(vals, c)
      /\ UNCHANGED <<fn, stage, names_left, current, phis, bb, seen, idx, todo, focus>>
  BY DEF EndChain, insertVars, visitVars
<1>2. /\ stage \in {"phi", "inst", "edge"} /\ stage # "names" /\ walk.pt = Point
      /\ n \in Names(fn.P) /\ walk.var = Src(fn.P, n)
      /\ walk.cur \in DOMAIN rd /\ c = rd[walk.cur]
  BY <1>1, WalkFacts
<1>3. Passed' = Passed /\ Here' = Here /\ Point' = Point
  BY <1>1, PassedSame
<1>4. vals \in Seq(Value) /\ Len(vals') = Len(vals) + 1 /\ vals'[Len(vals) + 1] = c
      /\ DOMAIN vals' = 1 .. Len(vals) + 1 /\ DOMAIN vals = 1 .. Len(vals) /\ Len(vals) \in Nat
      /\ \A k \in DOMAIN vals : vals'[k] = vals[k]
  BY <1>1 DEF IInv, TypeOK
<1>5. ReachesAt(fn.dom, c, Point)
  <2>1. IInv'
    BY EndChainStep
  <2>2. \A i \in 1 .. Len(vals') :
          IsArgument(vals'[i]) \/ Dominates(fn'.dom, vals'[i], Point')
    BY <2>1 DEF IInv, InvVals, Reaches
  <2>3. Len(vals) + 1 \in 1 .. Len(vals')
    BY <1>4
  <2>5. IsArgument(c) \/ Dominates(fn.dom, c, Point)
    BY <1>1, <1>3, <1>4, <2>2, <2>3
  <2> QED
    BY <2>5 DEF ReachesAt
<1>6. c \in Vers(n) \cap Passed
  BY <1>1, <1>5, NextDefFacts
<1>7. Ground(fn.P, fn.dom, PHIDefs(phis)) /\ c.web = n
  BY <1>2, <1>6, GroundHolds, VersionFacts DEF Tracked, Vers
<1>8. \A e \in Vers(n) \cap Passed : ReachesAt(fn.dom, e, Point) => UpTo(fn.dom, e, c)
  BY <1>1, <1>2 DEF Tracked, InvChains, WalkFollows, Vers
<1>9. ASSUME NEW e \in Vers(n) \cap Passed, ReachesAt(fn.dom, e, Here)
      PROVE  UpTo(fn.dom, e, c)
  <2>1. CASE stage # "phi"
    BY <1>8, <1>9, <2>1 DEF Here
  <2>2. CASE stage = "phi"
    <3>1. focus # NoFocus /\ n = focus[2].web
      BY <1>1, <2>2 DEF IInv, InvWalk
    <3>2. /\ focus[2] \in Vers(n) /\ focus[2].blk = bb /\ focus[2].idx = 0
          /\ focus[2] \notin Passed
      BY <2>2, <3>1, PHIFocus DEF Tracked
    <3>3. e # focus[2]
      BY <1>9, <3>2
    <3>4. ~(e.blk = bb /\ e.idx = 0)
      BY <1>2, <1>7, <1>9, <3>2, <3>3, OneVersion DEF Vers
    <3>5. Located(fn.P, e)
      BY <1>2, <1>7, <1>9, VersionFacts DEF Vers
    <3>6. IsArgument(e) \/ Dominates(fn.dom, e, <<bb, 1>>)
      BY <1>9, <2>2 DEF Here, ReachesAt
    <3>7. ReachesAt(fn.dom, e, <<bb, 0>>)
      BY <3>4, <3>5, <3>6 DEF Located, ReachesAt, Dominates
    <3> QED
      BY <1>8, <1>9, <2>2, <3>7 DEF Point
  <2> QED
    BY <2>1, <2>2
<1>10. ChainsHold'
  <2>1. Chains(fn.P, fn.dom, PHIDefs(phis), Passed, rd, Here)
    BY <1>2 DEF Tracked, InvChains, ChainsHold
  <2>2. Chains(fn.P, fn.dom, PHIDefs(phis), Passed, SetDef(rd, Src(fn.P, n), c), Here)
    BY <1>2, <1>6, <1>7, <1>9, <2>1, ChainsAsk DEF Vers
  <2> QED
    BY <1>1, <1>2, <1>3, <2>2 DEF ChainsHold
<1>11. LatestFor(n, Point, c)
  <2>1. ASSUME NEW e \in Vers(n), ReachesAt(fn.dom, e, Point)
        PROVE  UpTo(fn.dom, e, c)
    <3>1. e \in Candidates /\ Reaches(e, Point)
      BY <1>2, <2>1, VersionsAreCandidates DEF Reaches, ReachesAt
    <3>2. e \in Passed
      BY <1>2, <3>1, PointPassed DEF Tracked
    <3> QED
      BY <1>8, <2>1, <3>2
  <2> QED
    BY <1>5, <1>6, <2>1 DEF LatestFor, Latest, Vers
<1>12. FoundIsLatest'
  <2>1. \A k \in DOMAIN vals : LatestFor(vals[k].web, Point, vals[k])
    BY <1>2 DEF Tracked, InvChains, FoundIsLatest
  <2>2. \A k \in DOMAIN vals' : LatestFor(vals'[k].web, Point, vals'[k])
    BY <1>4, <1>7, <1>11, <2>1
  <2> QED
    BY <1>1, <1>3, <2>2 DEF FoundIsLatest, LatestFor
<1>13. WalkFollows'
  BY <1>1 DEF WalkFollows, Idle
<1>14. FocusIsSlot'
  <2> SUFFICES ASSUME stage = "edge", focus # NoFocus
               PROVE  /\ focus[1] \in fn.P.succ[bb]
                      /\ \E q \in phis[focus[1]] :
                           q.def = focus[2] /\ \A k \in DOMAIN vals' : vals'[k].web = q.in[bb].web
    BY <1>1 DEF FocusIsSlot, Idle
  <2>1. PICK q \in phis[focus[1]] : q.def = focus[2] /\ walk.var = q.in[bb]
                                    /\ \A k \in DOMAIN vals : vals[k].web = q.in[bb].web
    BY <1>1 DEF Tracked, InvSlots, FocusIsSlot
  <2>2. \A k \in DOMAIN vals' : vals'[k].web = q.in[bb].web
    BY <1>4, <1>7, <2>1
  <2> QED
    BY <2>1, <2>2 DEF Tracked, InvSlots, FocusIsSlot
<1> QED
  BY <1>1, <1>2, <1>10, <1>12, <1>13, <1>14, TrackedKept

\* A walk for name n begins at the point.
LEMMA SeekFollows ==
  ASSUME IInv, Built, Tracked, stage \in {"phi", "inst", "edge"},
         NEW n \in Names(fn.P), NEW e \in Vers(n) \cap Passed, ReachesAt(fn.dom, e, Point)
  PROVE  UpTo(fn.dom, e, rd[Src(fn.P, n)])
<1>1. ReachesAt(fn.dom, e, Here)
  <2>1. CASE stage # "phi"
    BY <2>1 DEF Here
  <2>2. CASE stage = "phi"
    <3>1. Located(fn.P, e)
      BY GroundHolds, VersionFacts DEF Tracked, Vers
    <3> QED
      BY <2>2, <3>1 DEF Here, Point, ReachesAt, Dominates, Located
  <2> QED
    BY <2>1, <2>2
<1> QED
  BY <1>1 DEF Tracked, InvChains, ChainsHold, Chains, Vers

LEMMA SeekOperandTracked ==
  ASSUME IInv, Built, Tracked, SeekOperand
  PROVE  Tracked'
<1> DEFINE n == Resolved(inst)[Len(vals) + 1]
<1>1. /\ AtInst /\ Len(vals) < Len(Resolved(inst))
      /\ walk' = [var |-> Src(fn.P, n), cur |-> Src(fn.P, n), pt |-> <<bb, idx>>]
      /\ UNCHANGED <<fn, stage, names_left, current, phis, rd, bb, seen, idx, todo, focus, vals>>
  BY DEF SeekOperand, Seek, insertVars, visitVars
<1>2. stage = "inst"
  BY <1>1 DEF AtInst
<1>3. n \in Names(fn.P)
  <2>1. Resolved(inst) \in Seq(Names(fn.P))
    BY <1>1, AtInstFacts DEF Resolved
  <2>2. Len(vals) + 1 \in 1 .. Len(Resolved(inst))
    BY <1>1, <2>1 DEF IInv, TypeOK
  <2> HIDE DEF n
  <2> QED
    BY <2>1, <2>2 DEF n
<1> HIDE DEF n
<1>4. Src(fn.P, n).web = n
  BY <1>3, GroundHolds, FirstVersion DEF Tracked
<1>5. Passed' = Passed /\ Here' = Here /\ Point' = Point
  BY <1>1, PassedSame
<1>6. WalkFollows'
  <2>1. \A e \in Vers(n) \cap Passed : ReachesAt(fn.dom, e, <<bb, idx>>) =>
          UpTo(fn.dom, e, rd[Src(fn.P, n)])
    BY <1>2, <1>3, SeekFollows DEF Point
  <2> QED
    BY <1>1, <1>4, <1>5, <2>1 DEF WalkFollows, Vers
<1>7. ChainsHold' /\ FoundIsLatest'
  BY <1>1, <1>2, <1>5 DEF Tracked, InvChains, ChainsHold, FoundIsLatest, LatestFor
<1>8. FocusIsSlot'
  BY <1>1, <1>2 DEF FocusIsSlot
<1> QED
  BY <1>1, <1>2, <1>6, <1>7, <1>8, TrackedKept

LEMMA TrackedStep ==
  ASSUME Tracked, stage # "names", stage' # "names", UNCHANGED <<fn, phis, names_left, current>>,
         ChainsHold', WalkFollows', FoundIsLatest', VisitIsNewest', FocusIsPHI', FocusIsSlot',
         \A b \in Blocks(fn.P) : \A q \in phis[b] : \A x \in Preds(fn.P, b) :
            Pending(b, q, x)' <=> Pending(b, q, x)
  PROVE  Tracked'
<1>1. InvSlots'
  BY SlotsKept DEF Tracked
<1>2. InvJoins'
  BY JoinsKept DEF Tracked
<1> QED
  BY <1>1, <1>2 DEF Tracked, InvChains

\* One PHI more has been passed.
LEMMA PassedPHI ==
  ASSUME stage = "phi", UNCHANGED <<fn, stage, phis, bb, seen, idx>>, bb \in seen, bb \in Blocks(fn.P),
         NEW w \in Candidates, w.blk = bb, w.idx = 0, ~Waiting(w)',
         \A v : v # w => (Waiting(v)' <=> Waiting(v))
  PROVE  Passed' = Passed \cup {w} /\ Here' = <<bb, 1>> /\ Here = <<bb, 1>> /\ Point = <<bb, 0>>
<1>1. Candidates' = Candidates /\ VisitedTo' = VisitedTo
  BY DEF Candidates, VisitedTo
<1>2. w.idx < VisitedTo[w.blk]
  BY DEF VisitedTo
<1>3. Here' = <<bb, 1>> /\ Here = <<bb, 1>> /\ Point = <<bb, 0>>
  BY DEF Here, Point
<1>4. ASSUME NEW v, v # w PROVE v \in Passed' <=> v \in Passed
  BY <1>1, <1>4 DEF Passed
<1>5. w \in Passed'
  BY <1>1, <1>2 DEF Passed
<1> QED
  BY <1>3, <1>4, <1>5

\* A version defined where the visit is comes after all that have been passed.
LEMMA NewestVersion ==
  ASSUME IInv, Built, Tracked, stage \in {"phi", "inst"}, NEW n \in Names(fn.P),
         NEW w \in Vers(n), w.blk = bb, w.idx = IF stage = "phi" THEN 0 ELSE idx,
         NEW e \in Vers(n) \cap Passed
  PROVE  /\ ~Above(fn.dom, w, e)
         /\ ReachesAt(fn.dom, e, <<bb, w.idx + 1>>) => UpTo(fn.dom, e, w)
         /\ Above(fn.dom, e, w) => ReachesAt(fn.dom, e, Point)
<1>1. bb \in Blocks(fn.P) /\ idx \in Nat /\ bb # 0
  BY DEF IInv, TypeOK, Blocks
<1>2. w.idx \in Nat
  BY <1>1
<1>3. ~Above(fn.dom, w, e)
  <2>1. stage = "inst" => w.idx >= idx
    BY <1>1
  <2>2. VisitIsNewest
    BY DEF Tracked, InvChains
  <2> QED
    BY <1>2, <2>1, <2>2, NothingBelow DEF Tracked
<1>4. ASSUME ReachesAt(fn.dom, e, <<bb, w.idx + 1>>)
      PROVE  UpTo(fn.dom, e, w)
  <2>1. ReachesAt(fn.dom, w, <<bb, w.idx + 1>>)
    BY <1>2 DEF ReachesAt, Dominates
  <2>2. IsPoint(fn.P, <<bb, w.idx + 1>>)
    <3>1. w.idx + 1 \in Nat
      BY <1>2
    <3> QED
      BY <1>1, <3>1 DEF IsPoint
  <2>3. Ground(fn.P, fn.dom, PHIDefs(phis))
    BY GroundHolds DEF Tracked
  <2> QED
    BY <1>3, <1>4, <2>1, <2>2, <2>3, VersionOrder DEF Vers
<1>5. Point = <<w.blk, w.idx>>
  BY DEF Point
<1> QED
  BY <1>3, <1>4, <1>5 DEF Above

LEMMA VisitSourcePHITracked ==
  ASSUME IInv, Built, Tracked, NEW q \in todo, VisitSourcePHI(q)
  PROVE  Tracked'
<1> DEFINE w == q.def
           m == w.web
<1>1. /\ stage = "phi" /\ focus = NoFocus /\ q.named = NoName
      /\ rd' = SetDef(rd, w, w) /\ todo' = todo \ {q}
      /\ UNCHANGED <<fn, stage, names_left, current, phis, bb, seen, idx, focus, vals, walk>>
  BY DEF VisitSourcePHI, insertVars
<1>2. bb \in Blocks(fn.P) /\ bb \in seen /\ q \in phis[bb] /\ todo \subseteq phis[bb] /\ bb # 0
  BY <1>1 DEF IInv, TypeOK, InvTodo, Blocks
<1>3. Ground(fn.P, fn.dom, PHIDefs(phis)) /\ WellFormed(fn.P)
  BY GroundHolds DEF Tracked, Ground
<1>4. /\ m \in Names(fn.P) /\ w = Src(fn.P, m) /\ w.blk = bb /\ w.idx = 0 /\ w \in Vers(m)
  <2>1. m \in Names(fn.P) /\ w = Src(fn.P, m)
    BY <1>1, <1>2 DEF IInv, InvPHIs, PHIOK
  <2>2. PICK r \in fn.P.phis[bb] : w = Src(fn.P, r.def)
    BY <1>1, <1>2 DEF Tracked, InvSlots, PHIsNamed
  <2>3. DefPos(fn.P, r.def) = <<bb, 0>>
    BY <1>2, <1>3 DEF WellFormed, SingleDefs
  <2>4. w.blk = bb /\ w.idx = 0
    BY <2>2, <2>3 DEF Src, Val
  <2> QED
    BY <1>3, <2>1, <2>4, FirstVersion DEF Vers
<1>5. \A r \in todo : r # q => r.def # w
  BY <1>2 DEF Tracked, InvSlots, PHIsNamed
<1>6. Passed' = Passed \cup {w} /\ Here' = <<bb, 1>> /\ Here = <<bb, 1>>
  <2>1. ~Waiting(w)'
    BY <1>1, <1>2, <1>5 DEF Waiting, NoFocus
  <2>2. \A v : v # w => (Waiting(v)' <=> Waiting(v))
    BY <1>1 DEF Waiting
  <2>3. w \in Candidates
    BY <1>4, VersionsAreCandidates
  <2> QED
    BY <1>1, <1>2, <1>4, <2>1, <2>2, <2>3, PassedPHI
<1>7. ChainsHold'
  <2>1. Chains(fn.P, fn.dom, PHIDefs(phis), Passed, rd, <<bb, 1>>)
    BY <1>1, <1>6 DEF Tracked, InvChains, ChainsHold
  <2>2. \A e \in Vers(m) \cap Passed :
          ~Above(fn.dom, w, e) /\ (ReachesAt(fn.dom, e, <<bb, 1>>) => UpTo(fn.dom, e, w))
    BY <1>1, <1>4, NewestVersion
  <2>3. w \in DOMAIN rd
    BY <1>4, <2>1 DEF Chains
  <2>4. DOMAIN rd' = DOMAIN rd /\ rd'[w] = w /\ \A x \in DOMAIN rd : x # w => rd'[x] = rd[x]
    BY <1>1, <2>3 DEF SetDef
  <2>5. Chains(fn.P, fn.dom, PHIDefs(phis), Passed \cup {w}, rd', <<bb, 1>>)
    BY <1>3, <1>4, <2>1, <2>2, <2>4, ChainsStart DEF Vers
  <2> QED
    BY <1>1, <1>6, <2>5 DEF ChainsHold
<1>8. vals = << >> /\ Idle
  BY <1>1 DEF IInv, InvVals
<1>9. WalkFollows' /\ FoundIsLatest' /\ VisitIsNewest' /\ FocusIsPHI' /\ FocusIsSlot'
  BY <1>1, <1>8 DEF WalkFollows, FoundIsLatest, VisitIsNewest, FocusIsPHI, FocusIsSlot, Idle,
                    Tracked, InvChains
<1>10. \A b \in Blocks(fn.P) : \A r \in phis[b] : \A x \in Preds(fn.P, b) :
         Pending(b, r, x)' <=> Pending(b, r, x)
  BY <1>1 DEF Pending, Unfilled
<1> QED
  BY <1>1, <1>7, <1>9, <1>10, TrackedStep

LEMMA SeekPHITracked ==
  ASSUME IInv, Built, Tracked, NEW q \in todo, SeekPHI(q)
  PROVE  Tracked'
<1> DEFINE n == q.named
<1>1. /\ stage = "phi" /\ focus = NoFocus /\ n # NoName
      /\ focus' = <<bb, q.def>> /\ todo' = todo \ {q}
      /\ walk' = [var |-> Src(fn.P, n), cur |-> Src(fn.P, n), pt |-> <<bb, 0>>]
      /\ UNCHANGED <<fn, stage, names_left, current, phis, rd, bb, seen, idx, vals>>
  BY DEF SeekPHI, Seek, insertVars
<1>2. bb \in Blocks(fn.P) /\ q \in phis[bb] /\ todo \subseteq phis[bb] /\ bb # 0
  BY <1>1 DEF IInv, TypeOK, InvTodo, Blocks
<1>3. n \in Names(fn.P)
  BY <1>1, <1>2 DEF IInv, InvPHIs, PHIOK
<1>4. Src(fn.P, n).web = n
  BY <1>3, GroundHolds, FirstVersion DEF Tracked
<1>5. Passed' = Passed /\ Here' = Here
  <2>1. \A v : Waiting(v)' <=> Waiting(v)
    BY <1>1, <1>2 DEF Waiting, NoFocus
  <2> QED
    BY <1>1, <2>1 DEF Passed, Candidates, VisitedTo, Here, Point
<1>6. WalkFollows'
  <2>1. \A e \in Vers(n) \cap Passed : ReachesAt(fn.dom, e, <<bb, 0>>) =>
          UpTo(fn.dom, e, rd[Src(fn.P, n)])
    BY <1>1, <1>3, SeekFollows DEF Point
  <2> QED
    BY <1>1, <1>4, <1>5, <2>1 DEF WalkFollows, Vers
<1>7. ChainsHold'
  BY <1>1, <1>5 DEF Tracked, InvChains, ChainsHold
<1>8. vals = << >>
  BY <1>1 DEF IInv, InvVals
<1>9. FoundIsLatest' /\ VisitIsNewest' /\ FocusIsSlot'
  BY <1>1, <1>8 DEF FoundIsLatest, VisitIsNewest, FocusIsSlot, Tracked, InvChains
<1>10. FocusIsPHI'
  BY <1>1, <1>2 DEF FocusIsPHI
<1>11. \A b \in Blocks(fn.P) : \A r \in phis[b] : \A x \in Preds(fn.P, b) :
         Pending(b, r, x)' <=> Pending(b, r, x)
  BY <1>1 DEF Pending, Unfilled
<1> QED
  BY <1>1, <1>6, <1>7, <1>9, <1>10, <1>11, TrackedStep

LEMMA VisitInsertedPHITracked ==
  ASSUME IInv, Built, Tracked, VisitInsertedPHI
  PROVE  Tracked'
<1>13. PICK w : w = focus[2]
  OBVIOUS
<1>14. PICK z : z = vals[1]
  OBVIOUS
<1> DEFINE n == w.web
<1>1. /\ stage = "phi" /\ Idle /\ focus # NoFocus /\ vals' = << >> /\ focus' = NoFocus
      /\ rd' = SetDef(SetDef(rd, Src(fn.P, n), w), w, z)
      /\ UNCHANGED <<fn, stage, names_left, current, phis, bb, seen, idx, todo, walk>>
  BY <1>13, <1>14 DEF VisitInsertedPHI, insertVars
<1>2. /\ focus = <<bb, w>> /\ bb \in Blocks(fn.P) /\ n \in Names(fn.P) /\ w \in Vers(n)
      /\ w.blk = bb /\ w.idx = 0 /\ w.kind = "phi" /\ \A q \in todo : q.def # w
  BY <1>1, <1>13, PHIFocus DEF Tracked
<1>3. Ground(fn.P, fn.dom, PHIDefs(phis)) /\ WellFormed(fn.P)
  BY GroundHolds DEF Tracked, Ground
<1>4. bb \in seen /\ bb # 0
  BY <1>2 DEF IInv, TypeOK, Blocks
<1>5. 1 \in DOMAIN vals /\ z.web = n
  BY <1>1, <1>13, <1>14 DEF IInv, InvVals, TypeOK
<1>6. Passed' = Passed \cup {w} /\ Here' = <<bb, 1>> /\ Here = <<bb, 1>> /\ Point = <<bb, 0>>
  <2>1. ~Waiting(w)'
    BY <1>1, <1>2, <1>4 DEF Waiting, NoFocus
  <2>2. \A v : v # w => (Waiting(v)' <=> Waiting(v))
    BY <1>1, <1>2, <1>4 DEF Waiting, NoFocus
  <2>3. w \in Candidates
    BY <1>2, VersionsAreCandidates
  <2> QED
    BY <1>1, <1>2, <1>4, <2>1, <2>2, <2>3, PassedPHI
<1>7. Latest(fn.P, fn.dom, PHIDefs(phis), n, Point, z)
  BY <1>1, <1>5, <1>14 DEF Tracked, InvChains, FoundIsLatest, LatestFor
<1>8. z \in Vers(n) \cap Passed
  <2>1. z \in Vers(n) /\ Reaches(z, Point)
    BY <1>7 DEF Latest, Vers, Reaches, ReachesAt
  <2> QED
    BY <1>1, <1>2, <2>1, PointPassed, VersionsAreCandidates DEF Tracked
<1>9. ChainsHold'
  <2>1. Chains(fn.P, fn.dom, PHIDefs(phis), Passed, rd, <<bb, 1>>)
    BY <1>1, <1>6 DEF Tracked, InvChains, ChainsHold
  <2>2. ASSUME NEW e \in Vers(n) \cap Passed
        PROVE  /\ ~Above(fn.dom, w, e) /\ (Above(fn.dom, e, w) => UpTo(fn.dom, e, z))
               /\ ReachesAt(fn.dom, e, <<bb, 1>>) => UpTo(fn.dom, e, w)
    <3>1. /\ ~Above(fn.dom, w, e)
          /\ ReachesAt(fn.dom, e, <<bb, 1>>) => UpTo(fn.dom, e, w)
          /\ Above(fn.dom, e, w) => ReachesAt(fn.dom, e, Point)
      BY <1>1, <1>2, NewestVersion
    <3> QED
      BY <1>7, <3>1 DEF Latest, Vers
  <2>3. w # Src(fn.P, n)
    BY <1>2, <1>3, SrcFields
  <2>4. Chains(fn.P, fn.dom, PHIDefs(phis), Passed \cup {w},
               SetDef(SetDef(rd, Src(fn.P, n), w), w, z), <<bb, 1>>)
    BY <1>2, <1>3, <1>8, <2>1, <2>2, <2>3, ChainsPush DEF Vers
  <2> QED
    BY <1>1, <1>6, <2>4 DEF ChainsHold
<1>10. WalkFollows' /\ FoundIsLatest' /\ VisitIsNewest' /\ FocusIsPHI' /\ FocusIsSlot'
  BY <1>1 DEF WalkFollows, FoundIsLatest, VisitIsNewest, FocusIsPHI, FocusIsSlot, Idle,
              Tracked, InvChains
<1>11. \A b \in Blocks(fn.P) : \A r \in phis[b] : \A x \in Preds(fn.P, b) :
         Pending(b, r, x)' <=> Pending(b, r, x)
  BY <1>1 DEF Pending, Unfilled
<1> QED
  BY <1>1, <1>9, <1>10, <1>11, TrackedStep

LEMMA EndPHIsTracked ==
  ASSUME IInv, Built, Tracked, EndPHIs
  PROVE  Tracked'
<1>1. /\ stage = "phi" /\ todo = {} /\ focus = NoFocus /\ stage' = "inst" /\ idx' = 1
      /\ UNCHANGED <<fn, names_left, current, phis, rd, bb, seen, todo, focus, vals, walk>>
  BY DEF EndPHIs, insertVars
<1>2. bb # 0 /\ bb \in seen
  BY DEF IInv, TypeOK, Blocks
<1>3. vals = << >> /\ Idle
  BY <1>1 DEF IInv, InvVals
<1>4. Passed' = Passed /\ Here' = Here
  <2>1. VisitedTo' = VisitedTo
    BY <1>1, <1>2 DEF VisitedTo
  <2>2. \A v : ~Waiting(v) /\ ~Waiting(v)'
    BY <1>1, <1>2 DEF Waiting, NoFocus
  <2> QED
    BY <1>1, <2>1, <2>2 DEF Passed, Candidates, Here, Point
<1>5. ChainsHold'
  BY <1>1, <1>4 DEF Tracked, InvChains, ChainsHold
<1>6. WalkFollows' /\ FoundIsLatest' /\ VisitIsNewest' /\ FocusIsPHI' /\ FocusIsSlot'
  BY <1>1, <1>3 DEF WalkFollows, FoundIsLatest, VisitIsNewest, FocusIsPHI, FocusIsSlot, Idle,
              Tracked, InvChains
<1>7. \A b \in Blocks(fn.P) : \A r \in phis[b] : \A x \in Preds(fn.P, b) :
        Pending(b, r, x)' <=> Pending(b, r, x)
  BY <1>1 DEF Pending, Unfilled
<1> QED
  BY <1>1, <1>5, <1>6, <1>7, TrackedStep

-----------------------------------------------------------------------------
(* The latest versions.  Instructions. *)

\* The version of n that the instruction of the visit makes.
New(n) == Renamed(fn.P, n, bb, idx)

LEMMA NewFacts ==
  ASSUME IInv, Built, Tracked, AtInst, NEW n \in Names(fn.P)
  PROVE  /\ Redefines(inst, n) => /\ New(n) \in Vers(n) /\ New(n).web = n
                                  /\ New(n).blk = bb /\ New(n).idx = idx
                                  /\ New(n).kind = "src" => New(n) = Src(fn.P, n)
         /\ \A v \in Vers(n) : v.blk = bb /\ v.idx = idx => Redefines(inst, n) /\ v = New(n)
         /\ Src(fn.P, n).blk = bb /\ Src(fn.P, n).idx = idx => inst.def = n
         /\ inst.def = n => DefPos(fn.P, n) = <<bb, idx>>
                            /\ Src(fn.P, n).blk = bb /\ Src(fn.P, n).idx = idx
<1>1. /\ bb \in Blocks(fn.P) /\ bb # 0 /\ idx \in 1 .. Len(fn.P.code[bb]) /\ idx # 0
      /\ inst = fn.P.code[bb][idx]
  BY AtInstFacts DEF Blocks
<1>2. Ground(fn.P, fn.dom, PHIDefs(phis)) /\ WellFormed(fn.P)
  BY GroundHolds DEF Tracked, Ground
<1>3. ASSUME Redefines(inst, n)
      PROVE  /\ New(n) \in Vers(n) /\ New(n).web = n /\ New(n).blk = bb /\ New(n).idx = idx
             /\ New(n).kind = "src" => New(n) = Src(fn.P, n)
  <2>1. New(n) \in Vers(n)
    BY <1>1, <1>3 DEF Vers, Versions, New
  <2> QED
    BY <1>1, <1>2, <1>3, <2>1, RenamedFields DEF New
<1>4. ASSUME NEW v \in Vers(n), v.blk = bb, v.idx = idx
      PROVE  Redefines(inst, n) /\ v = New(n)
  <2>1. /\ Redefines(fn.P.code[v.blk][v.idx], n) /\ v = Renamed(fn.P, n, v.blk, v.idx)
    BY <1>1, <1>2, <1>4, VersionFacts DEF Vers
  <2> QED
    BY <1>1, <1>4, <2>1 DEF New
<1>5. Src(fn.P, n).blk = bb /\ Src(fn.P, n).idx = idx => inst.def = n
  BY <1>1, <1>2, SourceIs DEF Blocks
<1>6. ASSUME inst.def = n
      PROVE  /\ DefPos(fn.P, n) = <<bb, idx>>
             /\ Src(fn.P, n).blk = bb /\ Src(fn.P, n).idx = idx
  <2>1. inst.def # NoName
    BY <1>6, NoNameIsNoName
  <2>2. DefPos(fn.P, n) = <<bb, idx>>
    BY <1>1, <1>2, <1>6, <2>1 DEF WellFormed, SingleDefs
  <2> QED
    BY <2>2 DEF Src, Val
<1> QED
  BY <1>3, <1>4, <1>5, <1>6

LEMMA PassedBefore ==
  ASSUME IInv, stage = "inst", NEW e \in Passed, e.blk = bb
  PROVE  e.idx < idx
<1>1. bb \in Blocks(fn.P) /\ bb \in seen /\ bb # 0
  BY DEF IInv, TypeOK, Blocks
<1>2. VisitedTo[bb] = idx
  BY <1>1 DEF VisitedTo
<1> QED
  BY <1>1, <1>2 DEF Passed

After == <<bb, idx + 1>>

LEMMA ChainsEnter ==
  ASSUME IInv, Built, Tracked, AtInst
  PROVE  Chains(fn.P, fn.dom, PHIDefs(phis), Passed, rd, After)
<1>1. stage = "inst" /\ Here = <<bb, idx>> /\ Point = <<bb, idx>> /\ stage # "names"
  BY DEF AtInst, Here, Point
<1>2. Chains(fn.P, fn.dom, PHIDefs(phis), Passed, rd, <<bb, idx>>)
  BY <1>1 DEF Tracked, InvChains, ChainsHold
<1>3. ASSUME NEW n \in Names(fn.P), NEW e \in Vers(n) \cap Passed, ReachesAt(fn.dom, e, After)
      PROVE  ReachesAt(fn.dom, e, <<bb, idx>>)
  <2>1. Located(fn.P, e)
    BY GroundHolds, VersionFacts DEF Tracked, Vers
  <2>2. e.blk = bb => e.idx < idx
    BY <1>1, PassedBefore
  <2> QED
    BY <1>3, <2>1, <2>2 DEF After, ReachesAt, Dominates, Located
<1> QED
  BY <1>2, <1>3, ChainsGoOn DEF Vers

\* The instruction gives n a version, and the version what n was before.
LEMMA ChainsPushHere ==
  ASSUME IInv, Built, Tracked, AtInst, NEW n \in Names(fn.P), Redefines(inst, n),
         NEW w, w = New(n), w.kind # "src",
         NEW j \in DOMAIN vals, vals[j].web = n,
         NEW S, Passed \subseteq S, \A e \in Vers(n) \cap S : e \in Passed \/ e = w,
         NEW f, Chains(fn.P, fn.dom, PHIDefs(phis), S, f, After)
  PROVE  Chains(fn.P, fn.dom, PHIDefs(phis), S \cup {w},
                SetDef(SetDef(f, Src(fn.P, n), w), w, vals[j]), After)
<1> DEFINE z == vals[j]
<1>1. stage = "inst" /\ Point = <<bb, idx>> /\ stage # "names"
  BY DEF AtInst, Point
<1>2. Ground(fn.P, fn.dom, PHIDefs(phis)) /\ WellFormed(fn.P)
  BY GroundHolds DEF Tracked, Ground
<1>3. w \in Vers(n) /\ w.blk = bb /\ w.idx = idx
  BY NewFacts
<1>4. Latest(fn.P, fn.dom, PHIDefs(phis), n, Point, z)
  BY <1>1 DEF Tracked, InvChains, FoundIsLatest, LatestFor
<1>5. z \in Vers(n) \cap S
  <2>1. z \in Vers(n) /\ Reaches(z, Point)
    BY <1>4 DEF Latest, Vers, Reaches, ReachesAt
  <2> QED
    BY <1>1, <2>1, PointPassed, VersionsAreCandidates DEF Tracked
<1>6. ASSUME NEW e \in Vers(n) \cap S
      PROVE  /\ ~Above(fn.dom, w, e) /\ (Above(fn.dom, e, w) => UpTo(fn.dom, e, z))
             /\ ReachesAt(fn.dom, e, After) => UpTo(fn.dom, e, w)
  <2>1. CASE e \in Passed
    <3>1. /\ ~Above(fn.dom, w, e)
          /\ ReachesAt(fn.dom, e, <<bb, w.idx + 1>>) => UpTo(fn.dom, e, w)
          /\ Above(fn.dom, e, w) => ReachesAt(fn.dom, e, Point)
      BY <1>1, <1>3, <2>1, NewestVersion
    <3> QED
      BY <1>3, <1>4, <3>1 DEF Latest, Vers, After
  <2>2. CASE e = w
    BY <1>2, <1>3, <2>2, VersionOrder DEF UpTo, Vers
  <2> QED
    BY <2>1, <2>2
<1>7. w # Src(fn.P, n)
  BY <1>2, SrcFields
<1> QED
  BY <1>2, <1>3, <1>5, <1>6, <1>7, ChainsPush DEF Vers

\* The instruction gives n a version that no chain goes on from.
LEMMA ChainsStartHere ==
  ASSUME IInv, Built, Tracked, AtInst, NEW n \in Names(fn.P), Redefines(inst, n),
         NEW w, w = New(n), NEW g, DOMAIN g = DOMAIN rd, g[Src(fn.P, n)] = w,
         \A x \in DOMAIN rd : x # Src(fn.P, n) => g[x] = rd[x]
  PROVE  Chains(fn.P, fn.dom, PHIDefs(phis), Passed \cup {w}, g, After)
<1>1. stage = "inst"
  BY DEF AtInst
<1>2. w \in Vers(n) /\ w.blk = bb /\ w.idx = idx
  BY NewFacts
<1>3. \A e \in Vers(n) \cap Passed :
        ~Above(fn.dom, w, e) /\ (ReachesAt(fn.dom, e, After) => UpTo(fn.dom, e, w))
  BY <1>1, <1>2, NewestVersion DEF After
<1> QED
  BY <1>2, <1>3, ChainsEnter, GroundHolds, ChainsStart DEF Tracked, Vers

\* A name has no definition before the instruction that defines it.
LEMMA NotDefinedYet ==
  ASSUME IInv, Built, Tracked, AtInst, NEW n \in Names(fn.P), inst.def = n
  PROVE  Src(fn.P, n) \in DOMAIN rd /\ rd[Src(fn.P, n)] = Src(fn.P, n)
<1> DEFINE s == Src(fn.P, n)
<1>1. stage = "inst" /\ stage # "names"
  BY DEF AtInst
<1>2. Ground(fn.P, fn.dom, PHIDefs(phis))
  BY GroundHolds DEF Tracked
<1>3. s.blk = bb /\ s.idx = idx /\ idx \in Nat /\ s.web = n
  BY <1>2, NewFacts, FirstVersion DEF IInv, TypeOK
<1>4. s \in DOMAIN rd /\ (rd[s] \in Vers(n) \cap Passed \/ rd[s] = s)
  BY <1>1, <1>3 DEF Tracked, InvChains, ChainsHold, Chains, Vers
<1>5. ASSUME NEW e \in Vers(n) \cap Passed
      PROVE  FALSE
  <2>1. DefPos(fn.P, n) = <<bb, idx>>
    BY NewFacts
  <2>2. \/ DefPos(fn.P, n) = <<e.blk, e.idx>>
        \/ e.blk # 0 /\ ReachesAt(fn.dom, s, <<e.blk, e.idx>>)
    BY <1>2, VersionsFollowName DEF Vers
  <2>3. ~Above(fn.dom, s, e)
    BY <1>1, <1>3, NothingBelow DEF Tracked, InvChains
  <2>4. ~(e.blk = bb /\ e.idx = idx)
    BY <1>1, <1>3, PassedBefore
  <2> QED
    BY <2>1, <2>2, <2>3, <2>4 DEF Above
<1> QED
  BY <1>4, <1>5

\* After the instruction: the versions it makes have been passed.
LEMMA EmitTracked ==
  ASSUME IInv, Built, Tracked, AtInst, NEW new, Emit(new),
         NEW S, Passed \subseteq S, Chains(fn.P, fn.dom, PHIDefs(phis), S, rd', After),
         \A n \in Names(fn.P) : \A e \in Vers(n) :
            e \in S <=> e \in Passed \/ (Redefines(inst, n) /\ e = New(n)),
         \A n \in Names(fn.P) : inst.def = n => rd'[Src(fn.P, n)] # Src(fn.P, n) \/ Src(fn.P, n) \in S
  PROVE  Tracked'
<1>1. /\ stage = "inst" /\ Idle /\ idx' = idx + 1 /\ vals' = << >> /\ stage # "names"
      /\ UNCHANGED <<fn, stage, names_left, current, phis, bb, seen, todo, focus, walk>>
  BY DEF AtInst, Emit, insertVars
<1>2. bb \in seen /\ idx \in Nat /\ bb \in Blocks(fn.P)
  BY DEF IInv, TypeOK
<1>3. Candidates' = Candidates
  BY <1>1 DEF Candidates
<1>4. ASSUME NEW v \in Candidates
      PROVE  v \in Passed' <=> v \in Passed \/ (v.blk = bb /\ v.idx = idx)
  <2>1. Located(fn.P, v)
    BY CandidateFacts DEF Tracked
  <2>2. v.blk # bb /\ v.blk \in Blocks(fn.P) => VisitedTo'[v.blk] = VisitedTo[v.blk]
    BY <1>1 DEF VisitedTo
  <2>3. VisitedTo'[bb] = idx + 1 /\ VisitedTo[bb] = idx
    BY <1>1, <1>2 DEF VisitedTo
  <2>4. ~Waiting(v) /\ ~Waiting(v)'
    BY <1>1 DEF Waiting
  <2>5. v.blk = bb => (v.idx < idx + 1 <=> v.idx < idx \/ v.idx = idx)
    BY <1>2, <2>1 DEF Located
  <2> QED
    BY <1>1, <1>2, <1>3, <2>1, <2>2, <2>3, <2>4, <2>5 DEF Passed, Located
<1>5. ASSUME NEW n \in Names(fn.P), NEW e \in Vers(n)
      PROVE  e \in S <=> e \in Passed'
  BY <1>4, <1>5, NewFacts, VersionsAreCandidates
<1>6. ASSUME NEW n \in Names(fn.P), rd'[Src(fn.P, n)] = Src(fn.P, n), Src(fn.P, n) \notin S
      PROVE  Src(fn.P, n) \notin Passed'
  <2>1. Src(fn.P, n) \in Candidates
    BY VersionsAreCandidates
  <2>2. ~(Src(fn.P, n).blk = bb /\ Src(fn.P, n).idx = idx)
    BY <1>6, NewFacts
  <2>3. Src(fn.P, n) \notin Passed
    BY <1>6
  <2> QED
    BY <1>4, <2>1, <2>2, <2>3
<1>7. Here' = After
  BY <1>1 DEF Here, Point, After
<1>8. ChainsHold'
  BY <1>1, <1>5, <1>6, <1>7, ChainsGoOn DEF ChainsHold, Vers
<1>9. WalkFollows' /\ FoundIsLatest' /\ VisitIsNewest' /\ FocusIsPHI' /\ FocusIsSlot'
  BY <1>1 DEF WalkFollows, FoundIsLatest, VisitIsNewest, FocusIsPHI, FocusIsSlot, Idle,
              Tracked, InvChains
<1>10. \A b \in Blocks(fn.P) : \A q \in phis[b] : \A x \in Preds(fn.P, b) :
         Pending(b, q, x)' <=> Pending(b, q, x)
  BY <1>1 DEF Pending, Unfilled
<1> QED
  BY <1>1, <1>8, <1>9, <1>10, TrackedStep

LEMMA UsesAreOthers ==
  ASSUME IInv, Built, Tracked, AtInst, NEW j \in 1 .. Len(inst.c)
  PROVE  inst.c[j] \in Names(fn.P) /\ inst.c[j] # inst.def
<1>1. /\ bb \in Blocks(fn.P) /\ idx \in 1 .. Len(fn.P.code[bb]) /\ inst = fn.P.code[bb][idx]
      /\ WellFormed(fn.P)
  BY AtInstFacts, FnFacts
<1>2. StrictUse(fn.P, Dominators(fn.P), inst.c[j], <<bb, idx>>)
  BY <1>1 DEF WellFormed, Strict
<1>3. inst.c[j] \in Names(fn.P) /\ Reaches(Src(fn.P, inst.c[j]), <<bb, idx>>)
  BY <1>2, FnFacts DEF StrictUse, Reaches
<1>4. bb # 0 /\ idx \in Nat
  BY <1>1 DEF Blocks
<1>5. ~(Src(fn.P, inst.c[j]).blk = bb /\ Src(fn.P, inst.c[j]).idx = idx)
  BY <1>3, <1>4 DEF Reaches, IsArgument, Dominates
<1> QED
  BY <1>3, <1>5, NewFacts

\* A mutator of the first operand, which gives it one version.
LEMMA PushTracked ==
  ASSUME IInv, Built, Tracked, AtInst, inst.op \in MutOps \ {"MutStructWrite", "MutSeqSwap"},
         inst.def = NoName, 1 \in DOMAIN vals, 1 \in 1 .. Len(inst.c), vals[1].web = inst.c[1],
         NEW new, Emit(new), NEW w, w = Version("ssa", inst.c[1]),
         rd' = SetDef(SetDef(rd, Orig(1), w), w, vals[1])
  PROVE  Tracked'
<1> DEFINE n == inst.c[1]
<1>1. n \in Names(fn.P)
  BY UsesAreOthers
<1>2. NoName \notin Names(fn.P)
  BY NoNameIsNoName
<1>3. inst = fn.P.code[bb][idx]
  BY AtInstFacts
<1>4. \A m \in Names(fn.P) : Redefines(inst, m) <=> m = n
  BY <1>2 DEF Redefines, MutOps, ReadOps, WriteOps, PairOps
<1>5. w = New(n) /\ w.kind # "src"
  BY <1>1, <1>2, <1>3 DEF New, Renamed, Version, Val
<1>6. Chains(fn.P, fn.dom, PHIDefs(phis), Passed \cup {w},
             SetDef(SetDef(rd, Src(fn.P, n), w), w, vals[1]), After)
  <2>1. Redefines(inst, n) /\ \A e \in Vers(n) \cap Passed : e \in Passed \/ e = w
    BY <1>1, <1>4
  <2> QED
    BY <1>1, <1>5, <2>1, ChainsEnter, ChainsPushHere
<1>7. Chains(fn.P, fn.dom, PHIDefs(phis), Passed \cup {w}, rd', After)
  BY <1>6 DEF Orig
<1>8. ASSUME NEW m \in Names(fn.P), NEW e \in Vers(m)
      PROVE  e \in Passed \cup {w} <=> e \in Passed \/ (Redefines(inst, m) /\ e = New(m))
  <2>1. e.web = m
    BY GroundHolds, VersionFacts DEF Tracked, Vers
  <2>2. w.web = n
    BY DEF Version, Val
  <2> QED
    BY <1>4, <1>5, <2>1, <2>2
<1>9. \A m \in Names(fn.P) : inst.def # m
  BY <1>2
<1> QED
  BY <1>7, <1>8, <1>9, EmitTracked

LEMMA WriteTracked ==
  ASSUME IInv, Built, Tracked,
         \/ VisitMutIndexWrite \/ VisitMutAssocWrite \/ VisitMutSeqInsert
         \/ VisitMutSeqRemove \/ VisitMutSeqSwapWithin \/ VisitMutAssocInsert
         \/ VisitMutAssocRemove
  PROVE  Tracked'
<1>1. PICK op : Ready(WriteOps) /\ NewVersion(op)
  BY DEF VisitMutIndexWrite, VisitMutAssocWrite, VisitMutSeqInsert, VisitMutSeqRemove,
         VisitMutSeqSwapWithin, VisitMutAssocInsert, VisitMutAssocRemove, Ready, WriteOps
<1>2. AtInst /\ inst.op \in WriteOps /\ Len(vals) = Len(Resolved(inst))
  BY <1>1 DEF Ready
<1>3. inst.def = NoName /\ inst.op \in MutOps \ {"MutStructWrite", "MutSeqSwap"}
  BY <1>2, SignedHere DEF MutOps, WriteOps
<1>4. Resolved(inst) = inst.c /\ Len(inst.c) = 1
  BY <1>2, OneOperand DEF Resolved, WriteOps
<1>5. 1 \in 1 .. Len(inst.c) /\ 1 \in DOMAIN vals
  BY <1>2, <1>4 DEF IInv, TypeOK
<1>6. vals[1].web = inst.c[1]
  BY <1>2, <1>4, <1>5, ReadyFacts
<1>7. PICK w : w = Version("ssa", inst.c[1])
  OBVIOUS
<1>8. /\ rd' = SetDef(SetDef(rd, Orig(1), w), w, vals[1])
      /\ Emit(<<Emitted(op, <<w>>, <<vals[1]>>), Original>>)
  BY <1>1, <1>7 DEF NewVersion
<1> QED
  BY <1>2, <1>3, <1>5, <1>6, <1>7, <1>8, PushTracked

LEMMA PairTracked ==
  ASSUME IInv, Built, Tracked, VisitMutSeqInsertSeq \/ VisitMutSeqAppend
  PROVE  Tracked'
<1>1. Ready(PairOps) /\ inst.op \in {"MutSeqInsertSeq", "MutSeqAppend"}
  BY DEF VisitMutSeqInsertSeq, VisitMutSeqAppend, Ready, PairOps
<1>2. AtInst /\ Len(vals) = Len(Resolved(inst)) /\ Resolved(inst) = inst.c /\ Len(inst.c) = 2
  BY <1>1, PairFacts
<1>3. inst.def = NoName /\ inst.op \in MutOps \ {"MutStructWrite", "MutSeqSwap"}
  BY <1>1, <1>2, SignedHere DEF MutOps, PairOps
<1>5. 1 \in 1 .. Len(inst.c) /\ 1 \in DOMAIN vals
  BY <1>2 DEF IInv, TypeOK
<1>6. vals[1].web = inst.c[1]
  BY <1>2, <1>5, ReadyFacts
<1>7. PICK w : w = Version("ssa", inst.c[1])
  OBVIOUS
<1>8. /\ rd' = SetDef(SetDef(rd, Orig(1), w), w, vals[1])
      /\ \E new : Emit(new)
  BY <1>7 DEF VisitMutSeqInsertSeq, VisitMutSeqAppend
<1> QED
  BY <1>2, <1>3, <1>5, <1>6, <1>7, <1>8, PushTracked

LEMMA StructWriteTracked ==
  ASSUME IInv, Built, Tracked, VisitMutStructWrite
  PROVE  Tracked'
<1>1. AtInst /\ inst.op = "MutStructWrite" /\ UNCHANGED rd
  BY DEF VisitMutStructWrite, Ready
<1>2. PICK new : Emit(new)
  BY DEF VisitMutStructWrite
<1>3. inst.def = NoName
  BY <1>1, SignedHere DEF MutOps
<1>4. NoName \notin Names(fn.P)
  BY NoNameIsNoName
<1>5. \A m \in Names(fn.P) : ~Redefines(inst, m)
  BY <1>1, <1>3, <1>4 DEF Redefines, ReadOps
<1>6. \A m \in Names(fn.P) : \A e \in Vers(m) :
        e \in Passed <=> e \in Passed \/ (Redefines(inst, m) /\ e = New(m))
  BY <1>5
<1>7. Chains(fn.P, fn.dom, PHIDefs(phis), Passed, rd', After)
  BY <1>1, ChainsEnter
<1> QED
  BY <1>1, <1>2, <1>3, <1>4, <1>6, <1>7, EmitTracked

LEMMA SwapTracked ==
  ASSUME IInv, Built, Tracked, VisitMutSeqSwap
  PROVE  Tracked'
<1>1. Ready(PairOps) /\ inst.op = "MutSeqSwap"
  BY DEF VisitMutSeqSwap, Ready, PairOps
<1>2. AtInst /\ Len(vals) = Len(Resolved(inst)) /\ Resolved(inst) = inst.c /\ Len(inst.c) = 2
  BY <1>1, PairFacts
<1>3. inst.def = NoName
  BY <1>1, <1>2, SignedHere DEF MutOps, PairOps
<1>4. 1 \in 1 .. Len(inst.c) /\ 1 \in DOMAIN vals /\ 2 \in 1 .. Len(inst.c) /\ 2 \in DOMAIN vals
  BY <1>2 DEF IInv, TypeOK
<1>5. vals[1].web = inst.c[1] /\ vals[2].web = inst.c[2]
  BY <1>2, <1>4, ReadyFacts
<1>6. PICK n : n = inst.c[1]
  OBVIOUS
<1>7. PICK m : m = inst.c[2]
  OBVIOUS
<1>8. PICK w : w = Version("ssa", n)
  OBVIOUS
<1>9. PICK x : x = Version("ssa", m)
  OBVIOUS
<1>10. /\ rd' = SetDef(SetDef(SetDef(SetDef(rd, Src(fn.P, n), w), w, vals[1]), Src(fn.P, m), x), x, vals[2])
       /\ \E new : Emit(new)
  BY <1>6, <1>7, <1>8, <1>9 DEF VisitMutSeqSwap, Orig
<1>11. n \in Names(fn.P) /\ m \in Names(fn.P) /\ NoName \notin Names(fn.P)
  BY <1>2, <1>4, <1>6, <1>7, UsesAreOthers, NoNameIsNoName
<1>12. inst = fn.P.code[bb][idx]
  BY <1>2, AtInstFacts
<1>13. \A k \in Names(fn.P) : Redefines(inst, k) <=> k = n \/ k = m
  BY <1>1, <1>3, <1>6, <1>7, <1>11 DEF Redefines, MutOps, ReadOps, WriteOps, PairOps
<1>14. "MutSeqSwap" \in MutOps
  BY DEF MutOps, PairOps
<1>15. \A k \in {n, m} : New(k) = Version("ssa", k) /\ New(k).kind # "src" /\ New(k).web = k
  BY <1>1, <1>3, <1>11, <1>12, <1>14 DEF New, Renamed, Version, Val
<1>16. \A k \in Names(fn.P) : \A e \in Vers(k) : e.web = k
  BY GroundHolds, VersionFacts DEF Tracked, Vers
<1>17. w = New(n) /\ x = New(m) /\ w.kind # "src" /\ x.kind # "src" /\ w.web = n /\ x.web = m
  BY <1>8, <1>9, <1>15
<1>18. PICK f : f = SetDef(SetDef(rd, Src(fn.P, n), w), w, vals[1])
  OBVIOUS
<1>19. Chains(fn.P, fn.dom, PHIDefs(phis), Passed \cup {w}, f, After)
  <2>1. Redefines(inst, n) /\ \A e \in Vers(n) \cap Passed : e \in Passed \/ e = w
    BY <1>11, <1>13
  <2>2. Chains(fn.P, fn.dom, PHIDefs(phis), Passed, rd, After)
    BY <1>2, ChainsEnter
  <2> QED
    BY <1>2, <1>4, <1>5, <1>6, <1>11, <1>17, <1>18, <2>1, <2>2, ChainsPushHere
<1>20. Chains(fn.P, fn.dom, PHIDefs(phis), (Passed \cup {w}) \cup {x}, rd', After)
  <2>1. Redefines(inst, m) /\ \A e \in Vers(m) \cap (Passed \cup {w}) : e \in Passed \/ e = x
    BY <1>11, <1>13, <1>16, <1>17
  <2>2. rd' = SetDef(SetDef(f, Src(fn.P, m), x), x, vals[2])
    BY <1>10, <1>18
  <2> QED
    BY <1>2, <1>4, <1>5, <1>7, <1>11, <1>17, <1>19, <2>1, <2>2, ChainsPushHere
<1>21. \A k \in Names(fn.P) : \A e \in Vers(k) :
         e \in (Passed \cup {w}) \cup {x} <=> e \in Passed \/ (Redefines(inst, k) /\ e = New(k))
  BY <1>13, <1>16, <1>17
<1>22. \A k \in Names(fn.P) : inst.def # k
  BY <1>3, <1>11
<1> QED
  BY <1>2, <1>10, <1>20, <1>21, <1>22, EmitTracked

LEMMA SplitTracked ==
  ASSUME IInv, Built, Tracked, VisitMutSeqSplit
  PROVE  Tracked'
<1>1. AtInst /\ Len(vals) = Len(Resolved(inst)) /\ inst.op = "MutSeqSplit"
  BY DEF VisitMutSeqSplit, Ready
<1>2. /\ bb \in Blocks(fn.P) /\ idx \in 1 .. Len(fn.P.code[bb]) /\ inst = fn.P.code[bb][idx]
      /\ inst \in [op : STRING, def : Names(fn.P) \cup {NoName}, c : Seq(Names(fn.P))]
  BY <1>1, AtInstFacts
<1>3. Resolved(inst) = inst.c /\ Len(inst.c) = 1 /\ inst.def # NoName
  <2>1. Len(inst.c) = 1 /\ inst.def # NoName
    BY <1>1, <1>2, FnFacts DEF WellFormed, WellTyped
  <2> QED
    BY <1>1, <2>1 DEF Resolved
<1>4. 1 \in 1 .. Len(inst.c) /\ 1 \in DOMAIN vals
  BY <1>1, <1>3 DEF IInv, TypeOK
<1>5. vals[1].web = inst.c[1]
  BY <1>1, <1>3, <1>4, ReadyFacts
<1>6. PICK n : n = inst.c[1]
  OBVIOUS
<1>7. PICK m : m = inst.def
  OBVIOUS
<1>8. PICK w : w = Version("ssa", n)
  OBVIOUS
<1>9. PICK x : x = Version("copy", m)
  OBVIOUS
<1>10. /\ rd' = SetDef(SetDef(SetDef(rd, Src(fn.P, m), x), Src(fn.P, n), w), w, vals[1])
       /\ \E new : Emit(new)
  BY <1>6, <1>7, <1>8, <1>9 DEF VisitMutSeqSplit, Orig
<1>11. n \in Names(fn.P) /\ m \in Names(fn.P) /\ NoName \notin Names(fn.P) /\ n # m
  BY <1>1, <1>2, <1>3, <1>4, <1>6, <1>7, UsesAreOthers, NoNameIsNoName
<1>13. \A k \in Names(fn.P) : Redefines(inst, k) <=> k = n \/ k = m
  BY <1>1, <1>6, <1>7, <1>11 DEF Redefines, MutOps, ReadOps, WriteOps, PairOps
<1>14. "MutSeqSplit" \in MutOps
  BY DEF MutOps
<1>15. /\ w = New(n) /\ w.kind # "src" /\ w.web = n
       /\ x = New(m) /\ x.kind # "src" /\ x.web = m
  BY <1>1, <1>2, <1>7, <1>8, <1>9, <1>11, <1>14 DEF New, Renamed, Version, Val
<1>16. \A k \in Names(fn.P) : (\A e \in Vers(k) : e.web = k) /\ Src(fn.P, k).web = k
                              /\ Src(fn.P, k).kind = "src"
  <2>1. \A k \in Names(fn.P) : (\A e \in Vers(k) : e.web = k) /\ Src(fn.P, k).web = k
    BY GroundHolds, VersionFacts, FirstVersion DEF Tracked, Vers
  <2> QED
    BY <2>1 DEF Src, Val
<1>17. PICK g : g = SetDef(rd, Src(fn.P, m), x)
  OBVIOUS
<1>18. Chains(fn.P, fn.dom, PHIDefs(phis), Passed \cup {x}, g, After)
  <2>1. Src(fn.P, m) \in DOMAIN rd
    BY <1>1, <1>7, <1>11, NotDefinedYet
  <2>2. DOMAIN g = DOMAIN rd /\ g[Src(fn.P, m)] = x /\ \A y \in DOMAIN rd : y # Src(fn.P, m) => g[y] = rd[y]
    BY <1>17, <2>1 DEF SetDef
  <2>3. Redefines(inst, m)
    BY <1>11, <1>13
  <2> QED
    BY <1>1, <1>11, <1>15, <2>2, <2>3, ChainsStartHere
<1>19. Chains(fn.P, fn.dom, PHIDefs(phis), (Passed \cup {x}) \cup {w}, rd', After)
  <2>1. Redefines(inst, n) /\ \A e \in Vers(n) \cap (Passed \cup {x}) : e \in Passed \/ e = w
    BY <1>11, <1>13, <1>15, <1>16
  <2>2. rd' = SetDef(SetDef(g, Src(fn.P, n), w), w, vals[1])
    BY <1>10, <1>17
  <2> QED
    BY <1>1, <1>4, <1>5, <1>6, <1>11, <1>15, <1>18, <2>1, <2>2, ChainsPushHere
<1>21. \A k \in Names(fn.P) : \A e \in Vers(k) :
         e \in (Passed \cup {x}) \cup {w} <=> e \in Passed \/ (Redefines(inst, k) /\ e = New(k))
  BY <1>13, <1>15, <1>16
<1>22. \A k \in Names(fn.P) : inst.def = k => rd'[Src(fn.P, k)] # Src(fn.P, k)
  <2>1. rd'[Src(fn.P, m)] = x
    <3>1. Src(fn.P, m) # Src(fn.P, n) /\ Src(fn.P, m) # w
      BY <1>11, <1>15, <1>16
    <3>2. g[Src(fn.P, m)] = x /\ Src(fn.P, m) \in DOMAIN g
      BY <1>17 DEF SetDef
    <3> QED
      BY <1>10, <1>17, <3>1, <3>2 DEF SetDef
  <2> QED
    BY <1>7, <1>11, <1>15, <1>16, <2>1
<1> QED
  BY <1>1, <1>10, <1>19, <1>21, <1>22, EmitTracked

\* What the instruction itself defines, if anything, comes into being.
LEMMA ResultTracked ==
  ASSUME IInv, Built, Tracked, AtInst, inst.op # "MutSeqSplit",
         NEW S, S = Passed \cup {Src(fn.P, n) : n \in {inst.def} \ {NoName}}
  PROVE  /\ Chains(fn.P, fn.dom, PHIDefs(phis), S, rd, After)
         /\ \A n \in Names(fn.P) : inst.def = n =>
              /\ Src(fn.P, n) = New(n) /\ Src(fn.P, n) \in S
              /\ Src(fn.P, n) \in DOMAIN rd /\ rd[Src(fn.P, n)] = Src(fn.P, n)
<1>1. inst.def \in Names(fn.P) \cup {NoName} /\ NoName \notin Names(fn.P) /\ inst = fn.P.code[bb][idx]
  BY AtInstFacts, NoNameIsNoName
<1>2. CASE inst.def = NoName
  <2>1. S = Passed
    BY <1>2
  <2> QED
    BY <1>1, <1>2, <2>1, ChainsEnter
<1>3. ASSUME NEW n \in Names(fn.P), inst.def = n
      PROVE  /\ Chains(fn.P, fn.dom, PHIDefs(phis), S, rd, After)
             /\ Src(fn.P, n) = New(n) /\ Src(fn.P, n) \in S
             /\ Src(fn.P, n) \in DOMAIN rd /\ rd[Src(fn.P, n)] = Src(fn.P, n)
  <2>1. Src(fn.P, n) \in DOMAIN rd /\ rd[Src(fn.P, n)] = Src(fn.P, n)
    BY <1>3, NotDefinedYet
  <2>2. Src(fn.P, n) = New(n)
    BY <1>1, <1>3 DEF New, Renamed
  <2>3. S = Passed \cup {Src(fn.P, n)}
    BY <1>1, <1>3
  <2>4. Redefines(inst, n)
    BY <1>3 DEF Redefines
  <2> QED
    BY <1>3, <2>1, <2>2, <2>3, <2>4, ChainsStartHere
<1> QED
  BY <1>1, <1>2, <1>3

LEMMA InstructionTracked ==
  ASSUME IInv, Built, Tracked, VisitInstruction
  PROVE  Tracked'
<1>1. /\ AtInst /\ inst.op \notin MutOps \cup ReadOps
      /\ (\E new : Emit(new))
  BY DEF VisitInstruction
<1>2. inst.op # "MutSeqSplit" /\ NoName \notin Names(fn.P) /\ inst.def \in Names(fn.P) \cup {NoName}
  BY <1>1, NoNameIsNoName, AtInstFacts DEF MutOps
<1>3. PICK S : S = Passed \cup {Src(fn.P, n) : n \in {inst.def} \ {NoName}}
  OBVIOUS
<1>4. /\ Chains(fn.P, fn.dom, PHIDefs(phis), S, rd, After)
      /\ \A n \in Names(fn.P) : inst.def = n =>
           /\ Src(fn.P, n) = New(n) /\ Src(fn.P, n) \in S
           /\ Src(fn.P, n) \in DOMAIN rd /\ rd[Src(fn.P, n)] = Src(fn.P, n)
  BY <1>1, <1>2, <1>3, ResultTracked
<1>5. Chains(fn.P, fn.dom, PHIDefs(phis), S, rd', After)
  <2>1. CASE inst.def = NoName
    BY <1>4, <2>1 DEF VisitInstruction
  <2>2. CASE inst.def # NoName
    <3>1. PICK v : v = Src(fn.P, inst.def)
      OBVIOUS
    <3>2. rd' = SetDef(rd, v, v)
      BY <2>2, <3>1 DEF VisitInstruction
    <3>3. v \in DOMAIN rd /\ rd[v] = v
      BY <1>2, <1>4, <2>2, <3>1
    <3>4. \A n \in Names(fn.P) : Src(fn.P, n) \in DOMAIN rd
      BY <1>4 DEF Chains
    <3>5. DOMAIN rd' = DOMAIN rd /\ \A x \in DOMAIN rd : rd'[x] = rd[x]
      BY <3>2, <3>3 DEF SetDef
    <3> QED
      BY <1>4, <3>4, <3>5 DEF Chains
  <2> QED
    BY <2>1, <2>2
<1>6. \A k \in Names(fn.P) : Redefines(inst, k) <=> inst.def = k
  BY <1>1 DEF Redefines, MutOps, PairOps
<1>7. ASSUME NEW k \in Names(fn.P), NEW e \in Vers(k)
      PROVE  e \in S <=> e \in Passed \/ (Redefines(inst, k) /\ e = New(k))
  <2>1. e.web = k
    BY GroundHolds, VersionFacts DEF Tracked, Vers
  <2>2. \A n \in Names(fn.P) : Src(fn.P, n).web = n
    BY GroundHolds, FirstVersion DEF Tracked
  <2> QED
    BY <1>2, <1>3, <1>4, <1>6, <2>1, <2>2
<1> QED
  BY <1>1, <1>3, <1>4, <1>5, <1>7, EmitTracked

LEMMA ReadTracked ==
  ASSUME IInv, Built, Tracked, VisitRead
  PROVE  Tracked'
<1>1. /\ AtInst /\ inst.op \in ReadOps /\ Len(vals) = Len(Resolved(inst))
      /\ (\E new : Emit(new))
  BY DEF VisitRead, Ready
<1>2. /\ inst.op # "MutSeqSplit" /\ NoName \notin Names(fn.P) /\ inst.def \in Names(fn.P) \cup {NoName}
      /\ inst = fn.P.code[bb][idx]
  BY <1>1, NoNameIsNoName, AtInstFacts DEF ReadOps
<1>3. PICK S : S = Passed \cup {Src(fn.P, n) : n \in {inst.def} \ {NoName}}
  OBVIOUS
<1>4. /\ Chains(fn.P, fn.dom, PHIDefs(phis), S, rd, After)
      /\ \A n \in Names(fn.P) : inst.def = n =>
           /\ Src(fn.P, n) = New(n) /\ Src(fn.P, n) \in S
           /\ Src(fn.P, n) \in DOMAIN rd /\ rd[Src(fn.P, n)] = Src(fn.P, n)
  BY <1>1, <1>2, <1>3, ResultTracked
<1>8. \A n \in Names(fn.P) : Src(fn.P, n).web = n /\ \A e \in Vers(n) : e.web = n
  BY GroundHolds, FirstVersion, VersionFacts DEF Tracked, Vers
<1>5. CASE ~UsePHIs
  <2>1. \A k \in Names(fn.P) : Redefines(inst, k) <=> inst.def = k
    BY <1>1, <1>5 DEF Redefines, MutOps, ReadOps, WriteOps, PairOps
  <2>2. rd' = rd
    BY <1>5 DEF VisitRead
  <2>3. \A k \in Names(fn.P) : \A e \in Vers(k) :
          e \in S <=> e \in Passed \/ (Redefines(inst, k) /\ e = New(k))
    BY <1>2, <1>3, <1>4, <1>8, <2>1
  <2> QED
    BY <1>1, <1>3, <1>4, <2>2, <2>3, EmitTracked
<1>6. CASE UsePHIs
  <2>1. Resolved(inst) = inst.c /\ Len(inst.c) = 1
    BY <1>1, OneOperand DEF Resolved, ReadOps
  <2>2. 1 \in 1 .. Len(inst.c) /\ 1 \in DOMAIN vals
    BY <1>1, <2>1 DEF IInv, TypeOK
  <2>3. vals[1].web = inst.c[1]
    BY <1>1, <2>1, <2>2, ReadyFacts
  <2>4. PICK n : n = inst.c[1]
    OBVIOUS
  <2>5. PICK w : w = Version("use", n)
    OBVIOUS
  <2>6. rd' = SetDef(SetDef(rd, Src(fn.P, n), w), w, vals[1])
    BY <1>6, <2>4, <2>5 DEF VisitRead, Orig
  <2>7. n \in Names(fn.P) /\ inst.def # n
    BY <1>1, <2>2, <2>4, UsesAreOthers
  <2>8. \A k \in Names(fn.P) : Redefines(inst, k) <=> inst.def = k \/ k = n
    BY <1>1, <1>6, <2>4 DEF Redefines, MutOps, ReadOps, WriteOps, PairOps
  <2>9. w = New(n) /\ w.kind # "src" /\ w.web = n
    BY <1>1, <1>2, <2>5, <2>7 DEF New, Renamed, Version, Val, MutOps, ReadOps, WriteOps, PairOps
  <2>10. \A e \in Vers(n) \cap S : e \in Passed
    BY <1>2, <1>3, <1>8, <2>7
  <2>11. Redefines(inst, n) /\ \A e \in Vers(n) \cap S : e \in Passed \/ e = w
    BY <2>7, <2>8, <2>10
  <2>12. Passed \subseteq S
    BY <1>3
  <2>13. Chains(fn.P, fn.dom, PHIDefs(phis), S \cup {w}, rd', After)
    BY <1>1, <1>4, <2>2, <2>3, <2>4, <2>6, <2>7, <2>9, <2>11, <2>12, ChainsPushHere
  <2>14. ASSUME NEW k \in Names(fn.P), NEW e \in Vers(k)
         PROVE  e \in S \cup {w} <=> e \in Passed \/ (Redefines(inst, k) /\ e = New(k))
    BY <1>2, <1>3, <1>4, <1>8, <2>8, <2>9
  <2> QED
    BY <1>1, <1>4, <2>12, <2>13, <2>14, EmitTracked
<1> QED
  BY <1>5, <1>6

LEMMA HasTracked ==
  ASSUME IInv, Built, Tracked, VisitAssocHas
  PROVE  Tracked'
<1>1. /\ AtInst /\ inst.op = "AssocHas" /\ Len(vals) = Len(Resolved(inst))
      /\ (\E new : Emit(new))
  BY DEF VisitAssocHas, Ready
<1>2. /\ NoName \notin Names(fn.P) /\ inst = fn.P.code[bb][idx] /\ inst.def = NoName
      /\ stage = "inst" /\ Point = <<bb, idx>>
  BY <1>1, NoNameIsNoName, AtInstFacts, SignedHere DEF AtInst, Point
<1>3. \A m \in Names(fn.P) : ~Redefines(inst, m)
  BY <1>1, <1>2 DEF Redefines, MutOps, ReadOps, WriteOps, PairOps
<1>4. \A m \in Names(fn.P) : \A e \in Vers(m) :
        e \in Passed <=> e \in Passed \/ (Redefines(inst, m) /\ e = New(m))
  BY <1>3
<1>5. Chains(fn.P, fn.dom, PHIDefs(phis), Passed, rd, After)
  BY <1>1, ChainsEnter
<1>6. Chains(fn.P, fn.dom, PHIDefs(phis), Passed, rd', After)
  <2>1. CASE ~UsePHIs
    BY <1>5, <2>1 DEF VisitAssocHas
  <2>2. CASE UsePHIs
    <3>1. Resolved(inst) = inst.c /\ Len(inst.c) = 1
      <4>1. bb \in Blocks(fn.P) /\ idx \in 1 .. Len(fn.P.code[bb])
        BY <1>1, AtInstFacts
      <4> QED
        BY <1>1, <1>2, <2>2, <4>1, FnFacts DEF WellFormed, WellTyped, Resolved
    <3>2. 1 \in 1 .. Len(inst.c) /\ 1 \in DOMAIN vals
      BY <1>1, <3>1 DEF IInv, TypeOK
    <3>3. PICK n : n = inst.c[1]
      OBVIOUS
    <3>4. PICK z : z = vals[1]
      OBVIOUS
    <3>5. z.web = n /\ n \in Names(fn.P)
      BY <1>1, <3>1, <3>2, <3>3, <3>4, ReadyFacts
    <3>6. rd' = SetDef(SetDef(rd, Src(fn.P, n), z), z, z)
      BY <2>2, <3>3, <3>4 DEF VisitAssocHas, Orig
    <3>7. Latest(fn.P, fn.dom, PHIDefs(phis), n, Point, z)
      BY <1>2, <3>2, <3>4, <3>5 DEF Tracked, InvChains, FoundIsLatest, LatestFor
    <3>8. z \in Vers(n) \cap Passed
      <4>1. z \in Vers(n) /\ Reaches(z, Point)
        BY <3>7 DEF Latest, Vers, Reaches, ReachesAt
      <4> QED
        BY <1>2, <3>5, <4>1, PointPassed, VersionsAreCandidates DEF Tracked
    <3>9. ASSUME NEW e \in Vers(n) \cap Passed, ReachesAt(fn.dom, e, After)
          PROVE  UpTo(fn.dom, e, z)
      <4>1. Located(fn.P, e)
        BY <3>5, GroundHolds, VersionFacts DEF Tracked, Vers
      <4>2. e.blk = bb => e.idx < idx
        BY <1>2, PassedBefore
      <4>3. ReachesAt(fn.dom, e, Point)
        BY <1>2, <3>9, <4>1, <4>2 DEF After, ReachesAt, Dominates, Located
      <4> QED
        BY <3>7, <4>3 DEF Latest, Vers
    <3> QED
      BY <1>5, <3>5, <3>6, <3>8, <3>9, GroundHolds, ChainsAsk DEF Tracked, Vers
  <2> QED
    BY <2>1, <2>2
<1>7. \A m \in Names(fn.P) : inst.def # m
  BY <1>2
<1> QED
  BY <1>1, <1>4, <1>6, <1>7, EmitTracked

-----------------------------------------------------------------------------
(* The latest versions.  Incoming values and the next block. *)

LEMMA EndInstructionsTracked ==
  ASSUME IInv, Built, Tracked, EndInstructions
  PROVE  Tracked'
<1>1. /\ stage = "inst" /\ Idle /\ idx > Len(fn.P.code[bb]) /\ stage' = "edge"
      /\ todo' = UNION {{<<c, q.def>> : q \in phis[c]} : c \in fn.P.succ[bb]}
      /\ UNCHANGED <<fn, names_left, current, phis, rd, bb, seen, idx, focus, vals, walk>>
  BY DEF EndInstructions, insertVars
<1>2. vals = << >> /\ focus = NoFocus /\ bb \in Blocks(fn.P) /\ bb \in seen
  BY <1>1 DEF IInv, InvVals, Sought, SoughtAt, TypeOK
<1>3. idx = Len(fn.P.code[bb]) + 1
  <2>1. Len(fn.P.code[bb]) \in Nat /\ idx \in Nat /\ idx <= Len(fn.P.code[bb]) + 1
    BY <1>1, <1>2, FnFacts DEF WellFormed, WellTyped, IInv, TypeOK, Built, Traversal
  <2> QED
    BY <1>1, <2>1
<1>4. Passed' = Passed /\ Here' = Here
  <2>1. VisitedTo' = VisitedTo
    BY <1>1, <1>2, <1>3 DEF VisitedTo
  <2>2. \A v : ~Waiting(v) /\ ~Waiting(v)'
    BY <1>1 DEF Waiting
  <2>3. Here' = Here
    BY <1>1, <1>3 DEF Here, Point, Terminator
  <2> QED
    BY <1>1, <2>1, <2>2, <2>3 DEF Passed, Candidates
<1>5. ChainsHold'
  BY <1>1, <1>4 DEF Tracked, InvChains, ChainsHold
<1>6. WalkFollows' /\ FoundIsLatest' /\ VisitIsNewest' /\ FocusIsPHI' /\ FocusIsSlot'
  BY <1>1, <1>2 DEF WalkFollows, FoundIsLatest, VisitIsNewest, FocusIsPHI, FocusIsSlot, Idle,
              Tracked, InvChains
<1>7. ASSUME NEW b \in Blocks(fn.P), NEW q \in phis[b], NEW x \in Preds(fn.P, b)
      PROVE  Pending(b, q, x)' <=> Pending(b, q, x)
  <2>1. x = bb => <<b, q.def>> \in todo'
    BY <1>1 DEF Preds
  <2> QED
    BY <1>1, <1>2, <2>1 DEF Pending, Unfilled
<1> QED
  BY <1>1, <1>5, <1>6, <1>7, TrackedStep

LEMMA SeekIncomingTracked ==
  ASSUME IInv, Built, Tracked, NEW slot \in todo, SeekIncoming(slot)
  PROVE  Tracked'
<1>1. PICK q \in phis[slot[1]] : q.def = slot[2] /\ Seek(q.in[bb], Terminator(fn.P, bb))
  BY DEF SeekIncoming
<1>2. PICK v : v = q.in[bb]
  OBVIOUS
<1> DEFINE n == v.web
<1>3. /\ stage = "edge" /\ Idle /\ focus = NoFocus /\ focus' = slot /\ todo' = todo \ {slot}
      /\ walk' = [var |-> v, cur |-> v, pt |-> Terminator(fn.P, bb)]
      /\ UNCHANGED <<fn, stage, names_left, current, phis, rd, bb, seen, idx, vals>>
  BY <1>1, <1>2 DEF SeekIncoming, Seek, insertVars
<1>4. /\ bb \in Blocks(fn.P) /\ slot = <<slot[1], slot[2]>> /\ slot[1] \in fn.P.succ[bb]
      /\ slot[1] \in Blocks(fn.P) /\ bb \in Preds(fn.P, slot[1]) /\ slot[1] # 0
  <2>1. bb \in Blocks(fn.P) /\ slot = <<slot[1], slot[2]>> /\ slot[1] \in fn.P.succ[bb]
    BY <1>3 DEF IInv, InvTodo, TypeOK
  <2> QED
    BY <2>1, FnFacts DEF WellFormed, WellShaped, Preds, Blocks
<1>5. Unfilled(slot[1], q, bb)
  BY <1>1, <1>3, <1>4 DEF Unfilled
<1>6. n \in Names(fn.P) /\ v = Src(fn.P, n)
  BY <1>1, <1>2, <1>4, <1>5 DEF IInv, InvPHIs, PHIOK, SourceAt
<1>7. Passed' = Passed /\ Here' = Here /\ Point = Terminator(fn.P, bb)
  BY <1>3 DEF Passed, Candidates, VisitedTo, Waiting, Here, Point
<1>8. WalkFollows'
  <2>1. \A e \in Vers(n) \cap Passed : ReachesAt(fn.dom, e, Terminator(fn.P, bb)) =>
          UpTo(fn.dom, e, rd[v])
    BY <1>3, <1>6, <1>7, SeekFollows
  <2> QED
    BY <1>3, <1>7, <2>1 DEF WalkFollows, Vers
<1>9. vals = << >>
  BY <1>3 DEF IInv, InvVals
<1>10. ChainsHold' /\ FoundIsLatest' /\ VisitIsNewest' /\ FocusIsPHI'
  BY <1>3, <1>7, <1>9 DEF Tracked, InvChains, ChainsHold, FoundIsLatest, VisitIsNewest, FocusIsPHI
<1>11. FocusIsSlot'
  BY <1>1, <1>2, <1>3, <1>4, <1>9 DEF FocusIsSlot
<1>12. ASSUME NEW b \in Blocks(fn.P), NEW r \in phis[b], NEW x \in Preds(fn.P, b)
       PROVE  Pending(b, r, x)' <=> Pending(b, r, x)
  <2>1. PICK s : s = <<b, r.def>>
    OBVIOUS
  <2>2. s # NoFocus
    BY <2>1 DEF NoFocus, Blocks
  <2> QED
    BY <1>3, <2>1, <2>2 DEF Pending, Unfilled
<1> QED
  BY <1>3, <1>8, <1>10, <1>11, <1>12, TrackedStep

LEMMA NextBlockTracked ==
  ASSUME IInv, Built, Tracked, NextBlock
  PROVE  Tracked'
<1>1. PICK b \in NextInPreorder(fn.P, fn.dom, seen, bb) :
        bb' = b /\ seen' = seen \cup {b} /\ todo' = phis[b]
  BY DEF NextBlock
<1>2. /\ stage = "edge" /\ Idle /\ focus = NoFocus /\ todo = {} /\ stage' = "phi"
      /\ UNCHANGED <<fn, names_left, current, phis, rd, idx, focus, vals, walk>>
  BY DEF NextBlock, insertVars
<1>3. /\ WellFormed(fn.P) /\ fn.dom = Dominators(fn.P) /\ bb \in seen /\ seen \subseteq Blocks(fn.P)
      /\ bb \in Blocks(fn.P) /\ Ground(fn.P, fn.dom, PHIDefs(phis))
  BY FnFacts, GroundHolds DEF IInv, TypeOK, Tracked
<1>4. 1 \in Blocks(fn.P) /\ Blocks(fn.P) \subseteq ReachAvoiding(fn.P, 0) /\ IsFiniteSet(Blocks(fn.P))
  <2>1. Len(fn.P.succ) \in Nat /\ Blocks(fn.P) = 1 .. Len(fn.P.succ) /\ 1 \in Blocks(fn.P)
    BY <1>3 DEF WellFormed, WellShaped, Blocks
  <2>2. IsFiniteSet(Blocks(fn.P))
    BY <2>1, FS_Interval
  <2> QED
    BY <1>3, <2>1, <2>2 DEF WellFormed, WellShaped
<1>5. \A a \in seen : fn.dom[a] \subseteq seen
  BY DEF Built, Traversal
<1>6. 1 \in seen
  <2>1. 1 \in fn.dom[bb]
    BY <1>3, <1>4, DominatesItself
  <2> QED
    BY <1>3, <1>5, <2>1
<1>7. b \in Blocks(fn.P) \ seen /\ fn.dom[b] \subseteq seen \cup {b}
  BY <1>1, <1>3, <1>4, <1>5, <1>6, DominatorsFirst
<1>8. VisitIsNewest'
  BY <1>1, <1>2, <1>5, <1>7 DEF VisitIsNewest
<1>9. Passed' = Passed
  <2>1. ASSUME NEW v \in Candidates PROVE v \in Passed' <=> v \in Passed
    <3>1. Located(fn.P, v)
      BY CandidateFacts DEF Tracked
    <3>2. CASE v.blk = b
      <4>1. VisitedTo'[b] = 1
        BY <1>1, <1>2, <1>7 DEF VisitedTo
      <4>2. v.blk # 0 /\ v.idx \in Nat
        BY <1>7, <3>1, <3>2 DEF Blocks, Located
      <4>3. v.idx = 0 => Waiting(v)'
        <5> SUFFICES ASSUME v.idx = 0 PROVE \E q \in phis[b] : q.def = v
          BY <1>1, <1>2, <3>2 DEF Waiting
        <5>1. v \in PHIDefs(phis)[b]
          <6>1. v \in Vers(v.web) /\ v.web \in Names(fn.P)
            <7>1. v.web \in Names(fn.P) /\ (v = Src(fn.P, v.web) \/ v \in Vers(v.web))
              BY CandidateFacts DEF Tracked
            <7> QED
              BY <1>3, <7>1, FirstVersion DEF Vers
          <6> QED
            BY <1>3, <3>2, <4>2, <6>1, VersionFacts DEF Vers
        <5>2. DOMAIN phis = Blocks(fn.P)
          BY DEF IInv, TypeOK
        <5> QED
          BY <1>7, <5>1, <5>2 DEF PHIDefs
      <4> QED
        BY <1>1, <1>2, <1>7, <3>2, <4>1, <4>2, <4>3 DEF Passed
    <3>3. CASE v.blk # b
      <4>1. v.blk \in seen => VisitedTo'[v.blk] = VisitedTo[v.blk]
        BY <1>1, <1>2, <1>3, <1>7, <3>3 DEF VisitedTo
      <4>2. ~Waiting(v) /\ ~Waiting(v)'
        BY <1>1, <1>2, <3>3 DEF Waiting
      <4>3. Candidates' = Candidates
        BY <1>2 DEF Candidates
      <4> QED
        BY <1>1, <3>3, <4>1, <4>2, <4>3 DEF Passed
    <3> QED
      BY <3>2, <3>3
  <2>2. Candidates' = Candidates
    BY <1>2 DEF Candidates
  <2> QED
    BY <2>1, <2>2 DEF Passed
<1>10. ChainsHold'
  <2>1. Chains(fn.P, fn.dom, PHIDefs(phis), Passed, rd, Terminator(fn.P, bb))
    BY <1>2 DEF Tracked, InvChains, ChainsHold, Here, Point
  <2>2. ASSUME NEW n \in Names(fn.P), NEW e \in Vers(n) \cap Passed, ReachesAt(fn.dom, e, <<b, 1>>)
        PROVE  ReachesAt(fn.dom, e, Terminator(fn.P, bb))
    <3>1. Located(fn.P, e)
      BY <1>3, VersionFacts DEF Vers
    <3>2. e.blk = 0 \/ e.blk \in seen
      BY DEF Passed
    <3>3. CASE IsArgument(e)
      BY <3>3 DEF ReachesAt
    <3>4. CASE ~IsArgument(e)
      <4>1. e.blk \in seen /\ e.blk # b /\ e.blk \in fn.dom[b]
        BY <1>7, <2>2, <3>1, <3>2, <3>4 DEF Located, ReachesAt, Dominates
      <4>2. e.blk \in fn.dom[bb]
        <5>1. b \in Blocks(fn.P) /\ b # 1
          BY <1>6, <1>7
        <5>2. PICK d : d = IDom(fn.dom, b)
          OBVIOUS
        <5>3. d \in fn.dom[bb]
          BY <1>1, <5>2 DEF NextInPreorder
        <5>4. d \in fn.dom[b] \ {b} /\ fn.dom[b] \ {b} \subseteq fn.dom[d]
          BY <1>3, <1>4, <5>1, <5>2, ImmediateDominator
        <5>5. e.blk \in fn.dom[d]
          BY <4>1, <5>4
        <5>6. WellShaped(fn.P)
          BY <1>3 DEF WellFormed
        <5>7. /\ \A x \in Blocks(fn.P) : fn.dom[x] \subseteq Blocks(fn.P)
              /\ \A x, y, z \in Blocks(fn.P) : x \in fn.dom[y] /\ y \in fn.dom[z] => x \in fn.dom[z]
          BY <1>3, <5>6, DominatorsOrdered
        <5>8. e.blk \in Blocks(fn.P) /\ d \in Blocks(fn.P)
          BY <1>3, <4>1, <5>1, <5>4, <5>7
        <5> QED
          BY <1>3, <5>3, <5>5, <5>7, <5>8
      <4>3. CASE e.blk # bb
        BY <4>2, <4>3 DEF ReachesAt, Dominates, Terminator
      <4>4. CASE e.blk = bb
        <5>1. e.idx < VisitedTo[bb]
          BY <4>4, <3>1, <1>3 DEF Passed, Blocks
        <5>2. VisitedTo[bb] = Len(fn.P.code[bb]) + 1
          BY <1>2, <1>3 DEF VisitedTo
        <5> QED
          BY <4>4, <5>1, <5>2 DEF ReachesAt, Dominates, Terminator
      <4> QED
        BY <4>3, <4>4
    <3> QED
      BY <3>3, <3>4
  <2>3. Here' = <<b, 1>>
    BY <1>1, <1>2 DEF Here
  <2>4. Chains(fn.P, fn.dom, PHIDefs(phis), Passed, rd, <<b, 1>>)
    BY <2>1, <2>2, ChainsGoOn DEF Vers
  <2> QED
    BY <1>2, <1>9, <2>3, <2>4 DEF ChainsHold
<1>11. vals = << >>
  BY <1>2 DEF IInv, InvVals
<1>12. WalkFollows' /\ FoundIsLatest' /\ FocusIsPHI' /\ FocusIsSlot'
  BY <1>2, <1>11 DEF WalkFollows, FoundIsLatest, FocusIsPHI, FocusIsSlot, Idle
<1>13. ASSUME NEW c \in Blocks(fn.P), NEW r \in phis[c], NEW x \in Preds(fn.P, c)
       PROVE  Pending(c, r, x)' <=> Pending(c, r, x)
  <2>1. PICK s : s = <<c, r.def>>
    OBVIOUS
  <2>2. s # NoFocus
    BY <2>1 DEF NoFocus, Blocks
  <2> QED
    BY <1>1, <1>2, <1>3, <1>7, <2>1, <2>2 DEF Pending, Unfilled
<1> QED
  BY <1>2, <1>8, <1>10, <1>12, <1>13, TrackedStep

LEMMA SetIncomingTracked ==
  ASSUME IInv, Built, Tracked, SetIncoming
  PROVE  Tracked'
<1>1. PICK z : z = vals[1]
  OBVIOUS
<1>2. /\ stage = "edge" /\ Idle /\ focus # NoFocus /\ vals' = << >> /\ focus' = NoFocus
      /\ UNCHANGED <<fn, stage, names_left, current, rd, bb, seen, idx, todo, walk>>
  BY DEF SetIncoming, insertVars
<1> DEFINE Put(q) == IF q.def = focus[2] THEN [q EXCEPT !.in[bb] = z] ELSE q
<1>3. /\ DOMAIN phis = Blocks(fn.P) /\ bb \in Blocks(fn.P) /\ focus = <<focus[1], focus[2]>>
      /\ focus \notin todo /\ 1 \in DOMAIN vals
  BY <1>2 DEF IInv, TypeOK, InvVals, InvTodo
<1>4. /\ DOMAIN phis' = Blocks(fn.P)
      /\ \A b \in Blocks(fn.P) :
           phis'[b] = IF b = focus[1] THEN {Put(q) : q \in phis[b]} ELSE phis[b]
  BY <1>1, <1>3 DEF SetIncoming
<1>5. ASSUME NEW b \in Blocks(fn.P), NEW q \in phis[b]
      PROVE  /\ Put(q).def = q.def /\ Put(q).named = q.named
             /\ \A x \in Preds(fn.P, b) :
                  Put(q).in[x] = IF q.def = focus[2] /\ x = bb THEN z ELSE q.in[x]
  <2>1. q \in PHI(b)
    BY DEF IInv, TypeOK
  <2>2. [q EXCEPT !.in[bb] = z] = [q EXCEPT !.in = [q.in EXCEPT ![bb] = z]]
    BY <2>1 DEF PHI
  <2> QED
    BY <2>1, <2>2 DEF PHI
<1> HIDE DEF Put
<1>6. ASSUME NEW b \in Blocks(fn.P), NEW q \in phis'[b]
      PROVE  \E r \in phis[b] : /\ q.def = r.def /\ q.named = r.named /\ (q = Put(r) \/ q = r)
                                /\ \A x \in Preds(fn.P, b) :
                                     q.in[x] = IF <<b, r.def>> = focus /\ x = bb THEN z ELSE r.in[x]
                                /\ \A y \in phis'[b] : (\E t \in phis[b] : t.def = r.def) /\ y.def = q.def => y = q
  <2>0. \A t, r \in phis[b] : t.def = r.def => t = r
    BY DEF Tracked, InvSlots, PHIsNamed
  <2>1. CASE b = focus[1]
    <3>1. \A y \in phis'[b] : \E r \in phis[b] : y = Put(r)
      <4> SUFFICES ASSUME NEW y \in {Put(r) : r \in phis[b]} PROVE \E r \in phis[b] : y = Put(r)
        BY <1>4, <2>1
      <4> QED
        BY Zenon
    <3>2. PICK r \in phis[b] : q = Put(r)
      BY <3>1
    <3>3. <<b, r.def>> = focus <=> r.def = focus[2]
      BY <1>3, <2>1
    <3>4. \A y \in phis'[b] : y.def = q.def => y = q
      BY <1>5, <2>0, <3>1, <3>2
    <3> QED
      BY <1>5, <3>2, <3>3, <3>4
  <2>2. CASE b # focus[1]
    <3>1. q \in phis[b] /\ <<b, q.def>> # focus /\ phis'[b] = phis[b]
      BY <1>3, <1>4, <2>2
    <3> QED
      BY <2>0, <3>1
  <2> QED
    BY <2>1, <2>2
<1>7. ASSUME NEW b \in Blocks(fn.P), NEW q \in phis[b] PROVE \E r \in phis'[b] : r.def = q.def
  <2>1. CASE b = focus[1]
    <3>1. Put(q) \in {Put(r) : r \in phis[b]}
      BY Zenon
    <3> QED
      BY <1>4, <1>5, <2>1, <3>1
  <2>2. CASE b # focus[1]
    BY <1>4, <2>2
  <2> QED
    BY <2>1, <2>2
<1>8. PHIDefs(phis') = PHIDefs(phis)
  <2>1. \A b \in Blocks(fn.P) : {q.def : q \in phis'[b]} = {q.def : q \in phis[b]}
    BY <1>6, <1>7
  <2> QED
    BY <1>3, <1>4, <2>1 DEF PHIDefs
<1>9. Passed' = Passed /\ Here' = Here /\ Point = Terminator(fn.P, bb)
  BY <1>2, <1>8 DEF Passed, Candidates, VisitedTo, Waiting, Here, Point
<1>10. ChainsHold'
  <2>1. Chains(fn.P, fn.dom, PHIDefs(phis), Passed, rd, Here)
    BY <1>2 DEF Tracked, InvChains, ChainsHold
  <2> QED
    BY <1>2, <1>8, <1>9, <2>1 DEF ChainsHold
<1>11. InvChains'
  <2>1. WalkFollows' /\ FoundIsLatest' /\ VisitIsNewest'
    BY <1>2 DEF WalkFollows, FoundIsLatest, VisitIsNewest, Idle, Tracked, InvChains
  <2> QED
    BY <1>10, <2>1 DEF InvChains
<1>12. InvJoins'
  BY <1>2, <1>8, JoinsKept DEF Tracked
<1>13. PHIsNamed'
  <2>1. ASSUME NEW b \in Blocks(fn.P), NEW q \in phis'[b]
        PROVE  /\ IF q.named = NoName THEN \E r \in fn.P.phis[b] : q.def = Src(fn.P, r.def)
                  ELSE q.def = Val("phi", q.named, b, 0) /\ b # 1
               /\ \A r \in phis'[b] : r.def = q.def => r = q
    BY <1>6 DEF Tracked, InvSlots, PHIsNamed
  <2>2. ASSUME NEW b \in Blocks(fn.P), NEW r \in fn.P.phis[b]
        PROVE  \E q \in phis'[b] : q.def = Src(fn.P, r.def)
    BY <1>7 DEF Tracked, InvSlots, PHIsNamed
  <2> QED
    BY <1>2, <2>1, <2>2 DEF PHIsNamed
<1>14. PICK f \in phis[focus[1]] : f.def = focus[2] /\ \A k \in DOMAIN vals : vals[k].web = f.in[bb].web
  BY <1>2 DEF Tracked, InvSlots, FocusIsSlot
<1>15. focus[1] \in fn.P.succ[bb] /\ focus[1] \in Blocks(fn.P) /\ bb \in Preds(fn.P, focus[1])
  <2>1. focus[1] \in fn.P.succ[bb]
    BY <1>2 DEF Tracked, InvSlots, FocusIsSlot
  <2> QED
    BY <1>3, <2>1, FnFacts DEF WellFormed, WellShaped, Preds
<1>16. SlotsFilled'
  <2>1. ASSUME NEW b \in Blocks(fn.P), NEW q \in phis'[b], NEW x \in Preds(fn.P, b),
               NEW n \in SlotNames(fn.P, b, q, x)
        PROVE  IF Pending(b, q, x)' THEN q.in[x] = Src(fn.P, n)
               ELSE LatestFor(n, Terminator(fn.P, x), q.in[x])
    <3>1. PICK r \in phis[b] : /\ q.def = r.def /\ q.named = r.named
                               /\ q.in[x] = IF <<b, r.def>> = focus /\ x = bb THEN z ELSE r.in[x]
      BY <1>6
    <3>2. n \in SlotNames(fn.P, b, r, x)
      BY <3>1 DEF SlotNames
    <3>3. IF Pending(b, r, x) THEN r.in[x] = Src(fn.P, n)
          ELSE LatestFor(n, Terminator(fn.P, x), r.in[x])
      BY <3>2 DEF Tracked, InvSlots, SlotsFilled
    <3>4. CASE <<b, r.def>> = focus /\ x = bb
      <4>1. b = focus[1] /\ r.def = focus[2]
        BY <1>3, <3>4
      <4>2. r = f
        BY <1>14, <4>1 DEF Tracked, InvSlots, PHIsNamed
      <4>3. Pending(b, r, x)
        BY <1>2, <3>4 DEF Pending
      <4>4. z.web = n
        <5>1. r.in[x].web = z.web
          BY <1>1, <1>3, <1>14, <3>4, <4>2
        <5> QED
          BY <3>3, <4>3, <5>1 DEF Src, Val
      <4>5. LatestFor(n, Terminator(fn.P, x), z)
        <5>1. LatestFor(z.web, Point, z)
          BY <1>1, <1>2, <1>3 DEF Tracked, InvChains, FoundIsLatest
        <5> QED
          BY <1>9, <3>4, <4>4, <5>1
      <4>6. ~Pending(b, q, x)'
        <5>1. PICK s : s = <<b, q.def>>
          OBVIOUS
        <5>2. s # NoFocus /\ s = focus
          BY <1>2, <3>1, <3>4, <5>1
        <5>3. bb \in seen
          BY DEF IInv, TypeOK
        <5> QED
          BY <1>2, <1>3, <3>1, <3>4, <5>1, <5>2, <5>3 DEF Pending, Unfilled
      <4> QED
        BY <3>1, <3>4, <4>5, <4>6
    <3>5. CASE ~(<<b, r.def>> = focus /\ x = bb)
      <4>1. Pending(b, q, x)' <=> Pending(b, r, x)
        <5>1. PICK s : s = <<b, r.def>>
          OBVIOUS
        <5>2. s # NoFocus /\ (s # focus \/ x # bb)
          BY <3>5, <5>1 DEF NoFocus, Blocks
        <5> QED
          BY <1>2, <3>1, <5>1, <5>2 DEF Pending, Unfilled
      <4> QED
        BY <3>1, <3>3, <3>5, <4>1
    <3> QED
      BY <3>4, <3>5
  <2> QED
    BY <1>2, <1>8, <2>1 DEF SlotsFilled, LatestFor
<1>17. FocusIsPHI' /\ FocusIsSlot'
  BY <1>2 DEF FocusIsPHI, FocusIsSlot
<1> QED
  BY <1>11, <1>12, <1>13, <1>16, <1>17 DEF Tracked, InvSlots

LEMMA EndTraversalTracked ==
  ASSUME IInv, Built, Tracked, EndTraversal \/ Cleanup
  PROVE  Tracked'
<1>1. /\ stage \in {"edge", "cleanup"} /\ stage' \in {"cleanup", "done"}
      /\ UNCHANGED <<fn, names_left, current, phis, rd, bb, seen, idx, todo, focus, vals, walk>>
  BY DEF EndTraversal, Cleanup, insertVars, visitVars
<1>2. focus = NoFocus /\ vals = << >> /\ Idle
  BY <1>1 DEF EndTraversal, Cleanup, IInv, InvVals
<1>3. todo = {} /\ seen = Blocks(fn.P)
  BY <1>1 DEF EndTraversal, Cleanup, Built, Traversal
<1>4. Passed' = Passed /\ Here' = Here
  BY <1>1 DEF Passed, Candidates, VisitedTo, Waiting, Here, Point
<1>5. ChainsHold'
  BY <1>1, <1>4 DEF Tracked, InvChains, ChainsHold
<1>6. WalkFollows' /\ FoundIsLatest' /\ VisitIsNewest' /\ FocusIsPHI' /\ FocusIsSlot'
  BY <1>1, <1>2 DEF WalkFollows, FoundIsLatest, VisitIsNewest, FocusIsPHI, FocusIsSlot, Idle,
              Tracked, InvChains
<1>7. ASSUME NEW c \in Blocks(fn.P), NEW r \in phis[c], NEW x \in Preds(fn.P, c)
      PROVE  Pending(c, r, x)' <=> Pending(c, r, x)
  <2>1. PICK s : s = <<c, r.def>>
    OBVIOUS
  <2>2. s # NoFocus
    BY <2>1 DEF NoFocus, Blocks
  <2> QED
    BY <1>1, <1>2, <1>3, <2>1, <2>2 DEF Pending, Unfilled
<1> QED
  BY <1>1, <1>5, <1>6, <1>7, TrackedStep

-----------------------------------------------------------------------------
(* The latest versions.  Inserting PHIs, and the whole pass. *)

LEMMA StartNameTracked ==
  ASSUME IInv, Built, Tracked, NEW n \in names_left, StartName(n)
  PROVE  Tracked'
<1>1. /\ stage = "names" /\ worklist = {} /\ names_left' = names_left \ {n} /\ current' = n
      /\ worklist' = DefParents(fn.P, n) /\ phi_parents' = {}
      /\ UNCHANGED <<fn, stage, phis, rd, bb, seen, idx, todo, focus, vals, walk>>
  BY DEF StartName, visitVars
<1>2. n \in Names(fn.P)
  BY DEF IInv, TypeOK
<1>3. InvChains'
  BY <1>1 DEF InvChains
<1>4. InvSlots'
  <2>1. FocusIsPHI' /\ FocusIsSlot'
    BY <1>1 DEF FocusIsPHI, FocusIsSlot
  <2>2. \A b \in Blocks(fn.P) : \A q \in phis[b] : \A x \in Preds(fn.P, b) :
          Pending(b, q, x)' <=> Pending(b, q, x)
    BY <1>1 DEF Pending, Unfilled
  <2> QED
    BY <1>1, <2>1, <2>2, SlotsKept DEF Tracked
<1>5. InvJoins'
  <2>1. phi_parents' = {b \in Blocks(fn.P) : HasPHI(PHIDefs(phis), n, b)}
    BY <1>1 DEF Tracked, InvJoins
  <2>2. n \notin names_left' /\ \A m \in names_left' : \A b \in Blocks(fn.P) : ~HasPHI(PHIDefs(phis), m, b)
    BY <1>1 DEF Tracked, InvJoins
  <2>3. ASSUME NEW m \in Names(fn.P) \ names_left', NEW b \in Blocks(fn.P)
        PROVE  \/ m = n /\ b \in worklist'
               \/ b \in DefParents(fn.P, m) \/ HasPHI(PHIDefs(phis), m, b) =>
                    ClosedAt(fn.P, fn.dom, PHIDefs(phis), m, b)
    BY <1>1, <2>3 DEF Tracked, InvJoins
  <2> QED
    BY <1>1, <2>1, <2>2, <2>3 DEF InvJoins
<1> QED
  BY <1>3, <1>4, <1>5 DEF Tracked

LEMMA InsertPHIsTracked ==
  ASSUME IInv, Built, Tracked, NEW b \in worklist, InsertPHIs(b)
  PROVE  Tracked'
<1> DEFINE n == current
           new == {f \in Frontier(fn.P, fn.dom, b) : NeedsPHI(n, f)}
           v(f) == Val("phi", n, f, 0)
<1>1. /\ stage = "names" /\ phi_parents' = phi_parents \cup new
      /\ worklist' = (worklist \ {b}) \cup new
      /\ phis' = [f \in DOMAIN phis |-> IF f \in new THEN phis[f] \cup {NewPHI(n, f)} ELSE phis[f]]
      /\ UNCHANGED <<fn, stage, names_left, current, rd, bb, seen, idx, todo, focus, vals, walk>>
  BY DEF InsertPHIs, visitVars
<1>2. /\ n \in Names(fn.P) /\ n # NoName /\ b \in Blocks(fn.P) /\ DOMAIN phis = Blocks(fn.P)
      /\ WellFormed(fn.P)
  BY NoNameIsNoName, FnFacts DEF IInv, InvFn, TypeOK
<1>3. \A f \in new : f \in Blocks(fn.P) /\ f # 1 /\ NeedsPHI(n, f) /\ f \notin phi_parents
  BY <1>2, FrontierNotEntry DEF NeedsPHI
<1> HIDE DEF new
<1>4. /\ DOMAIN phis' = Blocks(fn.P)
      /\ \A f \in Blocks(fn.P) : \A q : q \in phis'[f] <=> q \in phis[f] \/ (f \in new /\ q = NewPHI(n, f))
  BY <1>1, <1>2
<1>5. \A f : NewPHI(n, f).def = v(f) /\ NewPHI(n, f).named = n
             /\ \A x \in Preds(fn.P, f) : NewPHI(n, f).in[x] = Src(fn.P, n)
  BY DEF NewPHI
<1>6. phi_parents = {f \in Blocks(fn.P) : HasPHI(PHIDefs(phis), n, f)}
  BY <1>1, <1>2 DEF Tracked, InvJoins
<1>7. \A f \in Blocks(fn.P) : \A d : d \in PHIDefs(phis')[f] <=> d \in PHIDefs(phis)[f] \/ (f \in new /\ d = v(f))
  BY <1>2, <1>4, <1>5 DEF PHIDefs
<1>8. \A m, f : f \in Blocks(fn.P) =>
        (HasPHI(PHIDefs(phis'), m, f) <=> HasPHI(PHIDefs(phis), m, f) \/ (f \in new /\ m = n))
  <2>1. \A m, f : Val("phi", m, f, 0) = v(f) <=> m = n
    BY DEF Val
  <2> QED
    BY <1>7, <2>1 DEF HasPHI
<1>9. bb = 1 /\ seen = {1}
  BY <1>1 DEF Built, Traversal
<1>10. \A f, q, x : Pending(f, q, x) /\ Pending(f, q, x)'
  BY <1>1, <1>9 DEF Pending, Unfilled
<1>11. InvChains'
  BY <1>1 DEF InvChains
<1>12. InvSlots'
  <2>1. FocusIsPHI' /\ FocusIsSlot'
    BY <1>1 DEF FocusIsPHI, FocusIsSlot
  <2>2. PHIsNamed'
    <3>1. ASSUME NEW f \in Blocks(fn.P), NEW q \in phis'[f]
          PROVE  /\ IF q.named = NoName THEN \E r \in fn.P.phis[f] : q.def = Src(fn.P, r.def)
                    ELSE q.def = Val("phi", q.named, f, 0) /\ f # 1
      <4>1. CASE q \in phis[f]
        BY <4>1 DEF Tracked, InvSlots, PHIsNamed
      <4>2. CASE f \in new /\ q = NewPHI(n, f)
        BY <1>2, <1>3, <1>5, <4>2
      <4> QED
        BY <1>4, <4>1, <4>2
    <3>2. ASSUME NEW f \in Blocks(fn.P), NEW q \in phis'[f], NEW r \in phis'[f], r.def = q.def
          PROVE  r = q
      <4>1. f \in new => \A y \in phis[f] : y.def # v(f)
        <5>1. f \in new => v(f) \notin PHIDefs(phis)[f]
          BY <1>3, <1>6 DEF HasPHI
        <5> QED
          BY <1>2, <5>1 DEF PHIDefs
      <4>2. \A y, z \in phis[f] : y.def = z.def => y = z
        BY DEF Tracked, InvSlots, PHIsNamed
      <4> QED
        BY <1>4, <1>5, <3>2, <4>1, <4>2
    <3>3. ASSUME NEW f \in Blocks(fn.P), NEW r \in fn.P.phis[f]
          PROVE  \E q \in phis'[f] : q.def = Src(fn.P, r.def)
      BY <1>4 DEF Tracked, InvSlots, PHIsNamed
    <3>4. ASSUME NEW f \in Blocks(fn.P), NEW q \in phis'[f]
          PROVE  /\ IF q.named = NoName THEN \E r \in fn.P.phis[f] : q.def = Src(fn.P, r.def)
                    ELSE q.def = Val("phi", q.named, f, 0) /\ f # 1
                 /\ \A r \in phis'[f] : r.def = q.def => r = q
      BY <3>1, <3>2
    <3>5. fn' = fn
      BY <1>1
    <3> QED
      BY <3>3, <3>4, <3>5 DEF PHIsNamed
  <2>3. SlotsFilled'
    <3>1. ASSUME NEW f \in Blocks(fn.P), NEW q \in phis'[f], NEW x \in Preds(fn.P, f),
                 NEW m \in SlotNames(fn.P, f, q, x)
          PROVE  q.in[x] = Src(fn.P, m)
      <4>1. CASE q \in phis[f]
        BY <1>10, <4>1 DEF Tracked, InvSlots, SlotsFilled
      <4>2. CASE f \in new /\ q = NewPHI(n, f)
        BY <1>2, <1>5, <4>2 DEF SlotNames
      <4> QED
        BY <1>4, <4>1, <4>2
    <3> QED
      BY <1>1, <1>10, <3>1 DEF SlotsFilled
  <2> QED
    BY <2>1, <2>2, <2>3 DEF InvSlots
<1>13. InvJoins'
  <2>1. phi_parents' = {f \in Blocks(fn.P) : HasPHI(PHIDefs(phis'), n, f)}
    BY <1>1, <1>3, <1>6, <1>8
  <2>2. current' \notin names_left' /\ \A m \in names_left' : \A f \in Blocks(fn.P) : ~HasPHI(PHIDefs(phis'), m, f)
    BY <1>1, <1>8 DEF Tracked, InvJoins
  <2>3. ASSUME NEW m \in Names(fn.P), NEW c \in Blocks(fn.P), ClosedAt(fn.P, fn.dom, PHIDefs(phis), m, c)
        PROVE  ClosedAt(fn.P, fn.dom, PHIDefs(phis'), m, c)
    <3>1. \A f \in Frontier(fn.P, fn.dom, c) : f \in Blocks(fn.P)
      BY DEF Frontier
    <3> QED
      BY <1>8, <2>3, <3>1 DEF ClosedAt
  <2>4. ClosedAt(fn.P, fn.dom, PHIDefs(phis'), n, b)
    <3> SUFFICES ASSUME NEW f \in Frontier(fn.P, fn.dom, b), PlaceFor(fn.P, fn.dom, n, f)
                 PROVE  HasPHI(PHIDefs(phis'), n, f)
      BY DEF ClosedAt
    <3>1. f \in Blocks(fn.P)
      BY DEF Frontier
    <3>2. CASE f \in new
      BY <1>8, <3>1, <3>2
    <3>3. CASE f \notin new
      <4>1. ~NeedsPHI(n, f)
        BY <3>3 DEF new
      <4>2. CASE f \in phi_parents
        BY <1>6, <1>8, <4>2
      <4>3. CASE f \notin phi_parents
        <5>7. PICK q \in phis[f] : \E p \in DOMAIN q.in : q.in[p] = Src(fn.P, n)
          BY <4>1, <4>3 DEF NeedsPHI, PlaceFor
        <5>1. PICK p \in DOMAIN q.in : q.in[p] = Src(fn.P, n)
          BY <5>7
        <5>2. p \in Preds(fn.P, f) /\ q \in PHI(f)
          <6>1. q \in PHI(f)
            BY <3>1 DEF IInv, TypeOK
          <6> QED
            BY <5>1, <6>1 DEF PHI
        <5>3. \A m : Src(fn.P, m).web = m
          BY DEF Src, Val
        <5>4. \A m \in SlotNames(fn.P, f, q, p) : m = n
          <6>1. \A m \in SlotNames(fn.P, f, q, p) : q.in[p] = Src(fn.P, m)
            BY <1>10, <3>1, <5>2 DEF Tracked, InvSlots, SlotsFilled
          <6> QED
            BY <5>1, <5>3, <6>1
        <5>5. CASE q.named # NoName
          <6>1. q.named = n
            BY <5>4, <5>5 DEF SlotNames
          <6>2. q.def = v(f)
            BY <3>1, <5>5, <6>1 DEF Tracked, InvSlots, PHIsNamed
          <6> QED
            BY <1>2, <1>8, <3>1, <6>2 DEF HasPHI, PHIDefs
        <5>6. CASE q.named = NoName
          <6>1. PICK r \in fn.P.phis[f] : q.def = Src(fn.P, r.def)
            BY <3>1, <5>6 DEF Tracked, InvSlots, PHIsNamed
          <6>2. r.in[p] \in SlotNames(fn.P, f, q, p)
            BY <5>6, <6>1 DEF SlotNames
          <6> QED
            BY <5>2, <5>4, <6>2 DEF PlaceFor
        <5> QED
          BY <5>5, <5>6
      <4> QED
        BY <4>2, <4>3
    <3> QED
      BY <3>2, <3>3
  <2>5. ASSUME NEW m \in Names(fn.P) \ names_left, NEW c \in Blocks(fn.P)
        PROVE  \/ m = n /\ c \in worklist'
               \/ c \in DefParents(fn.P, m) \/ HasPHI(PHIDefs(phis'), m, c) =>
                    ClosedAt(fn.P, fn.dom, PHIDefs(phis'), m, c)
    <3>1. \/ m = n /\ c \in worklist
          \/ c \in DefParents(fn.P, m) \/ HasPHI(PHIDefs(phis), m, c) =>
               ClosedAt(fn.P, fn.dom, PHIDefs(phis), m, c)
      BY <2>5 DEF Tracked, InvJoins
    <3>2. CASE c \in new /\ m = n
      BY <1>1, <3>2
    <3>3. CASE c = b /\ m = n
      BY <2>4, <3>3
    <3>4. CASE ~(c \in new /\ m = n) /\ ~(c = b /\ m = n)
      BY <1>1, <1>8, <2>3, <3>1, <3>4
    <3> QED
      BY <3>2, <3>3, <3>4
  <2> QED
    BY <1>1, <2>1, <2>2, <2>5 DEF InvJoins
<1> QED
  BY <1>11, <1>12, <1>13 DEF Tracked

LEMMA BeginRenameTracked ==
  ASSUME IInv, Built, Tracked, BeginRename
  PROVE  Tracked'
<1>1. /\ stage = "names" /\ worklist = {} /\ names_left = {} /\ stage' = "phi"
      /\ rd' = [v \in {Src(fn.P, n) : n \in Names(fn.P)} |-> v] /\ todo' = phis[bb]
      /\ UNCHANGED <<fn, names_left, current, phis, bb, seen, idx, focus, vals, walk>>
  BY DEF BeginRename, insertVars
<1>2. /\ bb = 1 /\ seen = {1} /\ focus = NoFocus /\ vals = << >> /\ Idle
      /\ 1 \in Blocks(fn.P) /\ DOMAIN phis = Blocks(fn.P) /\ WellFormed(fn.P)
  BY <1>1, FnFacts DEF Built, Traversal, IInv, InvVals, TypeOK, WellFormed, WellShaped, Blocks
<1>3. Ground(fn.P, fn.dom, PHIDefs(phis))
  BY GroundHolds DEF Tracked
<1>4. phis[1] = {}
  <2>1. fn.P.phis[1] = {}
    BY <1>2 DEF WellFormed, WellShaped
  <2> QED
    BY <1>2, <2>1 DEF Tracked, InvSlots, PHIsNamed
<1>5. ASSUME NEW w \in Candidates, w \in Passed'
      PROVE  w.blk = 0
  <2>1. w.blk = 0 \/ (w.blk = 1 /\ w.idx < 1)
    BY <1>1, <1>2, <1>5 DEF Passed, VisitedTo
  <2>2. Located(fn.P, w) /\ w.web \in Names(fn.P) /\ (w = Src(fn.P, w.web) \/ w \in Vers(w.web))
    BY CandidateFacts DEF Tracked
  <2>3. CASE w.blk = 1 /\ w.idx = 0
    <3>1. w \in Vers(w.web)
      BY <1>3, <2>2, <2>3, FirstVersion DEF Vers
    <3>2. w \in PHIDefs(phis)[1]
      BY <1>3, <2>2, <2>3, <3>1, VersionFacts DEF Vers
    <3> QED
      BY <1>2, <1>4, <3>2 DEF PHIDefs
  <2> QED
    BY <2>1, <2>2, <2>3 DEF Located
<1>6. \A n \in Names(fn.P) : Src(fn.P, n).web = n
  BY DEF Src, Val
<1>7. /\ \A n \in Names(fn.P) : Src(fn.P, n) \in DOMAIN rd' /\ rd'[Src(fn.P, n)] = Src(fn.P, n)
      /\ \A d \in DOMAIN rd' : d.web \in Names(fn.P) /\ d = Src(fn.P, d.web) /\ rd'[d] = d
  BY <1>1, <1>6
<1>8. ChainsHold'
  <2>1. ASSUME NEW n \in Names(fn.P), NEW e \in Vers(n), e \in Passed'
        PROVE  e = Src(fn.P, n)
    BY <1>3, <1>5, <2>1, VersionsAreCandidates, VersionFacts DEF Vers
  <2>2. ASSUME NEW n \in Names(fn.P), Src(fn.P, n) \in Passed'
        PROVE  Src(fn.P, n) \in Vers(n)
    <3>1. Src(fn.P, n).blk = 0
      BY <1>5, <2>2, VersionsAreCandidates
    <3>2. PICK u \in Vers(n) : u.blk = 0
      BY <1>3, <3>1, FirstVersion DEF Vers
    <3> QED
      BY <1>3, <3>2, VersionFacts DEF Vers
  <2>3. \A n \in Names(fn.P) : Src(fn.P, n) \in DOMAIN rd' /\
          \A e \in Vers(n) : e \in Passed' => UpTo(fn.dom, e, rd'[Src(fn.P, n)])
    BY <1>7, <2>1 DEF UpTo
  <2>4. \A d \in DOMAIN rd' : /\ d.web \in Names(fn.P)
                              /\ \/ rd'[d] \in Vers(d.web) /\ rd'[d] \in Passed'
                                 \/ rd'[d] = d /\ d = Src(fn.P, d.web) /\ d \notin Passed'
    BY <1>7, <2>2
  <2>5. PICK S : S = Passed'
    OBVIOUS
  <2>6. PICK pt : pt = Here'
    OBVIOUS
  <2>7. Chains(fn.P, fn.dom, PHIDefs(phis), S, rd', pt)
    BY <1>7, <2>3, <2>4, <2>5 DEF Chains, Vers
  <2> QED
    BY <1>1, <2>5, <2>6, <2>7 DEF ChainsHold
<1>9. WalkFollows' /\ FoundIsLatest' /\ VisitIsNewest' /\ FocusIsPHI' /\ FocusIsSlot'
  BY <1>1, <1>2 DEF WalkFollows, FoundIsLatest, VisitIsNewest, FocusIsPHI, FocusIsSlot, Idle
<1>10. \A b, q, x : Pending(b, q, x)' <=> Pending(b, q, x)
  BY <1>1, <1>2 DEF Pending, Unfilled
<1>11. InvSlots'
  BY <1>1, <1>9, <1>10, SlotsKept DEF Tracked
<1>12. InvJoins'
  BY <1>1, JoinsKept DEF Tracked
<1> QED
  BY <1>8, <1>9, <1>11, <1>12 DEF Tracked, InvChains

LEMMA UnchangedTracked ==
  ASSUME Tracked, UNCHANGED vars
  PROVE  Tracked'
<1> USE DEF vars, insertVars, visitVars
<1>1. Passed' = Passed /\ Here' = Here /\ Point' = Point
  BY PassedSame
<1>2. InvChains'
  BY <1>1 DEF Tracked, InvChains, ChainsHold, WalkFollows, Idle, FoundIsLatest, LatestFor, VisitIsNewest
<1>3. FocusIsPHI' /\ FocusIsSlot'
  BY DEF Tracked, InvSlots, FocusIsPHI, FocusIsSlot, Idle
<1>4. InvSlots'
  BY <1>3, SlotsKept, PendingSame DEF Tracked
<1>5. InvJoins'
  BY DEF Tracked, InvJoins
<1> QED
  BY <1>2, <1>4, <1>5 DEF Tracked

LEMMA InitTracked == ASSUME Init PROVE Tracked
<1> DEFINE P == fn.P
<1>1. PICK P0 \in Programs : fn = Analyzed(P0)
  BY DEF Init
<1>2. WellFormed(P)
  BY <1>1, ProgramsAssumption DEF Analyzed
<1>3. /\ stage = "names" /\ names_left = Names(P) /\ current = NoName /\ bb = 1 /\ seen = {1}
      /\ focus = NoFocus /\ phis = [b \in Blocks(P) |-> {SourcePHI(P, q) : q \in P.phis[b]}]
  BY DEF Init
<1>4. ASSUME NEW b \in Blocks(P), NEW q \in phis[b]
      PROVE  \E r \in P.phis[b] : /\ q.def = Src(P, r.def) /\ q.named = NoName
                                  /\ q = SourcePHI(P, r)
                                  /\ \A x \in Preds(P, b) : q.in[x] = Src(P, r.in[x])
  <2>1. PICK r \in P.phis[b] : q = SourcePHI(P, r)
    BY <1>3
  <2>2. DOMAIN r.in = Preds(P, b)
    BY <1>2 DEF WellFormed, WellShaped
  <2> QED
    BY <2>1, <2>2 DEF SourcePHI
<1>5. \A m : Src(P, m).web = m /\ Src(P, m).kind = "src"
  BY DEF Src, Val
<1>6. \A b \in Blocks(P) : \A q, r \in P.phis[b] : Src(P, q.def) = Src(P, r.def) => q = r
  BY <1>2, <1>5 DEF WellFormed, SingleDefs
<1>7. InvSlots
  <2>1. \A b, q, x : Pending(b, q, x)
    BY <1>3 DEF Pending, Unfilled
  <2>2. ASSUME NEW b \in Blocks(P), NEW q \in phis[b], NEW x \in Preds(P, b), NEW n \in SlotNames(P, b, q, x)
        PROVE  q.in[x] = Src(P, n)
    <3>1. PICK r \in P.phis[b] : /\ q.def = Src(P, r.def) /\ q.named = NoName
                                 /\ \A y \in Preds(P, b) : q.in[y] = Src(P, r.in[y])
      BY <1>4
    <3>2. PICK t \in P.phis[b] : Src(P, t.def) = q.def /\ n = t.in[x]
      BY <2>2, <3>1 DEF SlotNames
    <3>3. t = r
      BY <1>6, <3>1, <3>2
    <3> QED
      BY <3>1, <3>2, <3>3
  <2>3. SlotsFilled
    BY <2>1, <2>2 DEF SlotsFilled
  <2>4. PHIsNamed
    <3>1. ASSUME NEW b \in Blocks(P), NEW r \in P.phis[b]
          PROVE  \E q \in phis[b] : q.def = Src(P, r.def)
      <4>1. SourcePHI(P, r) \in phis[b] /\ SourcePHI(P, r).def = Src(P, r.def)
        BY <1>3 DEF SourcePHI
      <4> QED
        BY <4>1
    <3>2. \A b \in Blocks(P) : \A q, r \in phis[b] : r.def = q.def => r = q
      BY <1>4, <1>6
    <3> QED
      BY <1>4, <3>1, <3>2 DEF PHIsNamed
  <2> QED
    BY <1>3, <2>3, <2>4 DEF InvSlots, FocusIsPHI, FocusIsSlot
<1>8. InvJoins
  <2>1. ASSUME NEW m, NEW b \in Blocks(P) PROVE ~HasPHI(PHIDefs(phis), m, b)
    <3>1. \A q \in phis[b] : q.def.kind = "src"
      BY <1>4, <1>5
    <3>2. Val("phi", m, b, 0).kind = "phi"
      BY DEF Val
    <3> QED
      BY <1>3, <3>1, <3>2 DEF HasPHI, PHIDefs
  <2>2. NoName \notin Names(P)
    BY NoNameIsNoName
  <2> QED
    BY <1>3, <2>1, <2>2 DEF InvJoins
<1> QED
  BY <1>3, <1>7, <1>8 DEF Tracked, InvChains

\* Every step of the pass preserves Tracked.
LEMMA NextTracked == IInv /\ Built /\ Tracked /\ [Next]_vars => Tracked'
<1> SUFFICES ASSUME IInv, Built, Tracked, [Next]_vars PROVE Tracked'
  OBVIOUS
<1>1. CASE \E n \in names_left : StartName(n)
  BY <1>1, StartNameTracked
<1>2. CASE \E b \in worklist : InsertPHIs(b)
  BY <1>2, InsertPHIsTracked
<1>3. CASE BeginRename
  BY <1>3, BeginRenameTracked
<1>4. CASE FollowChain \/ EndChain
  BY <1>4, FollowChainTracked, EndChainTracked
<1>5. CASE PHIStep
  BY <1>5, VisitSourcePHITracked, SeekPHITracked, VisitInsertedPHITracked, EndPHIsTracked DEF PHIStep
<1>6. CASE SeekOperand
  BY <1>6, SeekOperandTracked
<1>7. CASE VisitSequence
  BY <1>7, WriteTracked, PairTracked, SwapTracked, SplitTracked DEF VisitSequence
<1>8. CASE VisitAssoc
  BY <1>8, WriteTracked, HasTracked DEF VisitAssoc
<1>9. CASE VisitAccess
  BY <1>9, WriteTracked, StructWriteTracked, ReadTracked DEF VisitAccess
<1>10. CASE VisitInstruction
  BY <1>10, InstructionTracked
<1>11. CASE EndInstructions
  BY <1>11, EndInstructionsTracked
<1>12. CASE EdgeStep
  BY <1>12, SeekIncomingTracked, SetIncomingTracked, NextBlockTracked, EndTraversalTracked DEF EdgeStep
<1>13. CASE Cleanup
  BY <1>13, EndTraversalTracked
<1>14. CASE Terminating \/ UNCHANGED vars
  BY <1>14, UnchangedTracked DEF Terminating
<1> QED
  BY <1>1, <1>2, <1>3, <1>4, <1>5, <1>6, <1>7, <1>8, <1>9, <1>10, <1>11, <1>12,
     <1>13, <1>14 DEF Next, Pass

(***************************************************************************)
(* Each reaching definition the pass finds is the latest version of its    *)
(* name: of those that every path to the point defines, the one that every *)
(* such path defines last (update_reaching_definition).                    *)
(***************************************************************************)
THEOREM ReachingDefinitionsAreLatest ==
  ASSUME SignaturesHold
  PROVE  Spec => []FoundIsLatest
<1>1. Init => IInv /\ Built /\ Tracked
  BY InitIInv, InitBuilt, InitTracked
<1>2. IInv /\ Built /\ Tracked /\ [Next]_vars => (IInv /\ Built /\ Tracked)'
  BY NextIInv, NextBuilt, NextTracked
<1>3. ASSUME IInv, Tracked PROVE FoundIsLatest
  <2>1. CASE stage = "names"
    <3>1. vals = << >>
      BY <1>3, <2>1 DEF IInv, InvVals
    <3>2. DOMAIN vals = {}
      BY <3>1
    <3> QED
      BY <3>2 DEF FoundIsLatest
  <2>2. CASE stage # "names"
    BY <1>3, <2>2 DEF Tracked, InvChains
  <2> QED
    BY <2>1, <2>2
<1> QED
  BY <1>1, <1>2, <1>3, PTL DEF Spec

(***************************************************************************)
(* The incoming value of a PHI, once SetIncoming has filled it in, is the  *)
(* latest version of the name the PHI stands for on that edge.             *)
(***************************************************************************)
THEOREM IncomingValuesAreLatest ==
  ASSUME SignaturesHold
  PROVE  Spec => []SlotsFilled
<1>1. Init => IInv /\ Built /\ Tracked
  BY InitIInv, InitBuilt, InitTracked
<1>2. IInv /\ Built /\ Tracked /\ [Next]_vars => (IInv /\ Built /\ Tracked)'
  BY NextIInv, NextBuilt, NextTracked
<1>3. Tracked => SlotsFilled
  BY DEF Tracked, InvSlots
<1> QED
  BY <1>1, <1>2, <1>3, PTL DEF Spec

(***************************************************************************)
(* A block behind which definitions of a name meet has a PHI for it, when  *)
(* the pass is through with the name (insertPHIs and its worklist), except *)
(* where the pass wants none.                                              *)
(***************************************************************************)
THEOREM JoinsHavePHIs ==
  ASSUME SignaturesHold
  PROVE  Spec => []InvJoins
<1>1. Init => IInv /\ Built /\ Tracked
  BY InitIInv, InitBuilt, InitTracked
<1>2. IInv /\ Built /\ Tracked /\ [Next]_vars => (IInv /\ Built /\ Tracked)'
  BY NextIInv, NextBuilt, NextTracked
<1>3. Tracked => InvJoins
  BY DEF Tracked
<1> QED
  BY <1>1, <1>2, <1>3, PTL DEF Spec
=============================================================================
