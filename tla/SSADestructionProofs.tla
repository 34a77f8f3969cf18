------------------------ MODULE SSADestructionProofs ------------------------
(***************************************************************************)
(* The destruction pass, for every set of functions in SSA form, lowered   *)
(* or not: a value that was replaced is never used again, and what cleanup *)
(* erases is used by nothing that is left.                                 *)
(***************************************************************************)
EXTENDS SSADestruction, FiniteSetTheorems, SequenceTheorems, WellFoundedInduction, TLAPS

-----------------------------------------------------------------------------
(* Natural numbers. *)

\* A set of naturals has a least member.
LEMMA LeastNat ==
  ASSUME NEW T \in SUBSET Nat, T # {}
  PROVE  \E n \in T : \A k \in T : n <= k
<1> DEFINE R == {ss \in Nat \X Nat : ss[1] < ss[2]}
<1>1. IsWellFoundedOn(R, Nat)
  BY NatLessThanWellFounded DEF OpToRel
<1>2. \A y, x \in Nat : y < x => <<y, x>> \in R
  OBVIOUS
<1> HIDE DEF R
<1>3. PICK x \in T : \A y \in T : ~(<<y, x>> \in R)
  BY <1>1, WFMin
<1>4. \A y \in T : x <= y
  <2> TAKE y \in T
  <2>1. x \in Nat /\ y \in Nat
    OBVIOUS
  <2>2. ~(y < x)
    BY <1>2, <1>3, <2>1
  <2> QED
    BY <2>1, <2>2
<1> QED
  BY <1>4

-----------------------------------------------------------------------------
(* Dominators, as in SSAConstructionProofs: the two passes cannot be extended together. *)

\* The blocks reached without entering avoid hold the entry and are closed.
LEMMA ReachClosed ==
  ASSUME NEW P, 1 \in Blocks(P), NEW d
  PROVE  ClosedFrom(P, d, ReachAvoiding(P, d))
<1>1. 1 # d => 1 \in ReachAvoiding(P, d)
  BY DEF ReachAvoiding, ClosedFrom
<1>2. ASSUME NEW p \in ReachAvoiding(P, d), NEW b \in Blocks(P), b \in P.succ[p], b # d
      PROVE  b \in ReachAvoiding(P, d)
  BY <1>2 DEF ReachAvoiding, ClosedFrom
<1> QED
  BY <1>1, <1>2 DEF ClosedFrom

\* They are the least such set.
LEMMA ReachLeast ==
  ASSUME NEW P, NEW d, NEW S \in SUBSET Blocks(P), ClosedFrom(P, d, S)
  PROVE  ReachAvoiding(P, d) \subseteq S
  BY DEF ReachAvoiding

LEMMA DominatesItself ==
  ASSUME NEW P, 1 \in Blocks(P), NEW b \in Blocks(P)
  PROVE  b \notin ReachAvoiding(P, b) /\ b \in Dominators(P)[b] /\ 1 \in Dominators(P)[b]
<1>1. b \notin ReachAvoiding(P, b)
  <2> DEFINE S == ReachAvoiding(P, b) \ {b}
  <2>1. S \in SUBSET Blocks(P)
    BY DEF ReachAvoiding
  <2>2. ClosedFrom(P, b, S)
    BY ReachClosed DEF ClosedFrom
  <2> QED
    BY <2>1, <2>2, ReachLeast
<1>2. b \notin ReachAvoiding(P, 1)
  <2>1. ClosedFrom(P, 1, {})
    BY DEF ClosedFrom
  <2>2. ReachAvoiding(P, 1) \subseteq {}
    BY <2>1, ReachLeast
  <2> QED
    BY <2>2
<1> QED
  BY <1>1, <1>2 DEF Dominators

LEMMA DominatesOn ==
  ASSUME NEW P, 1 \in Blocks(P), NEW b \in Blocks(P), NEW a \in Dominators(P)[b]
  PROVE  Dominators(P)[a] \subseteq Dominators(P)[b]
<1> SUFFICES ASSUME NEW c \in Dominators(P)[a]
             PROVE  c \in Dominators(P)[b]
  OBVIOUS
<1>1. a \in Blocks(P) /\ b \notin ReachAvoiding(P, a)
  BY DEF Dominators
<1>2. c \in Blocks(P) /\ a \notin ReachAvoiding(P, c)
  BY <1>1 DEF Dominators
<1> DEFINE S == ReachAvoiding(P, c) \cap ReachAvoiding(P, a)
<1>3. S \in SUBSET Blocks(P)
  BY DEF ReachAvoiding
<1>4. ClosedFrom(P, c, S)
  BY <1>2, ReachClosed DEF ClosedFrom
<1>5. ReachAvoiding(P, c) \subseteq S
  BY <1>3, <1>4, ReachLeast
<1> QED
  BY <1>1, <1>2, <1>5 DEF Dominators

\* Of two blocks that dominate a block that can be reached, one dominates the other.
LEMMA DominatorsAreAChain ==
  ASSUME NEW P, 1 \in Blocks(P), Blocks(P) \subseteq ReachAvoiding(P, 0),
         NEW b \in Blocks(P), NEW a \in Dominators(P)[b], NEW c \in Dominators(P)[b]
  PROVE  a \in Dominators(P)[c] \/ c \in Dominators(P)[a]
<1>1. /\ a \in Blocks(P) /\ b \notin ReachAvoiding(P, a)
      /\ c \in Blocks(P) /\ b \notin ReachAvoiding(P, c)
  BY DEF Dominators
<1> SUFFICES ASSUME c \in ReachAvoiding(P, a), a \in ReachAvoiding(P, c)
             PROVE  FALSE
  BY <1>1 DEF Dominators
<1> DEFINE S == ReachAvoiding(P, a) \cup ReachAvoiding(P, c)
<1>2. S \in SUBSET Blocks(P)
  BY DEF ReachAvoiding
<1>3. a # c
  BY <1>1, DominatesItself
<1>4. ClosedFrom(P, 0, S)
  <2>1. ClosedFrom(P, a, ReachAvoiding(P, a)) /\ ClosedFrom(P, c, ReachAvoiding(P, c))
    BY ReachClosed
  <2> QED
    BY <1>3, <2>1 DEF ClosedFrom
<1>5. ReachAvoiding(P, 0) \subseteq S
  BY <1>2, <1>4, ReachLeast
<1> QED
  BY <1>1, <1>5

LEMMA ImmediateDominator ==
  ASSUME NEW P, 1 \in Blocks(P), Blocks(P) \subseteq ReachAvoiding(P, 0), IsFiniteSet(Blocks(P)),
         NEW b \in Blocks(P), b # 1, NEW dom, dom = Dominators(P)
  PROVE  IDom(dom, b) \in dom[b] \ {b} /\ dom[b] \ {b} \subseteq dom[IDom(dom, b)]
<1> DEFINE D == dom[b] \ {b}
           N == Cardinality(Blocks(P))
           Q == {n \in Nat : \E a \in D : n = N - Cardinality(dom[a])}
<1>1. 1 \in D
  BY DominatesItself
<1>2. \A a \in D : a \in Blocks(P) /\ dom[a] \subseteq Blocks(P)
  BY DEF Dominators
<1>3. \A a \in D : /\ IsFiniteSet(dom[a]) /\ Cardinality(dom[a]) \in Nat
                   /\ N - Cardinality(dom[a]) \in Nat
  <2> SUFFICES ASSUME NEW a \in D
               PROVE  /\ IsFiniteSet(dom[a]) /\ Cardinality(dom[a]) \in Nat
                      /\ N - Cardinality(dom[a]) \in Nat
    OBVIOUS
  <2>1. IsFiniteSet(dom[a]) /\ Cardinality(dom[a]) <= N
    BY <1>2, FS_Subset
  <2>2. Cardinality(dom[a]) \in Nat /\ N \in Nat
    BY <2>1, FS_CardinalityType
  <2> HIDE DEF N
  <2> QED
    BY <2>1, <2>2
<1>4. N \in Nat
  BY FS_CardinalityType
<1> HIDE DEF N
<1>5. PICK n \in Q : \A k \in Q : n <= k
  <2>1. N - Cardinality(dom[1]) \in Q
    BY <1>1, <1>3
  <2> HIDE DEF Q
  <2>2. Q \in SUBSET Nat
    BY DEF Q
  <2> QED
    BY <2>1, <2>2, LeastNat
<1>6. PICK a \in D : n = N - Cardinality(dom[a])
  BY DEF Q
<1>7. \A c \in D : Cardinality(dom[c]) <= Cardinality(dom[a])
  BY <1>3, <1>4, <1>5, <1>6
<1>8. D \subseteq dom[a]
  <2> SUFFICES ASSUME NEW c \in D, c \notin dom[a]
               PROVE  FALSE
    OBVIOUS
  <2>1. a \in dom[c]
    BY DominatorsAreAChain
  <2>2. dom[a] \subseteq dom[c] /\ c \in dom[c]
    BY <1>2, <2>1, DominatesOn, DominatesItself
  <2>3. dom[a] # dom[c]
    BY <2>2
  <2>4. Cardinality(dom[a]) < Cardinality(dom[c])
    BY <1>3, <2>2, <2>3, FS_Subset, FS_CardinalityType
  <2> QED
    BY <1>3, <1>7, <2>4
<1> QED
  BY <1>8 DEF IDom

\* A traversal of the dominator tree comes to a block after all that dominate it.
LEMMA DominatorsFirst ==
  ASSUME NEW P, 1 \in Blocks(P), Blocks(P) \subseteq ReachAvoiding(P, 0), IsFiniteSet(Blocks(P)),
         NEW dom, dom = Dominators(P), NEW seen0, 1 \in seen0, NEW last \in seen0,
         \A b \in seen0 : dom[b] \subseteq seen0, NEW b \in NextInPreorder(P, dom, seen0, last)
  PROVE  b \in Blocks(P) \ seen0 /\ dom[b] \subseteq seen0 \cup {b}
<1>1. b \in Blocks(P) \ seen0 /\ IDom(dom, b) \in dom[last]
  BY DEF NextInPreorder
<1>2. dom[b] \ {b} \subseteq dom[IDom(dom, b)]
  BY <1>1, ImmediateDominator
<1> QED
  BY <1>1, <1>2

-----------------------------------------------------------------------------
(* Sequences and values. *)

LEMMA ElementBetween ==
  ASSUME NEW S, NEW front \in Seq(S), NEW e \in S, NEW back \in Seq(S),
         NEW whole, whole = (front \o <<e>>) \o back
  PROVE  /\ whole \in Seq(S)
         /\ \A j \in DOMAIN whole :
              whole[j] = e \/ (\E k \in DOMAIN front : whole[j] = front[k]) \/ (\E k \in DOMAIN back : whole[j] = back[k])
<1>1. <<e>> \in Seq(S) /\ Len(<<e>>) = 1 /\ <<e>>[1] = e
  OBVIOUS
<1>2. PICK t : t = front \o <<e>>
  OBVIOUS
<1>3. /\ t \in Seq(S) /\ Len(t) = Len(front) + 1
      /\ \A k \in DOMAIN t : t[k] = e \/ \E m \in DOMAIN front : t[k] = front[m]
  BY <1>1, <1>2
<1>4. /\ whole \in Seq(S) /\ Len(whole) = Len(t) + Len(back)
      /\ \A j \in 1 .. Len(t) + Len(back) :
           whole[j] = IF j <= Len(t) THEN t[j] ELSE back[j - Len(t)]
  BY <1>2, <1>3, ConcatProperties
<1>5. ASSUME NEW j \in DOMAIN whole, j > Len(t)
      PROVE  \E k \in DOMAIN back : whole[j] = back[k]
  <2>1. j - Len(t) \in DOMAIN back /\ whole[j] = back[j - Len(t)]
    BY <1>3, <1>4, <1>5
  <2> QED
    BY <2>1
<1>6. ASSUME NEW j \in DOMAIN whole, ~(j > Len(t))
      PROVE  whole[j] = e \/ \E k \in DOMAIN front : whole[j] = front[k]
  <2>1. j \in DOMAIN t /\ whole[j] = t[j]
    BY <1>3, <1>4, <1>6
  <2> QED
    BY <1>3, <2>1
<1> QED
  BY <1>4, <1>5, <1>6

LEMMA InsertAtElements ==
  ASSUME NEW S, NEW s \in Seq(S), NEW i \in 1 .. Len(s), NEW e \in S
  PROVE  /\ InsertAt(s, i, e) \in Seq(S)
         /\ \A j \in DOMAIN InsertAt(s, i, e) :
              InsertAt(s, i, e)[j] = e \/ \E k \in DOMAIN s : InsertAt(s, i, e)[j] = s[k]
<1>1. PICK front : front = SubSeq(s, 1, i - 1)
  OBVIOUS
<1>2. PICK back : back = SubSeq(s, i, Len(s))
  OBVIOUS
<1>3. front \in Seq(S) /\ \A k \in DOMAIN front : k \in DOMAIN s /\ front[k] = s[k]
  BY <1>1
<1>4. back \in Seq(S) /\ \A k \in DOMAIN back : i + k - 1 \in DOMAIN s /\ back[k] = s[i + k - 1]
  BY <1>2
<1>5. PICK whole : whole = (front \o <<e>>) \o back
  OBVIOUS
<1>6. InsertAt(s, i, e) = whole
  BY <1>1, <1>2, <1>5 DEF InsertAt
<1>7. /\ whole \in Seq(S)
      /\ \A j \in DOMAIN whole :
              whole[j] = e \/ (\E k \in DOMAIN front : whole[j] = front[k]) \/ (\E k \in DOMAIN back : whole[j] = back[k])
  BY <1>3, <1>4, <1>5, ElementBetween
<1>8. \A j \in DOMAIN whole : whole[j] = e \/ \E k \in DOMAIN s : whole[j] = s[k]
  BY <1>3, <1>4, <1>7
<1> QED
  BY <1>6, <1>7, <1>8

LEMMA BeforeIsStrict ==
  ASSUME NEW f, NEW v, ~v.impl
  PROVE  /\ ~Before(f, v, v)
         /\ \A u, w : Before(f, u, w) /\ Before(f, w, v) => Before(f, u, v)
  BY DEF Before, IsInput

LEMMA ValueFacts ==
  /\ \A v \in Value : ImplOf(v) \in Value /\ ImplOf(v).impl
  /\ \A v \in Value : \A j \in Nat : SizeAt(v, j) \in Value /\ ~SizeAt(v, j).impl
  /\ \A v, j : IsInput(SizeAt(v, j)) => j = 0
  /\ \A n \in STRING \cup {NoName} : SSAVal(n) \in Value
  BY DEF Value, ImplOf, SizeAt, SSAVal, IsInput

-----------------------------------------------------------------------------
(* The instruction in hand, and what a rewritten one is replaced by. *)

LEMMA InHand ==
  ASSUME TypeOK, pos <= Len(code[blk])
  PROVE  /\ pos \in DOMAIN code[blk] /\ blk \in Blocks(fn.P)
         /\ Here = code[blk][pos] /\ Here \in Inst /\ Here.def \in Value
         /\ \A j \in DOMAIN Here.c : Here.c[j] \in Value
<1>1. code[blk] \in Seq(Inst) /\ pos \in Nat \ {0} /\ blk \in Blocks(fn.P)
  BY DEF TypeOK
<1>2. pos \in DOMAIN code[blk] /\ code[blk][pos] \in Inst
  BY <1>1
<1> QED
  BY <1>1, <1>2 DEF Here, Inst

LEMMA OrderedHere ==
  ASSUME TypeOK, VisitsInOrder, stage = "visit"
  PROVE  \A b \in Blocks(fn.P) : \A i \in DOMAIN code[b] :
           code[b][i] \in Inst /\ Ordered(fn, code[b][i])
<1>1. \A b \in Blocks(fn.P) : code[b] \in Seq(Inst)
  BY DEF TypeOK
<1>2. \A b \in Blocks(fn.P) : \A i \in DOMAIN code[b] : code[b][i] \in Inst
  BY <1>1
<1> QED
  BY <1>2 DEF VisitsInOrder

LEMMA HalvesFollow ==
  ASSUME TypeOK, VisitsInOrder, stage = "visit", NEW pair, NEW p \in Halves(pair)
  PROVE  At(p).def \in Value /\ IsInput(At(p).def) /\ Before(fn, pair, At(p).def)
<1>1. PICK b, i : b \in Blocks(fn.P) /\ i \in DOMAIN code[b] /\ p = <<b, i>>
  <2>1. DOMAIN code = Blocks(fn.P)
    BY DEF TypeOK
  <2> QED
    BY <2>1 DEF Halves, Positions
<1>2. At(p) = code[b][i] /\ At(p) \in Inst /\ Ordered(fn, At(p))
  BY <1>1, OrderedHere DEF At
<1>3. At(p).op \in {"Extract0", "Extract1"} /\ At(p).c[1] = pair
  BY DEF Halves
<1>4. At(p).form = "ssa" /\ At(p).c # << >> /\ IsInput(At(p).def)
  BY <1>2, <1>3 DEF Ordered, Applied, LoweredOps, OverOperand, Returning
<1>5. At(p).c \in Seq(Value) /\ At(p).def \in Value
  BY <1>2 DEF Inst
<1>6. 1 \in DOMAIN At(p).c
  BY <1>4, <1>5
<1> QED
  BY <1>2, <1>3, <1>4, <1>5, <1>6 DEF Ordered

LEMMA ReplacementFacts ==
  ASSUME TypeOK, VisitsInOrder, Visiting(LoweredOps), NEW form \in {"mut", "impl"},
         form = "mut" => Here.op \in MutatedOps,
         NEW R, R = Replacement(Here, form), NEW v \in DOMAIN R
  PROVE  v \in Value /\ ~v.impl /\ R[v] \in Value /\ Before(fn, R[v], v)
<1>0. /\ stage = "visit" /\ Here \in Inst /\ Ordered(fn, Here) /\ Here.form = "ssa" /\ Here.op \in LoweredOps
      /\ Here.def \in Value /\ Here.c \in Seq(Value)
  BY InHand, OrderedHere DEF Visiting, Inst
<1>1. CASE Here.op = "SeqSwap"
  <2>1. IsInput(Here.def) /\ Len(Here.c) = 2
    BY <1>0, <1>1 DEF Ordered, Applied
  <2>2. \A k \in {1, 2} : Here.c[k] \in Value /\ IsInput(Here.c[k]) /\ Before(fn, Here.c[k], Here.def)
    BY <1>0, <2>1 DEF Ordered
  <2>3. \E k \in {1, 2} : R[v] = Here.c[k]
    BY <1>1 DEF Replacement
  <2>4. PICK p \in Halves(Here.def) : At(p).def = v
    BY <1>1 DEF Replacement
  <2>5. v \in Value /\ IsInput(v) /\ Before(fn, Here.def, v)
    BY <1>0, <2>4, HalvesFollow
  <2>6. ~v.impl
    BY <2>5 DEF IsInput
  <2> QED
    BY <2>2, <2>3, <2>5, <2>6, BeforeIsStrict
<1>2. CASE Here.op # "SeqSwap"
  <2>1. v = Here.def /\ Here.op # "Delete"
    BY <1>2 DEF Replacement
  <2>2. R[v] = IF form = "mut" \/ Here.op \in OverOperand THEN Here.c[1] ELSE ImplOf(v)
    BY <1>2, <2>1 DEF Replacement
  <2>3. ~v.impl /\ v \in Value
    BY <1>0, <2>1 DEF Ordered
  <2>4. CASE form = "mut" \/ Here.op \in OverOperand
    <3>1. Here.op \notin {"Size", "SeqAlloc", "AssocAlloc", "End", "Call", "Return"}
      BY <2>4 DEF MutatedOps, OverOperand
    <3>2. 1 \in DOMAIN Here.c /\ IsInput(v)
      BY <1>0, <2>1, <3>1 DEF Ordered, Applied
    <3>3. Here.c[1] \in Value /\ Before(fn, Here.c[1], v)
      BY <1>0, <2>1, <3>2 DEF Ordered
    <3> QED
      BY <2>2, <2>3, <2>4, <3>3
  <2>5. CASE ~(form = "mut" \/ Here.op \in OverOperand)
    BY <2>2, <2>3, <2>5, ValueFacts DEF Before
  <2> QED
    BY <2>4, <2>5
<1> QED
  BY <1>1, <1>2

-----------------------------------------------------------------------------
(* The visitors. *)

\* Before anything is replaced only the code and the map of replacements matter.
LEMMA StillVisiting ==
  ASSUME TypeOK, IInv, stage = "visit", stage' = "visit", fn' = fn, replaced' = replaced,
         \A b \in Blocks(fn.P) : \A i \in DOMAIN code'[b] : Ordered(fn, code'[b][i]),
         \A v \in DOMAIN coalesced' :
           ~v.impl /\ coalesced'[v] \in Value /\ Before(fn, coalesced'[v], v)
  PROVE  VisitsInOrder' /\ ReplacedByEarlier' /\ ReplacedUnused'
<1>1. DOMAIN replaced' = {}
  BY DEF IInv, VisitsInOrder
<1>2. VisitsInOrder'
  BY <1>1 DEF VisitsInOrder
<1>3. ReplacedByEarlier'
  BY <1>1 DEF ReplacedByEarlier
<1>4. ReplacedUnused'
  BY <1>1 DEF ReplacedUnused
<1> QED
  BY <1>2, <1>3, <1>4

LEMMA RewriteKeeps ==
  ASSUME IInv, Visiting(LoweredOps), NEW form \in {"mut", "impl"},
         form = "mut" => Here.op \in MutatedOps, Rewrite(form)
  PROVE  IInv'
<1> USE DEF IInv
<1>0. PICK E : E = [Here EXCEPT !.form = form, !.def = ImplOf(@)]
  OBVIOUS
<1>1. /\ stage = "visit" /\ stage' = "visit" /\ pos \in DOMAIN code[blk] /\ blk \in Blocks(fn.P)
      /\ UNCHANGED <<fn, stage, seen, blk, replaced, erased, ptr, phis>> /\ pos' = pos + 2
  BY InHand DEF Visiting, Rewrite, Advance
<1>2. Here \in Inst /\ Here.def \in Value /\ Ordered(fn, Here) /\ Here.op \in LoweredOps
  BY <1>1, InHand, OrderedHere DEF Visiting
<1>3. E \in Inst /\ Ordered(fn, E)
  <2>1. ImplOf(Here.def) \in Value
    BY <1>2, ValueFacts
  <2>2. E \in Inst /\ E.c = Here.c /\ E.op = Here.op /\ E.form = form
    BY <1>0, <1>2, <2>1 DEF Inst
  <2> QED
    BY <1>2, <2>2 DEF Ordered, Applied
<1>4. code' = [code EXCEPT ![blk] = InsertAt(@, pos, E)]
  BY <1>0 DEF Rewrite, InsertBefore
<1>5. /\ code' \in [Blocks(fn.P) -> Seq(Inst)]
      /\ \A a \in Blocks(fn.P) : \A k \in DOMAIN code'[a] :
           code'[a][k] = E \/ \E b \in Blocks(fn.P) : \E m \in DOMAIN code[b] : code'[a][k] = code[b][m]
  <2>1. code \in [Blocks(fn.P) -> Seq(Inst)]
    BY DEF TypeOK
  <2>2. PICK s \in Seq(Inst) : s = code[blk]
    BY <1>1, <2>1
  <2>3. PICK t : t = InsertAt(s, pos, E)
    OBVIOUS
  <2>4. pos \in 1 .. Len(s) /\ E \in Inst
    BY <1>1, <1>3, <2>2
  <2>5. t \in Seq(Inst) /\ \A j \in DOMAIN t : t[j] = E \/ \E k \in DOMAIN s : t[j] = s[k]
    BY <2>2, <2>3, <2>4, InsertAtElements
  <2>6. \A a \in Blocks(fn.P) : code'[a] = IF a = blk THEN t ELSE code[a]
    BY <1>1, <1>4, <2>1, <2>2, <2>3
  <2>7. code' \in [Blocks(fn.P) -> Seq(Inst)]
    BY <1>1, <1>4, <2>1, <2>2, <2>3, <2>5
  <2>8. ASSUME NEW a \in Blocks(fn.P), NEW k \in DOMAIN code'[a]
        PROVE  code'[a][k] = E \/ \E b \in Blocks(fn.P) : \E m \in DOMAIN code[b] : code'[a][k] = code[b][m]
    <3>1. CASE a = blk
      <4>1. code'[a] = t
        BY <2>6, <3>1
      <4>2. code'[a][k] = E \/ \E m \in DOMAIN s : code'[a][k] = s[m]
        BY <2>5, <4>1
      <4> QED
        BY <1>1, <2>2, <4>2
    <3>2. CASE a # blk
      <4>1. code'[a] = code[a]
        BY <2>6, <3>2
      <4> QED
        BY <4>1
    <3> QED
      BY <3>1, <3>2
  <2> QED
    BY <2>7, <2>8
<1>6. \A b \in Blocks(fn.P) : \A i \in DOMAIN code'[b] : Ordered(fn, code'[b][i])
  BY <1>1, <1>3, <1>5, OrderedHere
<1>7. PICK R : R = Replacement(Here, form)
  OBVIOUS
<1>8. \A v \in DOMAIN R : v \in Value /\ ~v.impl /\ R[v] \in Value /\ Before(fn, R[v], v)
  BY <1>7, ReplacementFacts
<1>9. /\ coalesced' = [v \in DOMAIN coalesced \cup DOMAIN R |->
                         IF v \in DOMAIN R THEN R[v] ELSE coalesced[v]]
      /\ marked' = marked \cup {Here.def} \cup DOMAIN R
  BY <1>7 DEF Rewrite, Coalesce, Mark
<1>10. \A v \in DOMAIN coalesced' :
         ~v.impl /\ coalesced'[v] \in Value /\ Before(fn, coalesced'[v], v)
  BY <1>8, <1>9 DEF ReplacedByEarlier
<1>11. TypeOK'
  <2>1. DOMAIN coalesced' \subseteq Value /\ marked' \subseteq Value
    BY <1>2, <1>8, <1>9 DEF TypeOK
  <2>2. pos' \in Nat \ {0}
    BY <1>1 DEF TypeOK
  <2> QED
    BY <1>1, <1>5, <2>1, <2>2 DEF TypeOK
<1> QED
  BY <1>1, <1>6, <1>10, <1>11, StillVisiting

LEMMA RenamingKeeps ==
  ASSUME IInv, VisitRenaming
  PROVE  IInv'
<1> USE DEF IInv
<1>1. /\ stage = "visit" /\ stage' = "visit" /\ pos' = pos + 1
      /\ UNCHANGED <<fn, stage, seen, blk, replaced, erased, ptr, code, phis>>
  BY DEF VisitRenaming, Visiting, Advance
<1>2. /\ Here.form = "ssa" /\ Here.op \in RenamingOps
      /\ Here.def \in Value /\ Here \in Inst /\ Ordered(fn, Here)
  BY <1>1, InHand, OrderedHere DEF VisitRenaming, Visiting
<1>3. Here.op \notin {"Size", "SeqAlloc", "AssocAlloc", "End", "Call", "Return"}
  BY <1>2 DEF RenamingOps
<1>4. IsInput(Here.def) /\ Here.c # << >> /\ Here.c \in Seq(Value)
  BY <1>2, <1>3 DEF Ordered, Applied, Inst
<1>5. 1 \in DOMAIN Here.c /\ Here.c[1] \in Value
  BY <1>4
<1>6. Before(fn, Here.c[1], Here.def) /\ ~Here.def.impl
  BY <1>2, <1>4, <1>5 DEF Ordered
<1>7. /\ coalesced' = [v \in DOMAIN coalesced \cup {Here.def} |->
                         IF v = Here.def THEN Here.c[1] ELSE coalesced[v]]
      /\ marked' = marked \cup {Here.def}
  BY DEF VisitRenaming, Coalesce, Mark
<1>8. \A v \in DOMAIN coalesced' :
         ~v.impl /\ coalesced'[v] \in Value /\ Before(fn, coalesced'[v], v)
  BY <1>5, <1>6, <1>7 DEF ReplacedByEarlier
<1>9. TypeOK'
  <2>1. DOMAIN coalesced' \subseteq Value /\ marked' \subseteq Value
    BY <1>2, <1>7 DEF TypeOK
  <2>2. pos' \in Nat \ {0}
    BY <1>1 DEF TypeOK
  <2> QED
    BY <1>1, <2>1, <2>2 DEF TypeOK
<1>10. \A b \in Blocks(fn.P) : \A i \in DOMAIN code'[b] : Ordered(fn, code'[b][i])
  BY <1>1, OrderedHere
<1> QED
  BY <1>1, <1>8, <1>9, <1>10, StillVisiting

\* An operation that knows the end of its collection has the collection.
LEMMA SizeFacts ==
  ASSUME NEW I \in Inst, Ordered(fn, I), I.op \in EndUsers, NEW j \in DOMAIN I.x,
         NEW size, size = SizeAt(I.def, j),
         NEW inst, inst = [form |-> "ssa", op |-> "Size", def |-> size,
                           c |-> <<EndOf(I, j)>>, x |-> << >>]
  PROVE  inst \in Inst /\ Ordered(fn, inst) /\ size \in Value
<1>1. I.c \in Seq(Value) /\ I.x \in Seq(Value) /\ I.def \in Value /\ j \in Nat \ {0}
  BY DEF Inst
<1>2. I.c # << >> /\ (I.op = "SeqSwap" => Len(I.c) = 2)
  BY DEF Ordered, Applied, EndUsers
<1>3. EndOf(I, j) \in Value
  BY <1>1, <1>2 DEF EndOf
<1>4. size \in Value /\ ~size.impl /\ ~IsInput(size)
  BY <1>1, ValueFacts
<1>5. PICK one, none : one = <<EndOf(I, j)>> /\ none = << >>
  OBVIOUS
<1>6. one \in Seq(Value) /\ none \in Seq(Value) /\ one # << >>
  BY <1>3, <1>5
<1>7. inst = [form |-> "ssa", op |-> "Size", def |-> size, c |-> one, x |-> none]
  BY <1>5
<1>8. inst \in Inst
  <2>1. "Size" \in Operations
    BY DEF Operations, LoweredOps, Returning
  <2> QED
    BY <1>4, <1>6, <1>7, <2>1 DEF Inst
<1> QED
  BY <1>4, <1>6, <1>7, <1>8 DEF Ordered, Applied

LEMMA EndKeeps ==
  ASSUME IInv, VisitEnd
  PROVE  IInv'
<1> USE DEF IInv
<1>1. /\ stage = "visit" /\ stage' = "visit" /\ pos' = pos + 1 /\ pos <= Len(code[blk])
      /\ UNCHANGED <<fn, stage, seen, blk, replaced, erased, ptr, phis, coalesced>>
      /\ marked' = marked \cup {Here.def}
  BY DEF VisitEnd, Visiting, Advance, Mark
<1>2. code \in [Blocks(fn.P) -> Seq(Inst)]
  BY DEF TypeOK
<1>3. /\ code' \in [Blocks(fn.P) -> Seq(Inst)]
      /\ \A b \in Blocks(fn.P) : \A i \in DOMAIN code'[b] : Ordered(fn, code'[b][i])
  <2>1. CASE code' = code
    BY <1>1, <1>2, <2>1, OrderedHere
  <2>2. CASE code' # code
    <3>1. PICK u \in IndexUses(Here.def) :
            LET I    == code[u[1]][u[2]]
                size == SizeAt(I.def, u[3])
            IN  /\ I.op \in EndUsers
                /\ code' = [code EXCEPT ![u[1]] =
                              InsertAt([@ EXCEPT ![u[2]].x[u[3]] = size], u[2],
                                [form |-> "ssa", op |-> "Size", def |-> size,
                                 c |-> <<EndOf(I, u[3])>>, x |-> << >>])]
      BY <2>2 DEF VisitEnd
    <3>2. PICK b, i, j : b \in Blocks(fn.P) /\ i \in DOMAIN code[b] /\ j \in DOMAIN code[b][i].x
                         /\ u = <<b, i, j>>
      BY <1>2, <3>1 DEF IndexUses, Positions, At
    <3>3. PICK I : I = code[b][i]
      OBVIOUS
    <3>4. PICK size : size = SizeAt(I.def, j)
      OBVIOUS
    <3>5. PICK inst : inst = [form |-> "ssa", op |-> "Size", def |-> size,
                              c |-> <<EndOf(I, j)>>, x |-> << >>]
      OBVIOUS
    <3>6. PICK s : s = [code[b] EXCEPT ![i].x[j] = size]
      OBVIOUS
    <3>7. PICK t : t = InsertAt(s, i, inst)
      OBVIOUS
    <3>8. I \in Inst /\ Ordered(fn, I) /\ I.op \in EndUsers /\ j \in DOMAIN I.x
      BY <1>1, <3>1, <3>2, <3>3, OrderedHere
    <3>9. inst \in Inst /\ Ordered(fn, inst) /\ size \in Value
      BY <3>4, <3>5, <3>8, SizeFacts
    <3>10. PICK J : J = [I EXCEPT !.x[j] = size]
      OBVIOUS
    <3>11. J \in Inst /\ Ordered(fn, J)
      <4>1. [I.x EXCEPT ![j] = size] \in Seq(Value)
        BY <3>8, <3>9 DEF Inst
      <4>2. J \in Inst /\ J.form = I.form /\ J.op = I.op /\ J.def = I.def /\ J.c = I.c
        BY <3>8, <3>10, <4>1 DEF Inst
      <4> QED
        BY <3>8, <4>2 DEF Ordered, Applied
    <3>12. /\ s \in Seq(Inst) /\ Len(s) = Len(code[b])
           /\ \A k \in DOMAIN s : s[k] = IF k = i THEN J ELSE code[b][k]
      BY <1>2, <3>2, <3>3, <3>6, <3>10, <3>11
    <3>13. /\ t \in Seq(Inst)
           /\ \A k \in DOMAIN t : t[k] = inst \/ \E m \in DOMAIN s : t[k] = s[m]
      <4>1. i \in 1 .. Len(s)
        BY <1>2, <3>2, <3>12
      <4> QED
        BY <3>7, <3>9, <3>12, <4>1, InsertAtElements
    <3>14. code' = [code EXCEPT ![b] = t]
      <4>1. u[1] = b /\ u[2] = i /\ u[3] = j
        BY <3>2
      <4> QED
        BY <3>1, <3>3, <3>4, <3>5, <3>6, <3>7, <4>1
    <3>15. code' \in [Blocks(fn.P) -> Seq(Inst)]
      BY <1>2, <3>2, <3>13, <3>14
    <3>16. \A k \in DOMAIN t : Ordered(fn, t[k])
      <4>1. \A k \in DOMAIN s : Ordered(fn, s[k])
        <5>1. DOMAIN s = DOMAIN code[b]
          BY <1>2, <3>2, <3>12
        <5> QED
          BY <1>1, <3>2, <3>11, <3>12, <5>1, OrderedHere
      <4> QED
        BY <3>9, <3>13, <4>1
    <3>17. \A a \in Blocks(fn.P) : code'[a] = IF a = b THEN t ELSE code[a]
      BY <1>2, <3>2, <3>14
    <3> QED
      BY <1>1, <3>15, <3>16, <3>17, OrderedHere
  <2> QED
    BY <2>1, <2>2
<1>4. TypeOK'
  <2>1. Here.def \in Value
    BY <1>1, InHand
  <2>2. pos' \in Nat \ {0}
    BY <1>1 DEF TypeOK
  <2> QED
    BY <1>1, <1>3, <2>1, <2>2 DEF TypeOK
<1>5. \A v \in DOMAIN coalesced' :
         ~v.impl /\ coalesced'[v] \in Value /\ Before(fn, coalesced'[v], v)
  BY <1>1 DEF ReplacedByEarlier
<1> QED
  BY <1>1, <1>3, <1>4, <1>5, StillVisiting

\* What leaves the function and the maps as they are.
LEMMA MovingKeeps ==
  ASSUME IInv, VisitLeft \/ NextBlock \/ CoalesceSkip \/ Cleanup
                 \/ VisitUnlowerable \/ VisitEndUnsupported \/ UNCHANGED vars
  PROVE  IInv'
<1> USE DEF IInv
<1>1. /\ UNCHANGED <<fn, code, phis, coalesced, replaced, marked, ptr>>
      /\ stage' = "visit" => stage = "visit"
      /\ stage' = "find" => stage = "find" /\ UNCHANGED <<blk, pos>>
      /\ erased' \in {erased, marked}
  BY DEF VisitLeft, NextBlock, CoalesceSkip, Cleanup, VisitUnlowerable, VisitEndUnsupported,
         Unreachable, Advance, vars, maps
<1>2. stage' \in Stages /\ pos' \in Nat \ {0}
  BY DEF VisitLeft, NextBlock, CoalesceSkip, Cleanup, VisitUnlowerable, VisitEndUnsupported,
         Unreachable, Advance, vars, TypeOK, Stages
<1>3. seen' \subseteq Blocks(fn.P) /\ blk' \in Blocks(fn.P)
  <2>1. fn.P.succ \in Seq(SUBSET Nat) /\ fn.P.succ # << >>
    BY SSAFormAssumption DEF TypeOK, SSAForm
  <2>2. 1 \in Blocks(fn.P) /\ Len(fn.P.succ) \in Nat /\ Blocks(fn.P) = 1 .. Len(fn.P.succ)
    BY <2>1 DEF Blocks
  <2>3. NextInPreorder(fn.P, fn.dom, seen, blk) \subseteq Blocks(fn.P)
    BY DEF NextInPreorder
  <2>4. CASE NextBlock
    BY <2>2, <2>3, <2>4 DEF NextBlock, TypeOK
  <2>5. CASE CoalesceSkip
    BY <2>2, <2>5 DEF CoalesceSkip, TypeOK
  <2>6. CASE VisitLeft \/ Cleanup \/ VisitUnlowerable \/ VisitEndUnsupported \/ UNCHANGED vars
    BY <2>6 DEF VisitLeft, Cleanup, VisitUnlowerable, VisitEndUnsupported, Unreachable, Advance,
                vars, TypeOK
  <2> QED
    BY <2>4, <2>5, <2>6
<1>4. TypeOK'
  BY <1>1, <1>2, <1>3 DEF TypeOK
<1>5. VisitsInOrder'
  BY <1>1 DEF VisitsInOrder
<1>6. ReplacedByEarlier'
  <2>1. /\ \A v \in DOMAIN coalesced : ~v.impl /\ coalesced[v] \in Value /\ Before(fn, coalesced[v], v)
        /\ \A v \in DOMAIN replaced : ~v.impl /\ replaced[v] \in Value /\ Before(fn, replaced[v], v)
    BY DEF ReplacedByEarlier
  <2>2. stage' = "find" => pos' <= Len(code'[blk']) /\ Here'.def \in DOMAIN coalesced' /\ Before(fn, ptr, Here'.def)
    BY <1>1 DEF ReplacedByEarlier, Here
  <2> QED
    BY <1>1, <2>1, <2>2 DEF ReplacedByEarlier
<1>7. ReplacedUnused'
  BY <1>1 DEF ReplacedUnused, Used, UsedByPHI
<1> QED
  BY <1>4, <1>5, <1>6, <1>7

-----------------------------------------------------------------------------
(* do_coalesce. *)

LEMMA FindKeeps ==
  ASSUME IInv, CoalesceFind \/ FindReplacement
  PROVE  IInv'
<1> USE DEF IInv
<1>1. /\ UNCHANGED <<fn, seen, blk, pos, code, phis, coalesced, replaced, marked, erased>>
      /\ stage' = "find" /\ pos <= Len(code[blk]) /\ Here.def \in DOMAIN coalesced
  BY DEF CoalesceFind, FindReplacement, maps, ReplacedByEarlier
<1>2. ptr' \in Value /\ Before(fn, ptr', Here.def)
  <2>1. CASE CoalesceFind
    BY <2>1 DEF CoalesceFind, ReplacedByEarlier
  <2>2. CASE FindReplacement
    <3>1. ptr' = replaced[ptr] /\ ptr' \in Value /\ Before(fn, ptr', ptr) /\ Before(fn, ptr, Here.def)
      BY <2>2 DEF FindReplacement, ReplacedByEarlier
    <3>2. ~Here.def.impl
      BY <1>1 DEF ReplacedByEarlier
    <3> QED
      BY <3>1, <3>2, BeforeIsStrict
  <2> QED
    BY <2>1, <2>2
<1>3. TypeOK'
  BY <1>1, <1>2 DEF TypeOK, Stages
<1>4. VisitsInOrder' /\ ReplacedUnused'
  BY <1>1 DEF VisitsInOrder, ReplacedUnused, Used, UsedByPHI
<1>5. ReplacedByEarlier'
  <2>1. Here' = Here
    BY <1>1 DEF Here
  <2>2. Before(fn', ptr', Here'.def)
    BY <1>1, <1>2, <2>1
  <2> QED
    BY <1>1, <2>1, <2>2 DEF ReplacedByEarlier
<1> QED
  BY <1>3, <1>4, <1>5

LEMMA Substituted ==
  ASSUME NEW S, NEW s \in Seq(S), NEW v, NEW w \in S,
         NEW t, t = [k \in DOMAIN s |-> IF s[k] = v THEN w ELSE s[k]]
  PROVE  t \in Seq(S)
  OBVIOUS

LEMMA DoCoalesceKeeps ==
  ASSUME IInv, DoCoalesce
  PROVE  IInv'
<1> USE DEF IInv
<1>1. PICK v, w : v = Here.def /\ w = ptr /\ ReplaceUses(v, w)
  BY DEF DoCoalesce
<1>2. /\ UNCHANGED <<fn, seen, blk, coalesced, marked, erased, ptr>> /\ stage' = "coalesce" /\ pos' = pos + 1
      /\ pos <= Len(code[blk]) /\ v \in DOMAIN coalesced /\ v \in Value /\ ~v.impl
      /\ w \in Value /\ w \notin DOMAIN replaced /\ Before(fn, w, v)
  BY <1>1 DEF DoCoalesce, ReplacedByEarlier, TypeOK
<1>3. replaced' = [u \in DOMAIN replaced \cup {v} |-> IF u = v THEN w ELSE replaced[u]]
  BY <1>1 DEF DoCoalesce
<1>4. w # v
  BY <1>2, BeforeIsStrict
<1>5. /\ code' = [b \in DOMAIN code |->
                    [i \in DOMAIN code[b] |->
                       [code[b][i] EXCEPT
                          !.c = [k \in DOMAIN @ |-> IF @[k] = v THEN w ELSE @[k]],
                          !.x = [k \in DOMAIN @ |-> IF @[k] = v THEN w ELSE @[k]]]]]
      /\ phis' = [b \in DOMAIN phis |->
                    {[q EXCEPT !.in = [k \in DOMAIN @ |-> IF @[k] = v THEN w ELSE @[k]]] : q \in phis[b]}]
  BY <1>1 DEF ReplaceUses
<1>6. code \in [Blocks(fn.P) -> Seq(Inst)] /\ DOMAIN phis = Blocks(fn.P)
  BY DEF TypeOK
<1>7. ASSUME NEW b \in Blocks(fn.P), NEW i \in DOMAIN code[b]
      PROVE  /\ code'[b][i] \in Inst
             /\ \A u \in Range(code'[b][i].c) \cup Range(code'[b][i].x) :
                  u = w \/ (u # v /\ u \in Range(code[b][i].c) \cup Range(code[b][i].x))
  <2>1. PICK I : I = code[b][i]
    OBVIOUS
  <2>2. PICK c, x : /\ c = [k \in DOMAIN I.c |-> IF I.c[k] = v THEN w ELSE I.c[k]]
                    /\ x = [k \in DOMAIN I.x |-> IF I.x[k] = v THEN w ELSE I.x[k]]
    OBVIOUS
  <2>3. I \in Inst
    BY <1>6, <2>1
  <2>4. code'[b][i] = [I EXCEPT !.c = c, !.x = x]
    BY <1>5, <1>6, <2>1, <2>2
  <2>5. I.c \in Seq(Value) /\ I.x \in Seq(Value)
    BY <2>3 DEF Inst
  <2>6. c \in Seq(Value) /\ x \in Seq(Value)
    <3>1. c \in Seq(Value)
      BY <1>2, <2>2, <2>5, Substituted
    <3>2. x \in Seq(Value)
      BY <1>2, <2>2, <2>5, Substituted
    <3> QED
      BY <3>1, <3>2
  <2>7. /\ \A k \in DOMAIN c : c[k] = w \/ (c[k] # v /\ k \in DOMAIN I.c /\ c[k] = I.c[k])
        /\ \A k \in DOMAIN x : x[k] = w \/ (x[k] # v /\ k \in DOMAIN I.x /\ x[k] = I.x[k])
    BY <2>2
  <2>8. code'[b][i] \in Inst /\ code'[b][i].c = c /\ code'[b][i].x = x
    BY <2>3, <2>4, <2>6 DEF Inst
  <2> QED
    BY <2>1, <2>7, <2>8 DEF Range
<1>8. code' \in [Blocks(fn.P) -> Seq(Inst)] /\ \A b \in Blocks(fn.P) : DOMAIN code'[b] = DOMAIN code[b]
  <2>1. ASSUME NEW b \in Blocks(fn.P)
        PROVE  code'[b] \in Seq(Inst) /\ DOMAIN code'[b] = DOMAIN code[b]
    <3>1. DOMAIN code'[b] = DOMAIN code[b] /\ code[b] \in Seq(Inst)
      BY <1>5, <1>6
    <3>2. PICK n \in Nat : DOMAIN code[b] = 1 .. n
      BY <3>1
    <3>3. code'[b] = [i \in 1 .. n |-> code'[b][i]]
      BY <1>5, <1>6, <3>2
    <3> QED
      BY <1>7, <3>1, <3>2, <3>3
  <2>2. code' = [b \in Blocks(fn.P) |-> code'[b]]
    BY <1>5, <1>6
  <2> QED
    BY <2>1, <2>2
<1>9. ASSUME NEW b \in Blocks(fn.P), NEW q \in phis'[b]
      PROVE  /\ q \in [def : Value, in : [Preds(fn.P, b) -> Value]]
             /\ \A p \in DOMAIN q.in :
                  q.in[p] = w \/ (q.in[p] # v /\ \E o \in phis[b] : p \in DOMAIN o.in /\ o.in[p] = q.in[p])
  <2>1. PICK o \in phis[b] : q = [o EXCEPT !.in = [k \in DOMAIN @ |-> IF @[k] = v THEN w ELSE @[k]]]
    BY <1>5, <1>6
  <2>2. o \in [def : Value, in : [Preds(fn.P, b) -> Value]]
    BY DEF TypeOK
  <2>3. PICK in : in = [k \in DOMAIN o.in |-> IF o.in[k] = v THEN w ELSE o.in[k]]
    OBVIOUS
  <2>4. in \in [Preds(fn.P, b) -> Value]
    BY <1>2, <2>2, <2>3
  <2>5. \A k \in DOMAIN in : in[k] = w \/ (in[k] # v /\ k \in DOMAIN o.in /\ in[k] = o.in[k])
    BY <2>3
  <2>6. q = [o EXCEPT !.in = in] /\ q.in = in
    BY <2>1, <2>2, <2>3
  <2> QED
    BY <2>2, <2>4, <2>5, <2>6
<1>10. TypeOK'
  <2>1. DOMAIN replaced' \subseteq Value
    BY <1>2, <1>3 DEF TypeOK
  <2>2. pos' \in Nat \ {0}
    BY <1>2 DEF TypeOK
  <2>3. DOMAIN phis' = Blocks(fn.P)
    BY <1>5, <1>6
  <2> QED
    BY <1>2, <1>8, <1>9, <2>1, <2>2, <2>3 DEF TypeOK, Stages
<1>11. VisitsInOrder'
  BY <1>2 DEF VisitsInOrder
<1>12. ReplacedByEarlier'
  BY <1>2, <1>3 DEF ReplacedByEarlier
<1>13. ReplacedUnused'
  <2> SUFFICES ASSUME NEW u \in DOMAIN replaced'
               PROVE  ~Used(u)'
    BY DEF ReplacedUnused
  <2>1. u # w /\ (u = v \/ ~Used(u))
    BY <1>2, <1>3, <1>4 DEF ReplacedUnused
  <2>2. ~UsedByPHI(u)'
    BY <1>2, <1>9, <2>1 DEF UsedByPHI, Used
  <2>3. ~\E b \in Blocks(fn.P) : \E i \in DOMAIN code'[b] :
          u \in Range(code'[b][i].c) \cup Range(code'[b][i].x)
    BY <1>7, <1>8, <2>1 DEF Used
  <2> QED
    BY <1>2, <2>2, <2>3 DEF Used
<1> QED
  BY <1>10, <1>11, <1>12, <1>13

-----------------------------------------------------------------------------
(* The theorems. *)

LEMMA InitKeeps ==
  ASSUME Init
  PROVE  IInv
<1>1. PICK P \in Programs : fn.P = P /\ fn.dom = Dominators(P) /\ fn.lower \in BOOLEAN
  BY DEF Init
<1>2. SSAForm(P, fn.dom)
  BY <1>1, SSAFormAssumption
<1>3. /\ stage = "visit" /\ seen = {1} /\ blk = 1 /\ pos = 1 /\ code = P.code /\ phis = P.phis
      /\ DOMAIN coalesced = {} /\ DOMAIN replaced = {} /\ marked = {} /\ erased = {} /\ ptr = NoValue
  BY <1>1 DEF Init
<1>4. TypeOK
  <2>1. P.succ \in Seq(SUBSET Nat) /\ P.succ # << >>
    BY <1>2 DEF SSAForm
  <2>2. 1 \in Blocks(P)
    BY <2>1 DEF Blocks
  <2>3. ptr \in Value
    BY <1>3, ValueFacts DEF NoValue
  <2>4. /\ P.code \in [Blocks(P) -> Seq(Inst)] /\ DOMAIN P.phis = Blocks(P)
        /\ \A b \in Blocks(P) : P.phis[b] \subseteq [def : Value, in : [Preds(P, b) -> Value]]
    BY <1>2 DEF SSAForm
  <2> QED
    BY <1>1, <1>3, <2>2, <2>3, <2>4 DEF TypeOK, Stages
<1>5. ASSUME NEW b \in Blocks(P), NEW i \in DOMAIN P.code[b]
      PROVE  Ordered(fn, P.code[b][i])
  <2>1. PICK I : I = P.code[b][i]
    OBVIOUS
  <2>2. /\ I.form = "ssa" /\ Applied(I) /\ IsInput(I.def) /\ Ahead(P, fn.dom, I.def) \in Nat
        /\ \A v \in Range(I.c) : IsInput(v) /\ Ahead(P, fn.dom, v) \in Nat
                                 /\ Ahead(P, fn.dom, v) < Ahead(P, fn.dom, I.def)
    BY <1>2, <2>1 DEF SSAForm
  <2>3. \A j \in DOMAIN I.c : I.c[j] \in Range(I.c)
    BY DEF Range
  <2> QED
    BY <1>1, <2>1, <2>2, <2>3 DEF Ordered, Before, IsInput
<1> QED
  BY <1>1, <1>3, <1>4, <1>5
     DEF IInv, VisitsInOrder, ReplacedByEarlier, ReplacedUnused

LEMMA StepKeeps ==
  ASSUME IInv, [Next]_vars
  PROVE  IInv'
<1>1. CASE VisitMutated
  <2>1. Visiting(LoweredOps) /\ Here.op \in MutatedOps /\ Rewrite("mut")
    BY <1>1 DEF VisitMutated, Visiting, MutatedOps, LoweredOps, OverOperand, Returning
  <2> QED
    BY <2>1, RewriteKeeps
<1>2. CASE VisitLowered
  BY <1>2, RewriteKeeps DEF VisitLowered
<1>3. CASE VisitRenaming
  BY <1>3, RenamingKeeps
<1>4. CASE VisitEnd
  BY <1>4, EndKeeps
<1>5. CASE CoalesceFind \/ FindReplacement
  BY <1>5, FindKeeps
<1>6. CASE DoCoalesce
  BY <1>6, DoCoalesceKeeps
<1>7. CASE VisitLeft \/ NextBlock \/ CoalesceSkip \/ Cleanup
           \/ VisitUnlowerable \/ VisitEndUnsupported \/ UNCHANGED vars
  BY <1>7, MovingKeeps
<1> QED
  BY <1>1, <1>2, <1>3, <1>4, <1>5, <1>6, <1>7 DEF Next, Pass, Visit, Stopped

\* The pass as a whole: every reachable state has the inductive invariant.
THEOREM Inductive == Spec => []IInv
<1>1. Init => IInv
  BY InitKeeps
<1>2. IInv /\ [Next]_vars => IInv'
  BY StepKeeps
<1> QED
  BY <1>1, <1>2, PTL DEF Spec

\* The state of the pass has its type, whatever the function, as it is rewritten.
THEOREM TypeCorrect == Spec => []TypeOK
<1>1. IInv => TypeOK
  BY DEF IInv
<1> QED
  BY <1>1, Inductive, PTL

(***************************************************************************)
(* do_coalesce never brings a value back that it has replaced: for every   *)
(* function in SSA form, whichever way the blocks are laid out and the     *)
(* uses of an End are found.                                               *)
(***************************************************************************)
THEOREM ReplacedIsUnused == Spec => []ReplacedUnused
<1>1. IInv => ReplacedUnused
  BY DEF IInv
<1> QED
  BY <1>1, Inductive, PTL

-----------------------------------------------------------------------------
(***************************************************************************)
(* The inductive invariant.  Operands: what is marked and has nothing to   *)
(* take its place is used by what is marked only, and an End by nothing.   *)
(***************************************************************************)
OperandsOf(P, m, I) ==
  /\ Tidy(P, I)
  /\ Range(I.c) \cap Pairs(P) \cap m # {} => I.def \in m
  /\ Range(I.x) \cap Ends(P) \cap m = {}

Operands(P, m, cd) == \A b \in Blocks(P) : \A i \in DOMAIN cd[b] : OperandsOf(P, m, cd[b][i])

PHIOperands ==
  \A b \in Blocks(fn.P) : \A q \in phis[b] : \A p \in DOMAIN q.in : q.in[p] \notin Spent(fn.P)

\* Only what is defined in the code is replaced, and by what stays.
Replacements ==
  /\ \A v \in DOMAIN coalesced :
       /\ coalesced[v] \notin Spent(fn.P)
       /\ \E b \in Blocks(fn.P) : \E i \in DOMAIN code[b] : code[b][i].def = v
  /\ \A v \in DOMAIN replaced : replaced[v] \notin Spent(fn.P)
  /\ stage = "find" => ptr \notin Spent(fn.P)
  /\ marked \subseteq DOMAIN coalesced \cup Spent(fn.P)

\* do_coalesce has come to instruction i of block b.
Passed(b, i) == stage \in {"coalesce", "find"} => b < blk \/ (b = blk /\ i < pos)
CoalescedSoFar ==
  /\ stage \in {"coalesce", "find", "cleanup", "done"} =>
       \A b \in Blocks(fn.P) : \A i \in DOMAIN code[b] :
         Passed(b, i) /\ code[b][i].def \in DOMAIN coalesced => code[b][i].def \in DOMAIN replaced
  /\ stage = "done" => erased = marked

\* Operations that still are as in the input, and Ends ahead of their uses.
FromInput(P, cd) ==
  \A b \in Blocks(P) : \A i \in DOMAIN cd[b] :
    cd[b][i].form = "ssa" /\ IsInput(cd[b][i].def) => cd[b][i].def \in Made(P, {cd[b][i].op})

IsEnd(I) == I.form = "ssa" /\ I.op = "End"
EndsFirst(P, dom, cd) ==
  \A b \in Blocks(P) : \A i \in DOMAIN cd[b] : \A e \in Range(cd[b][i].x) \cap Ends(P) :
    \E a \in dom[b] : \E k \in DOMAIN cd[a] :
      /\ a \in Blocks(P) /\ (a = b => k < i)
      /\ IsEnd(cd[a][k]) /\ cd[a][k].def = e

InOrder(P, dom, cd) == FromInput(P, cd) /\ EndsFirst(P, dom, cd) /\ EndsOnce(P, cd)

\* Blocks are visited after those that dominate them, and visited Ends are marked.
Traversal ==
  /\ 1 \in seen /\ blk \in seen
  /\ \A b \in seen : fn.dom[b] \subseteq seen /\ (blk \in fn.dom[b] => b = blk)
VisitedEnds(sn, bk, ps, m, cd) ==
  \A b \in sn : \A i \in DOMAIN cd[b] :
    (b = bk => i < ps) /\ IsEnd(cd[b][i]) => cd[b][i].def \in m

Visited ==
  stage = "visit" =>
    InOrder(fn.P, fn.dom, code) /\ Traversal /\ VisitedEnds(seen, blk, pos, marked, code)

Kept ==
  /\ Ordinary(fn.P)
  /\ Operands(fn.P, marked, code) /\ PHIOperands
  /\ Replacements /\ CoalescedSoFar /\ Visited

-----------------------------------------------------------------------------
(* Facts about the functions. *)

LEMMA FnIs ==
  ASSUME TypeOK, Ordinary(fn.P)
  PROVE  /\ SSAForm(fn.P, fn.dom) /\ fn.dom = Dominators(fn.P)
         /\ 1 \in Blocks(fn.P) /\ IsFiniteSet(Blocks(fn.P)) /\ Len(fn.P.succ) \in Nat
         /\ Blocks(fn.P) = 1 .. Len(fn.P.succ)
         /\ Blocks(fn.P) \subseteq ReachAvoiding(fn.P, 0)
         /\ \A b \in Blocks(fn.P) : b \in fn.dom[b] /\ fn.dom[b] \subseteq Blocks(fn.P)
<1>1. SSAForm(fn.P, fn.dom) /\ fn.dom = Dominators(fn.P)
  BY SSAFormAssumption DEF TypeOK
<1>2. Len(fn.P.succ) \in Nat /\ Blocks(fn.P) = 1 .. Len(fn.P.succ) /\ 1 \in Blocks(fn.P)
  <2>1. fn.P.succ \in Seq(SUBSET Nat) /\ fn.P.succ # << >>
    BY <1>1 DEF SSAForm
  <2> QED
    BY <2>1 DEF Blocks
<1>3. IsFiniteSet(Blocks(fn.P))
  BY <1>2, FS_Interval
<1>4. \A b \in Blocks(fn.P) : b \in fn.dom[b] /\ fn.dom[b] \subseteq Blocks(fn.P)
  BY <1>1, <1>2, DominatesItself DEF Dominators
<1> QED
  BY <1>1, <1>2, <1>3, <1>4 DEF Ordinary

\* A value is made by one operation.
LEMMA MadeOnce ==
  ASSUME NEW P, NEW dom, SSAForm(P, dom)
  PROVE  /\ \A v \in Spent(P) : IsInput(v)
         /\ \A op : op \notin {"SeqSwap", "Delete", "End"} => Made(P, {op}) \cap Spent(P) = {}
         /\ Made(P, {"Delete"}) \cap (Pairs(P) \cup Ends(P)) = {}
         /\ Pairs(P) \cap Ends(P) = {} /\ Pairs(P) \subseteq Spent(P) /\ Ends(P) \subseteq Spent(P)
         /\ Made(P, {"Delete"}) \subseteq Spent(P)
<1>1. ASSUME NEW b \in Blocks(P), NEW i \in DOMAIN P.code[b],
             NEW a \in Blocks(P), NEW k \in DOMAIN P.code[a], P.code[b][i].def = P.code[a][k].def
      PROVE  P.code[b][i].op = P.code[a][k].op /\ IsInput(P.code[b][i].def)
  <2>1. /\ DefPoints(P, P.code[b][i].def) = {<<b, i>>} /\ DefPoints(P, P.code[a][k].def) = {<<a, k>>}
        /\ IsInput(P.code[b][i].def)
    BY DEF SSAForm
  <2>2. <<b, i>> = <<a, k>>
    BY <1>1, <2>1
  <2> QED
    BY <2>1, <2>2
<1>2. \A v, ops : v \in Made(P, ops) <=>
        \E b \in Blocks(P) : \E i \in DOMAIN P.code[b] : P.code[b][i].op \in ops /\ P.code[b][i].def = v
  BY DEF Made
<1> QED
  BY <1>1, <1>2 DEF Spent, Pairs, Ends

-----------------------------------------------------------------------------
(* Ways the code changes. *)

\* Instructions that are as they were but for operands that are not spent.
Altered(P, old, new) ==
  \A b \in Blocks(P) :
    /\ DOMAIN new[b] = DOMAIN old[b]
    /\ \A i \in DOMAIN old[b] :
         /\ new[b][i].form = old[b][i].form /\ new[b][i].op = old[b][i].op
         /\ new[b][i].def = old[b][i].def
         /\ DOMAIN new[b][i].c = DOMAIN old[b][i].c /\ Len(new[b][i].c) = Len(old[b][i].c)
         /\ \A j \in DOMAIN old[b][i].c :
              new[b][i].c[j] = old[b][i].c[j] \/ new[b][i].c[j] \notin Spent(P)
         /\ DOMAIN new[b][i].x = DOMAIN old[b][i].x
         /\ \A j \in DOMAIN old[b][i].x :
              new[b][i].x[j] = old[b][i].x[j] \/ new[b][i].x[j] \notin Spent(P)

\* Where instruction k of block a goes when another one is put before i of block b.
Moved(b, i, a, k) == IF a = b /\ i <= k THEN k + 1 ELSE k
Inserted(P, old, new, b, i, I) ==
  /\ b \in Blocks(P) /\ i \in Nat /\ i \in DOMAIN new[b] /\ new[b][i] = I
  /\ \A a \in Blocks(P) : \A k \in DOMAIN old[a] :
       k \in Nat /\ Moved(b, i, a, k) \in DOMAIN new[a] /\ new[a][Moved(b, i, a, k)] = old[a][k]
  /\ \A a \in Blocks(P) : \A k \in DOMAIN new[a] :
       (a = b /\ k = i) \/ \E m \in DOMAIN old[a] : k = Moved(b, i, a, m)

LEMMA AlteredKeeps ==
  ASSUME NEW P, NEW dom, SSAForm(P, dom), \A b \in Blocks(P) : dom[b] \subseteq Blocks(P),
         NEW old, NEW new, Altered(P, old, new)
  PROVE  /\ \A m : Operands(P, m, old) => Operands(P, m, new)
         /\ InOrder(P, dom, old) => InOrder(P, dom, new)
<1>0. Pairs(P) \subseteq Spent(P) /\ Ends(P) \subseteq Spent(P)
  BY MadeOnce
<1>1. ASSUME NEW b \in Blocks(P), NEW i \in DOMAIN new[b]
      PROVE  /\ i \in DOMAIN old[b]
             /\ new[b][i].form = old[b][i].form /\ new[b][i].op = old[b][i].op
             /\ new[b][i].def = old[b][i].def /\ Len(new[b][i].c) = Len(old[b][i].c)
             /\ Range(new[b][i].c) \cap Spent(P) \subseteq Range(old[b][i].c)
             /\ Range(new[b][i].x) \cap Spent(P) \subseteq Range(old[b][i].x)
             /\ \A j \in DOMAIN new[b][i].x : new[b][i].x[j] \in Spent(P) =>
                  j \in DOMAIN old[b][i].x /\ new[b][i].x[j] = old[b][i].x[j]
  BY DEF Altered, Range
<1>2. ASSUME NEW m, Operands(P, m, old)
      PROVE  Operands(P, m, new)
  <2> SUFFICES ASSUME NEW b \in Blocks(P), NEW i \in DOMAIN new[b]
               PROVE  OperandsOf(P, m, new[b][i])
    BY DEF Operands
  <2>1. OperandsOf(P, m, old[b][i])
    BY <1>1, <1>2 DEF Operands
  <2> QED
    BY <1>0, <1>1, <2>1 DEF OperandsOf, Tidy
<1>3. ASSUME InOrder(P, dom, old)
      PROVE  InOrder(P, dom, new)
  <2>1. FromInput(P, new)
    BY <1>1, <1>3 DEF InOrder, FromInput
  <2>2. EndsFirst(P, dom, new)
    <3> SUFFICES ASSUME NEW b \in Blocks(P), NEW i \in DOMAIN new[b],
                        NEW e \in Range(new[b][i].x) \cap Ends(P)
                 PROVE  \E a \in dom[b] : \E k \in DOMAIN new[a] :
                          /\ a \in Blocks(P) /\ (a = b => k < i)
                          /\ IsEnd(new[a][k]) /\ new[a][k].def = e
      BY DEF EndsFirst
    <3>1. i \in DOMAIN old[b] /\ e \in Range(old[b][i].x) \cap Ends(P)
      BY <1>0, <1>1
    <3>2. PICK a, k : /\ a \in dom[b] /\ k \in DOMAIN old[a] /\ a \in Blocks(P) /\ (a = b => k < i)
                      /\ IsEnd(old[a][k]) /\ old[a][k].def = e
      BY <1>3, <3>1 DEF InOrder, EndsFirst
    <3>3. k \in DOMAIN new[a]
      BY <3>2 DEF Altered
    <3>4. IsEnd(new[a][k]) /\ new[a][k].def = e
      BY <1>1, <3>2, <3>3 DEF IsEnd
    <3> QED
      BY <3>2, <3>3, <3>4
  <2>3. EndsOnce(P, new)
    BY <1>0, <1>1, <1>3 DEF InOrder, EndsOnce
  <2> QED
    BY <2>1, <2>2, <2>3 DEF InOrder
<1> QED
  BY <1>2, <1>3

LEMMA InsertedKeeps ==
  ASSUME NEW P, NEW dom, SSAForm(P, dom), \A b \in Blocks(P) : dom[b] \subseteq Blocks(P),
         NEW old, NEW new, NEW bb, NEW at, NEW I, Inserted(P, old, new, bb, at, I),
         Range(I.c) \cap Spent(P) = {}, Range(I.x) \cap Spent(P) = {},
         I.form = "ssa" => ~IsInput(I.def)
  PROVE  /\ \A m : Operands(P, m, old) => Operands(P, m, new)
         /\ InOrder(P, dom, old) => InOrder(P, dom, new)
<1>0. Pairs(P) \subseteq Spent(P) /\ Ends(P) \subseteq Spent(P)
  BY MadeOnce
<1>1. ASSUME NEW b \in Blocks(P), NEW i \in DOMAIN new[b]
      PROVE  (b = bb /\ i = at /\ new[b][i] = I)
             \/ \E k \in DOMAIN old[b] : i = Moved(bb, at, b, k) /\ new[b][i] = old[b][k]
  BY DEF Inserted
<1>2. ASSUME NEW m, Operands(P, m, old)
      PROVE  Operands(P, m, new)
  <2> SUFFICES ASSUME NEW b \in Blocks(P), NEW i \in DOMAIN new[b]
               PROVE  OperandsOf(P, m, new[b][i])
    BY DEF Operands
  <2>1. OperandsOf(P, m, I)
    BY <1>0 DEF OperandsOf, Tidy
  <2> QED
    BY <1>1, <1>2, <2>1 DEF Operands
<1>3. ASSUME InOrder(P, dom, old)
      PROVE  InOrder(P, dom, new)
  <2>1. FromInput(P, new)
    BY <1>1, <1>3 DEF InOrder, FromInput
  <2>2. EndsFirst(P, dom, new)
    <3> SUFFICES ASSUME NEW b \in Blocks(P), NEW i \in DOMAIN new[b],
                        NEW e \in Range(new[b][i].x) \cap Ends(P)
                 PROVE  \E a \in dom[b] : \E k \in DOMAIN new[a] :
                          /\ a \in Blocks(P) /\ (a = b => k < i)
                          /\ IsEnd(new[a][k]) /\ new[a][k].def = e
      BY DEF EndsFirst
    <3>1. PICK m \in DOMAIN old[b] : i = Moved(bb, at, b, m) /\ new[b][i] = old[b][m]
      BY <1>0, <1>1
    <3>2. PICK a, k : /\ a \in dom[b] /\ k \in DOMAIN old[a] /\ a \in Blocks(P) /\ (a = b => k < m)
                      /\ IsEnd(old[a][k]) /\ old[a][k].def = e
      BY <1>3, <3>1 DEF InOrder, EndsFirst
    <3>3. /\ Moved(bb, at, a, k) \in DOMAIN new[a] /\ new[a][Moved(bb, at, a, k)] = old[a][k]
          /\ k \in Nat /\ m \in Nat /\ at \in Nat
      BY <3>2 DEF Inserted
    <3>4. a = b => Moved(bb, at, a, k) < i
      BY <3>1, <3>2, <3>3 DEF Moved
    <3> QED
      BY <3>2, <3>3, <3>4
  <2>3. EndsOnce(P, new)
    <3> SUFFICES ASSUME NEW b \in Blocks(P), NEW a \in Blocks(P),
                        NEW i \in DOMAIN new[b], NEW k \in DOMAIN new[a],
                        NEW j \in DOMAIN new[b][i].x, NEW l \in DOMAIN new[a][k].x,
                        new[b][i].x[j] \in Ends(P), new[a][k].x[l] = new[b][i].x[j]
                 PROVE  b = a /\ i = k /\ j = l
      BY DEF EndsOnce
    <3>1. new[b][i] # I /\ new[a][k] # I
      BY <1>0 DEF Range
    <3>2. PICK m \in DOMAIN old[b] : i = Moved(bb, at, b, m) /\ new[b][i] = old[b][m]
      BY <1>1, <3>1
    <3>3. PICK n \in DOMAIN old[a] : k = Moved(bb, at, a, n) /\ new[a][k] = old[a][n]
      BY <1>1, <3>1
    <3>4. b = a /\ m = n /\ j = l
      BY <1>3, <3>2, <3>3 DEF InOrder, EndsOnce
    <3> QED
      BY <3>2, <3>3, <3>4
  <2> QED
    BY <2>1, <2>2, <2>3 DEF InOrder
<1> QED
  BY <1>2, <1>3

LEMMA InsertAtIs ==
  ASSUME NEW S, NEW s \in Seq(S), NEW i \in 1 .. Len(s), NEW e \in S
  PROVE  /\ DOMAIN InsertAt(s, i, e) = 1 .. Len(s) + 1
         /\ \A j \in 1 .. Len(s) + 1 :
              InsertAt(s, i, e)[j] = IF j < i THEN s[j] ELSE IF j = i THEN e ELSE s[j - 1]
<1>0. Len(s) \in Nat /\ i \in Nat /\ 1 <= i /\ i <= Len(s)
  BY LenProperties
<1>1. PICK front : front = SubSeq(s, 1, i - 1)
  OBVIOUS
<1>2. PICK back : back = SubSeq(s, i, Len(s))
  OBVIOUS
<1>3. front \in Seq(S) /\ Len(front) = i - 1 /\ \A k \in 1 .. i - 1 : front[k] = s[k]
  BY <1>0, <1>1, SubSeqProperties
<1>4. back \in Seq(S) /\ Len(back) = Len(s) - i + 1 /\ \A k \in 1 .. Len(s) - i + 1 : back[k] = s[i + k - 1]
  BY <1>0, <1>2, SubSeqProperties
<1>5. PICK t : t = front \o <<e>>
  OBVIOUS
<1>6. /\ t \in Seq(S) /\ Len(t) = i
      /\ \A k \in 1 .. i : t[k] = IF k < i THEN s[k] ELSE e
  <2>1. <<e>> \in Seq(S) /\ Len(<<e>>) = 1 /\ <<e>>[1] = e
    OBVIOUS
  <2>2. /\ t \in Seq(S) /\ Len(t) = (i - 1) + 1
        /\ \A k \in 1 .. (i - 1) + 1 : t[k] = IF k <= i - 1 THEN front[k] ELSE <<e>>[k - (i - 1)]
    BY <1>3, <1>5, <2>1, ConcatProperties
  <2>3. \A k \in 1 .. i : k < i => k <= i - 1 /\ k \in 1 .. i - 1
    BY <1>0
  <2>4. \A k \in 1 .. i : ~(k < i) => ~(k <= i - 1) /\ k - (i - 1) = 1
    BY <1>0
  <2>5. (i - 1) + 1 = i
    BY <1>0
  <2> QED
    BY <1>3, <2>1, <2>2, <2>3, <2>4, <2>5
<1>7. PICK whole : whole = t \o back
  OBVIOUS
<1>8. /\ whole \in Seq(S) /\ Len(whole) = i + (Len(s) - i + 1)
      /\ \A j \in 1 .. i + (Len(s) - i + 1) : whole[j] = IF j <= i THEN t[j] ELSE back[j - i]
  <2>1. /\ whole \in Seq(S) /\ Len(whole) = Len(t) + Len(back)
        /\ \A j \in 1 .. Len(t) + Len(back) : whole[j] = IF j <= Len(t) THEN t[j] ELSE back[j - Len(t)]
    BY <1>4, <1>6, <1>7, ConcatProperties
  <2>2. Len(t) = i /\ Len(back) = Len(s) - i + 1
    BY <1>4, <1>6
  <2> QED
    BY <2>1, <2>2
<1>9. i + (Len(s) - i + 1) = Len(s) + 1
  BY <1>0
<1>10. ASSUME NEW j \in 1 .. Len(s) + 1
       PROVE  whole[j] = IF j < i THEN s[j] ELSE IF j = i THEN e ELSE s[j - 1]
  <2>1. CASE j <= i
    <3>1. j \in 1 .. i /\ whole[j] = t[j]
      BY <1>0, <1>8, <1>9, <2>1
    <3> QED
      BY <1>0, <1>6, <2>1, <3>1
  <2>2. CASE ~(j <= i)
    <3>1. /\ j - i \in 1 .. Len(s) - i + 1 /\ i + (j - i) - 1 = j - 1
          /\ ~(j < i) /\ j # i
      BY <1>0, <2>2
    <3>2. whole[j] = back[j - i]
      BY <1>8, <1>9, <2>2
    <3> QED
      BY <1>4, <3>1, <3>2
  <2> QED
    BY <2>1, <2>2
<1>11. InsertAt(s, i, e) = whole
  BY <1>1, <1>2, <1>5, <1>7 DEF InsertAt
<1>12. DOMAIN whole = 1 .. Len(s) + 1
  BY <1>8, <1>9, LenProperties
<1> QED
  BY <1>10, <1>11, <1>12

LEMMA InsertedIs ==
  ASSUME NEW P, NEW old \in [Blocks(P) -> Seq(Inst)], NEW b \in Blocks(P),
         NEW i \in DOMAIN old[b], NEW I \in Inst,
         NEW new, new = [old EXCEPT ![b] = InsertAt(old[b], i, I)]
  PROVE  Inserted(P, old, new, b, i, I)
<1>1. PICK s \in Seq(Inst) : s = old[b]
  OBVIOUS
<1>2. Len(s) \in Nat /\ DOMAIN s = 1 .. Len(s) /\ i \in 1 .. Len(s)
  BY <1>1, LenProperties
<1>3. PICK t : t = InsertAt(s, i, I)
  OBVIOUS
<1>4. /\ DOMAIN t = 1 .. Len(s) + 1
      /\ \A j \in 1 .. Len(s) + 1 : t[j] = IF j < i THEN s[j] ELSE IF j = i THEN I ELSE s[j - 1]
  BY <1>2, <1>3, InsertAtIs
<1>5. \A a \in Blocks(P) : new[a] = IF a = b THEN t ELSE old[a]
  BY <1>1, <1>3
<1>6. ASSUME NEW a \in Blocks(P), NEW k \in DOMAIN old[a]
      PROVE  k \in Nat /\ Moved(b, i, a, k) \in DOMAIN new[a] /\ new[a][Moved(b, i, a, k)] = old[a][k]
  <2>1. k \in Nat
    <3>1. old[a] \in Seq(Inst)
      OBVIOUS
    <3> QED
      BY <3>1, LenProperties
  <2>2. CASE a = b /\ i <= k
    <3>1. k \in 1 .. Len(s) /\ k + 1 \in 1 .. Len(s) + 1 /\ ~(k + 1 < i) /\ k + 1 # i /\ (k + 1) - 1 = k
      BY <1>1, <1>2, <2>2
    <3>2. Moved(b, i, a, k) = k + 1 /\ new[a] = t
      BY <1>5, <2>2 DEF Moved
    <3> QED
      BY <1>1, <1>4, <2>1, <2>2, <3>1, <3>2
  <2>3. CASE a = b /\ ~(i <= k)
    <3>1. k \in 1 .. Len(s) /\ k \in 1 .. Len(s) + 1 /\ k < i
      BY <1>1, <1>2, <2>3
    <3>2. Moved(b, i, a, k) = k /\ new[a] = t
      BY <1>5, <2>3 DEF Moved
    <3> QED
      BY <1>1, <1>4, <2>1, <2>3, <3>1, <3>2
  <2>4. CASE a # b
    BY <1>5, <2>1, <2>4 DEF Moved
  <2> QED
    BY <2>2, <2>3, <2>4
<1>7. ASSUME NEW a \in Blocks(P), NEW k \in DOMAIN new[a], ~(a = b /\ k = i)
      PROVE  \E m \in DOMAIN old[a] : k = Moved(b, i, a, m)
  <2>1. CASE a # b
    BY <1>5, <2>1 DEF Moved
  <2>2. CASE a = b /\ k < i
    <3>1. k \in DOMAIN old[a] /\ ~(i <= k)
      BY <1>1, <1>2, <1>4, <1>5, <2>2
    <3> QED
      BY <3>1 DEF Moved
  <2>3. CASE a = b /\ ~(k < i)
    <3>1. k \in 1 .. Len(s) + 1
      BY <1>4, <1>5, <2>3
    <3>2. k - 1 \in 1 .. Len(s) /\ i <= k - 1 /\ (k - 1) + 1 = k
      BY <1>2, <1>7, <2>3, <3>1
    <3>3. k - 1 \in DOMAIN old[a] /\ k = Moved(b, i, a, k - 1)
      BY <1>1, <1>2, <2>3, <3>2 DEF Moved
    <3> QED
      BY <3>3
  <2> QED
    BY <2>1, <2>2, <2>3
<1>8. i \in Nat /\ i \in DOMAIN new[b] /\ new[b][i] = I
  <2>1. i \in 1 .. Len(s) + 1 /\ ~(i < i)
    BY <1>2
  <2> QED
    BY <1>2, <1>4, <1>5, <2>1
<1> QED
  BY <1>6, <1>7, <1>8 DEF Inserted

-----------------------------------------------------------------------------
(* The instruction in hand. *)

LEMMA HereKept ==
  ASSUME IInv, Kept, stage = "visit", pos <= Len(code[blk])
  PROVE  /\ blk \in Blocks(fn.P) /\ pos \in DOMAIN code[blk] /\ pos \in Nat /\ Here = code[blk][pos]
         /\ Here \in Inst /\ OperandsOf(fn.P, marked, Here)
         /\ Here.form = "ssa" /\ IsInput(Here.def) => Here.def \in Made(fn.P, {Here.op})
         /\ Range(Here.x) \cap Spent(fn.P) = {}
<1>1. /\ blk \in Blocks(fn.P) /\ pos \in DOMAIN code[blk] /\ Here = code[blk][pos] /\ Here \in Inst
      /\ pos \in Nat
  BY InHand DEF IInv, TypeOK
<1>2. OperandsOf(fn.P, marked, Here)
  BY <1>1 DEF Kept, Operands
<1>3. Here.form = "ssa" /\ IsInput(Here.def) => Here.def \in Made(fn.P, {Here.op})
  BY <1>1 DEF Kept, Visited, InOrder, FromInput
<1>4. ASSUME NEW e \in Range(Here.x) \cap Spent(fn.P)
      PROVE  FALSE
  <2>1. e \in Range(code[blk][pos].x) \cap Ends(fn.P)
    BY <1>1, <1>2, <1>4 DEF OperandsOf, Tidy
  <2>2. PICK a, k : /\ a \in fn.dom[blk] /\ k \in DOMAIN code[a] /\ a \in Blocks(fn.P)
                    /\ (a = blk => k < pos) /\ IsEnd(code[a][k]) /\ code[a][k].def = e
    BY <1>1, <2>1 DEF Kept, Visited, InOrder, EndsFirst
  <2>3. a \in seen
    BY <2>2 DEF Kept, Visited, Traversal
  <2>4. e \in marked
    BY <2>2, <2>3 DEF Kept, Visited, VisitedEnds
  <2> QED
    BY <1>1, <1>2, <2>1, <2>4 DEF OperandsOf
<1> QED
  BY <1>1, <1>2, <1>3, <1>4

LEMMA ReplacementKept ==
  ASSUME IInv, Kept, Visiting(LoweredOps), NEW form \in {"mut", "impl"},
         form = "mut" => Here.op \in MutatedOps,
         NEW R, R = Replacement(Here, form)
  PROVE  /\ \A v \in DOMAIN R :
              /\ R[v] \notin Spent(fn.P) /\ v \notin Spent(fn.P)
              /\ \E b \in Blocks(fn.P) : \E i \in DOMAIN code[b] : code[b][i].def = v
         /\ Here.def \notin Ends(fn.P)
         /\ Here.def \in Pairs(fn.P) => Here.op = "SeqSwap"
         /\ Here.def \in DOMAIN R \cup Spent(fn.P)
<1>0. /\ stage = "visit" /\ pos <= Len(code[blk]) /\ Here.form = "ssa" /\ Here.op \in LoweredOps
      /\ TypeOK /\ VisitsInOrder /\ SSAForm(fn.P, fn.dom)
  BY FnIs DEF Visiting, IInv, Kept
<1>1. /\ blk \in Blocks(fn.P) /\ pos \in DOMAIN code[blk] /\ Here = code[blk][pos]
      /\ Here \in Inst /\ OperandsOf(fn.P, marked, Here)
      /\ IsInput(Here.def) => Here.def \in Made(fn.P, {Here.op})
  BY <1>0, HereKept
<1>2. Ordered(fn, Here) /\ Here.c \in Seq(Value)
  BY <1>0, <1>1, OrderedHere DEF Inst
<1>3. Here.op \notin {"Extract0", "Extract1", "End"}
  BY <1>0 DEF LoweredOps, OverOperand, Returning
<1>4. \A k \in DOMAIN Here.c : Here.c[k] \notin Spent(fn.P)
  BY <1>1, <1>3 DEF OperandsOf, Tidy, Range
<1>5. /\ \A v \in Spent(fn.P) : IsInput(v)
      /\ \A op : op \notin {"SeqSwap", "Delete", "End"} => Made(fn.P, {op}) \cap Spent(fn.P) = {}
      /\ Made(fn.P, {"Delete"}) \cap (Pairs(fn.P) \cup Ends(fn.P)) = {}
      /\ Pairs(fn.P) \cap Ends(fn.P) = {}
      /\ Pairs(fn.P) \subseteq Spent(fn.P) /\ Ends(fn.P) \subseteq Spent(fn.P)
      /\ Made(fn.P, {"Delete"}) \subseteq Spent(fn.P)
  BY <1>0, MadeOnce
<1>6. Here.def \notin Ends(fn.P) /\ (Here.def \in Pairs(fn.P) => Here.op = "SeqSwap")
  BY <1>1, <1>3, <1>5 DEF Pairs
<1>7. CASE Here.op = "SeqSwap"
  <2>1. IsInput(Here.def) /\ Len(Here.c) = 2
    BY <1>0, <1>2, <1>7 DEF Ordered, Applied
  <2>2. Here.def \in Spent(fn.P)
    BY <1>1, <1>5, <1>7, <2>1 DEF Pairs
  <2>3. ASSUME NEW v \in DOMAIN R
        PROVE  /\ R[v] \notin Spent(fn.P) /\ v \notin Spent(fn.P)
               /\ \E b \in Blocks(fn.P) : \E i \in DOMAIN code[b] : code[b][i].def = v
    <3>1. \E k \in {1, 2} : R[v] = Here.c[k]
      BY <1>7 DEF Replacement
    <3>2. R[v] \notin Spent(fn.P)
      BY <1>2, <1>4, <2>1, <3>1
    <3>3. PICK p \in Halves(Here.def) : At(p).def = v
      BY <1>7 DEF Replacement
    <3>4. PICK b, i : b \in Blocks(fn.P) /\ i \in DOMAIN code[b] /\ p = <<b, i>>
      BY <1>0 DEF Halves, Positions, TypeOK
    <3>5. At(p) = code[b][i] /\ At(p).op \in {"Extract0", "Extract1"}
      BY <3>4 DEF At, Halves
    <3>6. Ordered(fn, code[b][i])
      BY <1>0, <3>4, OrderedHere
    <3>7. At(p).form = "ssa" /\ IsInput(v)
      BY <3>3, <3>5, <3>6 DEF Ordered, LoweredOps, OverOperand, Returning
    <3>8. v \in Made(fn.P, {At(p).op})
      BY <1>0, <3>3, <3>4, <3>5, <3>7 DEF Kept, Visited, InOrder, FromInput
    <3> QED
      BY <1>5, <3>2, <3>3, <3>4, <3>5, <3>8
  <2> QED
    BY <1>6, <2>2, <2>3
<1>8. CASE Here.op = "Delete"
  <2>1. IsInput(Here.def)
    BY <1>0, <1>2, <1>8 DEF Ordered
  <2>2. DOMAIN R = {}
    BY <1>8 DEF Replacement
  <2> QED
    BY <1>1, <1>5, <1>6, <1>8, <2>1, <2>2
<1>9. CASE Here.op \notin {"SeqSwap", "Delete"}
  <2>1. /\ DOMAIN R = {Here.def}
        /\ R[Here.def] = IF form = "mut" \/ Here.op \in OverOperand THEN Here.c[1] ELSE ImplOf(Here.def)
    BY <1>9 DEF Replacement
  <2>2. Here.def \notin Spent(fn.P)
    BY <1>1, <1>3, <1>5, <1>9
  <2>3. R[Here.def] \notin Spent(fn.P)
    <3>1. CASE form = "mut" \/ Here.op \in OverOperand
      <4>1. Here.op \notin {"SeqAlloc", "AssocAlloc", "End", "Call", "Return"}
        BY <3>1 DEF MutatedOps, OverOperand
      <4>2. 1 \in DOMAIN Here.c
        BY <1>2, <4>1 DEF Ordered, Applied
      <4> QED
        BY <1>4, <2>1, <3>1, <4>2
    <3>2. CASE ~(form = "mut" \/ Here.op \in OverOperand)
      <4>1. ImplOf(Here.def).impl
        BY <1>1, ValueFacts DEF Inst
      <4> QED
        BY <1>5, <2>1, <3>2, <4>1 DEF IsInput
    <3> QED
      BY <3>1, <3>2
  <2> QED
    BY <1>1, <1>6, <2>1, <2>2, <2>3
<1> QED
  BY <1>7, <1>8, <1>9

-----------------------------------------------------------------------------
(* The visitors, again. *)

LEMMA RewriteKept ==
  ASSUME IInv, Kept, Visiting(LoweredOps), NEW form \in {"mut", "impl"},
         form = "mut" => Here.op \in MutatedOps, Rewrite(form)
  PROVE  Kept'
<1> DEFINE P == fn.P
<1>0. PICK I : I = [Here EXCEPT !.form = form, !.def = ImplOf(@)]
  OBVIOUS
<1>1. /\ stage = "visit" /\ stage' = "visit" /\ pos <= Len(code[blk]) /\ TypeOK
      /\ UNCHANGED <<fn, stage, seen, blk, replaced, erased, ptr, phis>> /\ pos' = pos + 2
      /\ SSAForm(P, fn.dom) /\ \A b \in Blocks(P) : fn.dom[b] \subseteq Blocks(P)
  BY FnIs DEF Visiting, Rewrite, Advance, IInv, Kept
<1>2. /\ blk \in Blocks(P) /\ pos \in DOMAIN code[blk] /\ pos \in Nat /\ Here = code[blk][pos]
      /\ Here \in Inst /\ OperandsOf(P, marked, Here) /\ Range(Here.x) \cap Spent(P) = {}
  BY <1>1, HereKept
<1>3. PICK R : R = Replacement(Here, form)
  OBVIOUS
<1>4. /\ \A v \in DOMAIN R :
           /\ R[v] \notin Spent(P) /\ v \notin Spent(P)
           /\ \E b \in Blocks(P) : \E i \in DOMAIN code[b] : code[b][i].def = v
      /\ Here.def \notin Ends(P)
      /\ Here.def \in Pairs(P) => Here.op = "SeqSwap"
      /\ Here.def \in DOMAIN R \cup Spent(P)
  BY <1>3, ReplacementKept
<1>5. /\ coalesced' = [v \in DOMAIN coalesced \cup DOMAIN R |->
                         IF v \in DOMAIN R THEN R[v] ELSE coalesced[v]]
      /\ marked' = marked \cup {Here.def} \cup DOMAIN R
  BY <1>3 DEF Rewrite, Coalesce, Mark
<1>6. Pairs(P) \subseteq Spent(P) /\ Ends(P) \subseteq Spent(P)
  BY <1>1, MadeOnce
<1>7. Here.op \in LoweredOps /\ Here.op \notin {"Extract0", "Extract1", "End"}
  BY DEF Visiting, LoweredOps, OverOperand, Returning
<1>8. Inserted(P, code, code', blk, pos, I)
  <2>1. ImplOf(Here.def) \in Value
    BY <1>2, ValueFacts DEF Inst
  <2>2. I \in Inst
    BY <1>0, <1>2, <2>1 DEF Inst
  <2>3. code \in [Blocks(P) -> Seq(Inst)]
    BY <1>1 DEF TypeOK
  <2>4. code' = [code EXCEPT ![blk] = InsertAt(code[blk], pos, I)]
    BY <1>0 DEF Rewrite, InsertBefore
  <2> QED
    BY <1>2, <2>2, <2>3, <2>4, InsertedIs
<1>9. I.form = form /\ I.op = Here.op /\ I.c = Here.c /\ I.x = Here.x
  BY <1>0, <1>2 DEF Inst
<1>10. Operands(P, marked, code') /\ InOrder(P, fn.dom, code')
  <2>1. Range(I.c) \cap Spent(P) = {} /\ Range(I.x) \cap Spent(P) = {} /\ I.form # "ssa"
    BY <1>2, <1>7, <1>9 DEF OperandsOf, Tidy
  <2>2. Operands(P, marked, code) /\ InOrder(P, fn.dom, code)
    BY <1>1 DEF Kept, Visited
  <2> QED
    BY <1>1, <1>8, <2>1, <2>2, InsertedKeeps
<1>11. Operands(P, marked', code')
  <2> SUFFICES ASSUME NEW b \in Blocks(P), NEW i \in DOMAIN code'[b]
               PROVE  OperandsOf(P, marked', code'[b][i])
    BY DEF Operands
  <2>1. OperandsOf(P, marked, code'[b][i])
    BY <1>10 DEF Operands
  <2>2. ASSUME NEW v \in Range(code'[b][i].c), v \in Pairs(P), v \in marked'
        PROVE  code'[b][i].def \in marked'
    <3>1. CASE v \in marked
      BY <1>5, <2>1, <2>2, <3>1 DEF OperandsOf
    <3>2. CASE v \in DOMAIN R
      BY <1>4, <1>6, <2>2, <3>2
    <3>3. CASE v = Here.def
      <4>1. Here.op = "SeqSwap"
        BY <1>4, <2>2, <3>3
      <4>2. code'[b][i].op \in {"Extract0", "Extract1"} /\ Len(code'[b][i].c) = 1
        BY <2>1, <2>2 DEF OperandsOf, Tidy
      <4>3. code'[b][i] # I
        BY <1>7, <1>9, <4>2
      <4>4. PICK m \in DOMAIN code[b] : code'[b][i] = code[b][m]
        BY <1>8, <4>3 DEF Inserted
      <4>5. code[b][m].c[1] = v
        <5>1. code[b][m] \in Inst
          BY <1>1, <4>4 DEF TypeOK
        <5>2. code[b][m].c \in Seq(Value) /\ Len(code[b][m].c) = 1 /\ v \in Range(code[b][m].c)
          BY <2>2, <4>2, <4>4, <5>1 DEF Inst
        <5>3. DOMAIN code[b][m].c = 1 .. 1
          BY <5>2, LenProperties
        <5> QED
          BY <5>2, <5>3 DEF Range
      <4>6. <<b, m>> \in Halves(Here.def) /\ At(<<b, m>>) = code[b][m]
        BY <1>1, <3>3, <4>2, <4>4, <4>5 DEF Halves, Positions, At, TypeOK
      <4>7. code[b][m].def \in DOMAIN R
        BY <1>3, <4>1, <4>6 DEF Replacement
      <4> QED
        BY <1>5, <4>4, <4>7
    <3> QED
      BY <1>5, <2>2, <3>1, <3>2, <3>3
  <2>3. Range(code'[b][i].x) \cap Ends(P) \cap marked' = {}
    BY <1>4, <1>5, <1>6, <2>1 DEF OperandsOf
  <2> QED
    BY <2>1, <2>2, <2>3 DEF OperandsOf
<1>12. Replacements'
  <2>1. \A b \in Blocks(P) : \A k \in DOMAIN code[b] : \E i \in DOMAIN code'[b] : code'[b][i] = code[b][k]
    BY <1>8 DEF Inserted
  <2>2. ASSUME NEW v \in DOMAIN coalesced'
        PROVE  /\ coalesced'[v] \notin Spent(P)
               /\ \E b \in Blocks(P) : \E i \in DOMAIN code'[b] : code'[b][i].def = v
    <3>1. /\ coalesced'[v] \notin Spent(P)
          /\ \E b \in Blocks(P) : \E i \in DOMAIN code[b] : code[b][i].def = v
      BY <1>4, <1>5 DEF Kept, Replacements
    <3> QED
      BY <2>1, <3>1
  <2>3. marked' \subseteq DOMAIN coalesced' \cup Spent(P)
    BY <1>4, <1>5 DEF Kept, Replacements
  <2> QED
    BY <1>1, <2>2, <2>3 DEF Kept, Replacements
<1>13. VisitedEnds(seen, blk, pos + 2, marked', code')
  <2> SUFFICES ASSUME NEW b \in seen, NEW i \in DOMAIN code'[b], b = blk => i < pos + 2,
                      IsEnd(code'[b][i])
               PROVE  code'[b][i].def \in marked'
    BY DEF VisitedEnds
  <2>1. b \in Blocks(P)
    BY <1>1 DEF TypeOK
  <2>2. code'[b][i] # I
    BY <1>7, <1>9 DEF IsEnd
  <2>3. PICK m \in DOMAIN code[b] : i = Moved(blk, pos, b, m) /\ code'[b][i] = code[b][m] /\ m \in Nat
    BY <1>8, <2>1, <2>2 DEF Inserted
  <2>4. ~(b = blk /\ m = pos)
    BY <1>2, <1>7, <2>3 DEF IsEnd
  <2>5. b = blk => m < pos
    BY <1>2, <2>3, <2>4 DEF Moved
  <2> QED
    BY <1>1, <1>5, <2>3, <2>5 DEF Kept, Visited, VisitedEnds
<1>14. Visited'
  BY <1>1, <1>10, <1>13 DEF Kept, Visited, Traversal
<1>15. CoalescedSoFar'
  BY <1>1 DEF CoalescedSoFar
<1>16. PHIOperands' /\ Ordinary(fn.P)'
  BY <1>1 DEF Kept, PHIOperands
<1> QED
  BY <1>1, <1>11, <1>12, <1>14, <1>15, <1>16 DEF Kept

LEMMA RenamingKept ==
  ASSUME IInv, Kept, VisitRenaming
  PROVE  Kept'
<1> DEFINE P == fn.P
<1>1. /\ stage = "visit" /\ stage' = "visit" /\ pos <= Len(code[blk]) /\ TypeOK /\ VisitsInOrder
      /\ Here.form = "ssa" /\ Here.op \in RenamingOps
      /\ UNCHANGED <<fn, stage, seen, blk, replaced, erased, ptr, code, phis>> /\ pos' = pos + 1
      /\ SSAForm(P, fn.dom)
  BY FnIs DEF VisitRenaming, Visiting, Advance, IInv, Kept
<1>2. /\ blk \in Blocks(P) /\ pos \in DOMAIN code[blk] /\ pos \in Nat /\ Here = code[blk][pos]
      /\ Here \in Inst /\ OperandsOf(P, marked, Here)
      /\ IsInput(Here.def) => Here.def \in Made(P, {Here.op})
  BY <1>1, HereKept
<1>3. /\ coalesced' = [v \in DOMAIN coalesced \cup {Here.def} |->
                         IF v = Here.def THEN Here.c[1] ELSE coalesced[v]]
      /\ marked' = marked \cup {Here.def}
  BY DEF VisitRenaming, Coalesce, Mark
<1>4. Here.op \notin {"SeqSwap", "Delete", "End", "Extract0", "Extract1", "SeqAlloc", "AssocAlloc",
                      "Call", "Return"}
  BY <1>1 DEF RenamingOps
<1>5. Here.def \notin Spent(P) /\ Pairs(P) \subseteq Spent(P) /\ Ends(P) \subseteq Spent(P)
  BY <1>1, <1>2, <1>4, MadeOnce
<1>6. Here.c[1] \notin Spent(P)
  <2>1. Ordered(fn, Here) /\ Here.c \in Seq(Value)
    BY <1>1, <1>2, OrderedHere DEF Inst
  <2>2. 1 \in DOMAIN Here.c
    BY <1>4, <2>1 DEF Ordered, Applied
  <2> QED
    BY <1>2, <1>4, <2>2 DEF OperandsOf, Tidy, Range
<1>7. Operands(P, marked', code')
  BY <1>1, <1>3, <1>5 DEF Kept, Operands, OperandsOf
<1>8. Replacements'
  BY <1>1, <1>2, <1>3, <1>6 DEF Kept, Replacements
<1>9. VisitedEnds(seen, blk, pos + 1, marked', code)
  <2> SUFFICES ASSUME NEW b \in seen, NEW i \in DOMAIN code[b], b = blk => i < pos + 1,
                      IsEnd(code[b][i])
               PROVE  code[b][i].def \in marked'
    BY DEF VisitedEnds
  <2>1. ~(b = blk /\ i = pos)
    BY <1>2, <1>4 DEF IsEnd
  <2>2. b = blk => i \in Nat
    BY <1>1, <1>2 DEF TypeOK
  <2>3. b = blk => i < pos
    BY <1>2, <2>1, <2>2
  <2> QED
    BY <1>1, <1>3, <2>3 DEF Kept, Visited, VisitedEnds
<1>10. Visited'
  BY <1>1, <1>9 DEF Kept, Visited, Traversal
<1>11. CoalescedSoFar'
  BY <1>1 DEF CoalescedSoFar
<1>12. PHIOperands' /\ Ordinary(fn.P)'
  BY <1>1 DEF Kept, PHIOperands
<1> QED
  BY <1>1, <1>7, <1>8, <1>10, <1>11, <1>12 DEF Kept

\* A use of the End in hand is still to be visited, and its value not yet marked.
LEMMA EndUseAhead ==
  ASSUME IInv, Kept, Visiting({"End"}), Here.def \in Ends(fn.P),
         NEW b \in Blocks(fn.P), NEW i \in DOMAIN code[b], Here.def \in Range(code[b][i].x)
  PROVE  Here.def \notin marked /\ (b \in seen => b = blk /\ pos < i)
<1>1. /\ stage = "visit" /\ Here.def \in Range(code[b][i].x) \cap Ends(fn.P)
      /\ OperandsOf(fn.P, marked, code[b][i])
  BY DEF Visiting, Kept, Operands
<1>2. Here.def \notin marked
  BY <1>1 DEF OperandsOf
<1>3. PICK a, k : /\ a \in fn.dom[b] /\ k \in DOMAIN code[a] /\ a \in Blocks(fn.P) /\ (a = b => k < i)
                  /\ IsEnd(code[a][k]) /\ code[a][k].def = Here.def
  BY <1>1 DEF Kept, Visited, InOrder, EndsFirst
<1>4. a \in seen => a = blk /\ ~(k < pos)
  BY <1>1, <1>2, <1>3 DEF Kept, Visited, VisitedEnds
<1>5. b \in seen => a \in seen /\ (a = blk => b = blk)
  BY <1>1, <1>3 DEF Kept, Visited, Traversal
<1>6. k \in Nat /\ i \in Nat /\ pos \in Nat
  <2>1. code[a] \in Seq(Inst) /\ code[b] \in Seq(Inst) /\ pos \in Nat
    BY <1>3 DEF IInv, TypeOK
  <2> QED
    BY <1>3, <2>1, LenProperties
<1>7. (a = b => k < i) /\ ~(k < pos) => (a = b => pos < i)
  BY <1>6
<1> QED
  BY <1>2, <1>3, <1>4, <1>5, <1>7

(***************************************************************************)
(* How an End is rewritten: operand j of instruction i of block b, which   *)
(* used it, becomes a size (mid), and what computes it goes in front.      *)
(***************************************************************************)
EndTaken(b, i, j, mid, inst) ==
  /\ b \in Blocks(fn.P) /\ i \in DOMAIN code[b] /\ code[b][i] \in Inst /\ code[b][i].op \in EndUsers
  /\ j \in DOMAIN code[b][i].x /\ code[b][i].x[j] = Here.def
  /\ inst \in Inst /\ inst.form = "ssa" /\ inst.op = "Size" /\ inst.def = SizeAt(code[b][i].def, j)
  /\ inst.c = <<EndOf(code[b][i], j)>> /\ inst.x = << >>
  /\ mid \in [Blocks(fn.P) -> Seq(Inst)]
  /\ \A a \in Blocks(fn.P) :
       /\ DOMAIN mid[a] = DOMAIN code[a]
       /\ \A k \in DOMAIN code[a] :
            mid[a][k] = IF a = b /\ k = i THEN [code[a][k] EXCEPT !.x[j] = inst.def] ELSE code[a][k]
  /\ code' = [mid EXCEPT ![b] = InsertAt(mid[b], i, inst)]

LEMMA EndIsTaken ==
  ASSUME IInv, VisitEnd, IndexUses(Here.def) # {}
  PROVE  \E b, i, j, mid, inst : EndTaken(b, i, j, mid, inst)
<1> USE DEF IInv
<1>0. stage = "visit"
  BY DEF VisitEnd, Visiting
<1>1. code \in [Blocks(fn.P) -> Seq(Inst)]
  BY DEF TypeOK
<1>2. PICK u \in IndexUses(Here.def) :
        LET I    == code[u[1]][u[2]]
            size == SizeAt(I.def, u[3])
        IN  /\ I.op \in EndUsers
            /\ code' = [code EXCEPT ![u[1]] =
                          InsertAt([@ EXCEPT ![u[2]].x[u[3]] = size], u[2],
                            [form |-> "ssa", op |-> "Size", def |-> size,
                             c |-> <<EndOf(I, u[3])>>, x |-> << >>])]
  BY DEF VisitEnd
<1>3. PICK b, i, j : /\ b \in Blocks(fn.P) /\ i \in DOMAIN code[b] /\ j \in DOMAIN code[b][i].x
                     /\ code[b][i].x[j] = Here.def /\ u = <<b, i, j>>
  BY <1>1, <1>2 DEF IndexUses, Positions, At
<1>4. PICK I : I = code[b][i]
  OBVIOUS
<1>5. PICK size : size = SizeAt(I.def, j)
  OBVIOUS
<1>6. PICK inst : inst = [form |-> "ssa", op |-> "Size", def |-> size,
                          c |-> <<EndOf(I, j)>>, x |-> << >>]
  OBVIOUS
<1>7. PICK J : J = [I EXCEPT !.x[j] = size]
  OBVIOUS
<1>8. PICK s : s = [code[b] EXCEPT ![i].x[j] = size]
  OBVIOUS
<1>9. I \in Inst /\ Ordered(fn, I) /\ I.op \in EndUsers /\ j \in DOMAIN I.x
  BY <1>0, <1>2, <1>3, <1>4, OrderedHere
<1>10. inst \in Inst /\ size \in Value
  BY <1>5, <1>6, <1>9, SizeFacts
<1>11. J \in Inst
  <2>1. [I.x EXCEPT ![j] = size] \in Seq(Value)
    BY <1>9, <1>10 DEF Inst
  <2> QED
    BY <1>7, <1>9, <2>1 DEF Inst
<1>12. /\ s \in Seq(Inst) /\ DOMAIN s = DOMAIN code[b]
       /\ \A k \in DOMAIN code[b] : s[k] = IF k = i THEN J ELSE code[b][k]
  BY <1>1, <1>3, <1>4, <1>7, <1>8, <1>11
<1>13. PICK mid : mid = [code EXCEPT ![b] = s]
  OBVIOUS
<1>14. /\ mid \in [Blocks(fn.P) -> Seq(Inst)] /\ mid[b] = s
       /\ \A a \in Blocks(fn.P) : a # b => mid[a] = code[a]
  BY <1>1, <1>3, <1>12, <1>13
<1>15. code' = [mid EXCEPT ![b] = InsertAt(mid[b], i, inst)]
  <2>1. u[1] = b /\ u[2] = i /\ u[3] = j
    BY <1>3
  <2>2. code' = [code EXCEPT ![b] = InsertAt(s, i, inst)]
    BY <1>2, <1>4, <1>5, <1>6, <1>8, <2>1
  <2> QED
    BY <1>1, <1>3, <1>13, <1>14, <2>2
<1>16. \A a \in Blocks(fn.P) :
         /\ DOMAIN mid[a] = DOMAIN code[a]
         /\ \A k \in DOMAIN code[a] :
              mid[a][k] = IF a = b /\ k = i THEN [code[a][k] EXCEPT !.x[j] = size] ELSE code[a][k]
  BY <1>4, <1>7, <1>12, <1>14
<1>17. inst.form = "ssa" /\ inst.op = "Size" /\ inst.def = size /\ inst.c = <<EndOf(I, j)>> /\ inst.x = << >>
  BY <1>6
<1>18. EndTaken(b, i, j, mid, inst)
  BY <1>3, <1>4, <1>5, <1>9, <1>10, <1>14, <1>15, <1>16, <1>17 DEF EndTaken
<1> QED
  BY <1>18

\* The first half of it: the operand that was the End is none of those spent.
LEMMA EndIsAltered ==
  ASSUME IInv, Kept, NEW b, NEW i, NEW j, NEW mid, NEW inst, EndTaken(b, i, j, mid, inst)
  PROVE  Altered(fn.P, code, mid) /\ inst.def \notin Spent(fn.P) /\ ~IsInput(inst.def)
<1>1. SSAForm(fn.P, fn.dom)
  BY FnIs DEF IInv, Kept
<1>2. ~IsInput(inst.def)
  <2>1. j # 0
    BY DEF EndTaken, Inst
  <2> QED
    BY <2>1, ValueFacts DEF EndTaken
<1>3. inst.def \notin Spent(fn.P)
  BY <1>1, <1>2, MadeOnce
<1>4. ASSUME NEW a \in Blocks(fn.P), NEW k \in DOMAIN code[a]
      PROVE  /\ mid[a][k].form = code[a][k].form /\ mid[a][k].op = code[a][k].op
             /\ mid[a][k].def = code[a][k].def /\ mid[a][k].c = code[a][k].c
             /\ DOMAIN mid[a][k].x = DOMAIN code[a][k].x
             /\ \A l \in DOMAIN code[a][k].x : mid[a][k].x[l] \in {code[a][k].x[l], inst.def}
  <2>1. PICK K : K = code[a][k]
    OBVIOUS
  <2>2. K \in Inst
    <3>1. code[a] \in Seq(Inst)
      BY DEF IInv, TypeOK
    <3> QED
      BY <2>1, <3>1
  <2>3. mid[a][k] = K \/ mid[a][k] = [K EXCEPT !.x[j] = inst.def]
    BY <2>1 DEF EndTaken
  <2> QED
    BY <2>1, <2>2, <2>3 DEF Inst
<1>5. \A a \in Blocks(fn.P) : DOMAIN mid[a] = DOMAIN code[a]
  BY DEF EndTaken
<1>6. Altered(fn.P, code, mid)
  BY <1>3, <1>4, <1>5 DEF Altered
<1> QED
  BY <1>2, <1>3, <1>6

LEMMA EndKept ==
  ASSUME IInv, Kept, VisitEnd
  PROVE  Kept'
<1> DEFINE P == fn.P
<1>1. /\ stage = "visit" /\ stage' = "visit" /\ pos <= Len(code[blk]) /\ TypeOK /\ VisitsInOrder
      /\ Visiting({"End"}) /\ Here.form = "ssa" /\ Here.op = "End"
      /\ UNCHANGED <<fn, stage, seen, blk, replaced, erased, ptr, phis, coalesced>> /\ pos' = pos + 1
      /\ marked' = marked \cup {Here.def}
      /\ SSAForm(P, fn.dom) /\ \A b \in Blocks(P) : fn.dom[b] \subseteq Blocks(P)
  BY FnIs DEF VisitEnd, Visiting, Advance, Mark, IInv, Kept
<1>2. /\ blk \in Blocks(P) /\ pos \in DOMAIN code[blk] /\ pos \in Nat /\ Here = code[blk][pos]
      /\ Here \in Inst /\ (IsInput(Here.def) => Here.def \in Made(P, {"End"}))
  BY <1>1, HereKept
<1>3. Here.def \in Ends(P) /\ Here.def \in Spent(P) /\ Here.def \notin Pairs(P)
  <2>1. IsInput(Here.def)
    BY <1>1, <1>2, OrderedHere DEF Ordered
  <2>2. Pairs(P) \cap Ends(P) = {} /\ Ends(P) \subseteq Spent(P)
    BY <1>1, MadeOnce
  <2> QED
    BY <1>2, <2>1, <2>2 DEF Ends
<1>4. /\ Operands(P, marked, code) /\ InOrder(P, fn.dom, code) /\ VisitedEnds(seen, blk, pos, marked, code)
  BY <1>1 DEF Kept, Visited
<1>5. seen \subseteq Blocks(P)
  BY <1>1 DEF TypeOK
<1>6. CASE IndexUses(Here.def) = {}
  <2>1. code' = code
    BY <1>6 DEF VisitEnd
  <2>2. \A b \in Blocks(P) : \A i \in DOMAIN code[b] : Here.def \notin Range(code[b][i].x)
    <3> SUFFICES ASSUME NEW b \in Blocks(P), NEW i \in DOMAIN code[b], NEW j \in DOMAIN code[b][i].x,
                        code[b][i].x[j] = Here.def
                 PROVE  FALSE
      BY DEF Range
    <3>1. <<b, i>> \in Positions /\ At(<<b, i>>) = code[b][i]
      BY <1>1 DEF Positions, At, TypeOK
    <3>2. <<b, i, j>> \in IndexUses(Here.def)
      BY <3>1 DEF IndexUses
    <3> QED
      BY <1>6, <3>2
  <2>3. VisitedEnds(seen, blk, pos + 1, marked', code)
    <3> SUFFICES ASSUME NEW b \in seen, NEW i \in DOMAIN code[b], b = blk => i < pos + 1,
                        IsEnd(code[b][i])
                 PROVE  code[b][i].def \in marked'
      BY DEF VisitedEnds
    <3>1. CASE b = blk /\ i = pos
      BY <1>1, <1>2, <3>1
    <3>2. CASE ~(b = blk /\ i = pos)
      <4>1. b = blk => i \in Nat
        BY <1>1, <1>2 DEF TypeOK
      <4>2. b = blk => i < pos
        BY <1>2, <3>2, <4>1
      <4> QED
        BY <1>1, <1>4, <4>2 DEF VisitedEnds
    <3> QED
      BY <3>1, <3>2
  <2>4. Operands(P, marked', code)
    BY <1>1, <1>3, <1>4, <2>2 DEF Operands, OperandsOf
  <2>5. Replacements'
    BY <1>1, <1>3, <2>1 DEF Kept, Replacements
  <2>6. Visited'
    BY <1>1, <1>4, <2>1, <2>3 DEF Kept, Visited, Traversal
  <2>7. CoalescedSoFar' /\ PHIOperands' /\ Ordinary(fn.P)'
    BY <1>1 DEF Kept, CoalescedSoFar, PHIOperands
  <2> QED
    BY <1>1, <2>1, <2>4, <2>5, <2>6, <2>7 DEF Kept
<1>7. CASE IndexUses(Here.def) # {}
  <2>1. PICK b, i, j, mid, inst : EndTaken(b, i, j, mid, inst)
    BY <1>7, EndIsTaken
  <2>2. Altered(P, code, mid) /\ inst.def \notin Spent(P) /\ ~IsInput(inst.def)
    BY <2>1, EndIsAltered
  <2>3. /\ b \in Blocks(P) /\ i \in DOMAIN code[b] /\ DOMAIN mid[b] = DOMAIN code[b]
        /\ code[b][i] \in Inst /\ code[b][i].op \in EndUsers
        /\ j \in DOMAIN code[b][i].x /\ code[b][i].x[j] = Here.def
        /\ mid \in [Blocks(P) -> Seq(Inst)] /\ inst \in Inst
        /\ code' = [mid EXCEPT ![b] = InsertAt(mid[b], i, inst)]
        /\ inst.op = "Size" /\ inst.c = <<EndOf(code[b][i], j)>> /\ inst.x = << >>
    BY <2>1 DEF EndTaken
  <2>4. Inserted(P, mid, code', b, i, inst)
    BY <2>3, InsertedIs
  <2>5. Operands(P, marked, mid) /\ InOrder(P, fn.dom, mid)
    BY <1>1, <1>4, <2>2, AlteredKeeps
  <2>6. Range(inst.c) \cap Spent(P) = {} /\ Range(inst.x) = {}
    <3>1. OperandsOf(P, marked, code[b][i]) /\ Ordered(fn, code[b][i])
      BY <1>1, <1>4, <2>3, OrderedHere DEF Operands
    <3>2. Range(code[b][i].c) \cap Spent(P) = {}
      BY <2>3, <3>1 DEF OperandsOf, Tidy, EndUsers
    <3>3. code[b][i].c \in Seq(Value) /\ code[b][i].c # << >>
          /\ (code[b][i].op = "SeqSwap" => Len(code[b][i].c) = 2)
      BY <2>3, <3>1 DEF Ordered, Applied, EndUsers, Inst
    <3>4. EndOf(code[b][i], j) \in Range(code[b][i].c)
      <4>1. 1 \in DOMAIN code[b][i].c /\ (code[b][i].op = "SeqSwap" => 2 \in DOMAIN code[b][i].c)
        BY <3>3
      <4> QED
        BY <4>1 DEF EndOf, Range
    <3>5. \A k \in DOMAIN inst.c : inst.c[k] = EndOf(code[b][i], j)
      BY <2>3
    <3>6. DOMAIN inst.x = {}
      BY <2>3
    <3> QED
      BY <3>2, <3>4, <3>5, <3>6 DEF Range
  <2>7. Operands(P, marked, code') /\ InOrder(P, fn.dom, code')
    BY <1>1, <2>2, <2>4, <2>5, <2>6, InsertedKeeps
  <2>8. Here.def \in Range(code[b][i].x)
    BY <2>3 DEF Range
  <2>9. Here.def \notin marked /\ (b \in seen => b = blk /\ pos < i)
    BY <1>1, <1>3, <2>3, <2>8, EndUseAhead
  <2>10. \A a \in Blocks(P) : \A k \in DOMAIN code'[a] : Here.def \notin Range(code'[a][k].x)
    <3>1. \A a \in Blocks(P) : \A k \in DOMAIN mid[a] : Here.def \notin Range(mid[a][k].x)
      <4> SUFFICES ASSUME NEW a \in Blocks(P), NEW k \in DOMAIN mid[a], NEW l \in DOMAIN mid[a][k].x,
                          mid[a][k].x[l] = Here.def
                   PROVE  FALSE
        BY DEF Range
      <4>1. /\ k \in DOMAIN code[a] /\ l \in DOMAIN code[a][k].x /\ code[a][k].x[l] = Here.def
        BY <1>3, <2>2 DEF Altered
      <4>2. a = b /\ k = i /\ l = j
        BY <1>3, <1>4, <2>3, <4>1 DEF InOrder, EndsOnce
      <4>3. mid[b][i] = [code[b][i] EXCEPT !.x[j] = inst.def]
        BY <2>1, <2>3 DEF EndTaken
      <4>4. mid[b][i].x[j] = inst.def
        BY <2>3, <4>3 DEF Inst
      <4> QED
        BY <1>3, <2>2, <4>2, <4>4
    <3> QED
      BY <2>4, <2>6, <3>1 DEF Inserted
  <2>11. Operands(P, marked', code')
    <3>1. Pairs(P) \cap marked' = Pairs(P) \cap marked
      BY <1>1, <1>3
    <3> QED
      BY <1>1, <2>7, <2>10, <3>1 DEF Operands, OperandsOf
  <2>12. VisitedEnds(seen, blk, pos + 1, marked', code')
    <3> SUFFICES ASSUME NEW a \in seen, NEW k \in DOMAIN code'[a], a = blk => k < pos + 1,
                        IsEnd(code'[a][k])
                 PROVE  code'[a][k].def \in marked'
      BY DEF VisitedEnds
    <3>1. a \in Blocks(P)
      BY <1>5
    <3>2. code'[a][k] # inst
      BY <2>3 DEF IsEnd
    <3>3. PICK m \in DOMAIN mid[a] : k = Moved(b, i, a, m) /\ code'[a][k] = mid[a][m]
      BY <2>4, <3>1, <3>2 DEF Inserted
    <3>4. m \in DOMAIN code[a] /\ IsEnd(code[a][m]) /\ code'[a][k].def = code[a][m].def
      BY <2>2, <3>1, <3>3 DEF Altered, IsEnd
    <3>5. CASE a = blk /\ m = pos
      BY <1>1, <1>2, <3>4, <3>5
    <3>6. CASE ~(a = blk /\ m = pos)
      <4>1. m \in Nat /\ i \in Nat
        BY <2>4, <3>1, <3>3 DEF Inserted
      <4>2. a = blk => m < pos
        BY <1>2, <2>9, <3>3, <3>6, <4>1 DEF Moved
      <4> QED
        BY <1>1, <1>4, <3>4, <4>2 DEF VisitedEnds
    <3> QED
      BY <3>5, <3>6
  <2>13. Replacements'
    <3>1. \A a \in Blocks(P) : \A k \in DOMAIN code[a] :
            \E m \in DOMAIN code'[a] : code'[a][m].def = code[a][k].def
      BY <2>2, <2>4 DEF Altered, Inserted
    <3>2. ASSUME NEW v \in DOMAIN coalesced
          PROVE  \E a \in Blocks(P) : \E m \in DOMAIN code'[a] : code'[a][m].def = v
      <4>1. PICK a \in Blocks(P) : \E k \in DOMAIN code[a] : code[a][k].def = v
        BY DEF Kept, Replacements
      <4> QED
        BY <3>1, <4>1
    <3> QED
      BY <1>1, <1>3, <3>2 DEF Kept, Replacements
  <2>14. Visited'
    BY <1>1, <2>7, <2>12 DEF Kept, Visited, Traversal
  <2>15. CoalescedSoFar' /\ PHIOperands' /\ Ordinary(fn.P)'
    BY <1>1 DEF Kept, CoalescedSoFar, PHIOperands
  <2> QED
    BY <1>1, <2>11, <2>13, <2>14, <2>15 DEF Kept
<1> QED
  BY <1>6, <1>7

LEMMA LeftKept ==
  ASSUME IInv, Kept, VisitLeft
  PROVE  Kept'
<1>1. /\ stage = "visit" /\ stage' = "visit" /\ pos <= Len(code[blk]) /\ TypeOK
      /\ UNCHANGED <<fn, stage, seen, blk, replaced, erased, ptr, code, phis, coalesced, marked>>
      /\ pos' = pos + 1
  BY DEF VisitLeft, Advance, IInv
<1>2. /\ blk \in Blocks(fn.P) /\ pos \in Nat /\ Here = code[blk][pos]
  BY <1>1, HereKept
<1>3. ~IsEnd(Here)
  BY DEF VisitLeft, IsEnd, LeftOps, LoweredOps, OverOperand, Returning
<1>4. VisitedEnds(seen, blk, pos + 1, marked, code)
  <2> SUFFICES ASSUME NEW b \in seen, NEW i \in DOMAIN code[b], b = blk => i < pos + 1, IsEnd(code[b][i])
               PROVE  code[b][i].def \in marked
    BY DEF VisitedEnds
  <2>1. ~(b = blk /\ i = pos)
    BY <1>2, <1>3
  <2>2. b = blk => i \in Nat
    BY <1>1, <1>2 DEF TypeOK
  <2>3. b = blk => i < pos
    BY <1>2, <2>1, <2>2
  <2> QED
    BY <1>1, <2>3 DEF Kept, Visited, VisitedEnds
<1>5. Visited'
  BY <1>1, <1>4 DEF Kept, Visited, Traversal
<1>6. Operands(fn.P, marked, code)' /\ Replacements' /\ CoalescedSoFar' /\ PHIOperands' /\ Ordinary(fn.P)'
  BY <1>1 DEF Kept, Replacements, CoalescedSoFar, PHIOperands
<1> QED
  BY <1>5, <1>6 DEF Kept

LEMMA NextBlockKept ==
  ASSUME IInv, Kept, NextBlock
  PROVE  Kept'
<1> DEFINE next == NextInPreorder(fn.P, fn.dom, seen, blk)
<1>1. /\ stage = "visit" /\ pos > Len(code[blk]) /\ pos' = 1 /\ TypeOK
      /\ UNCHANGED <<fn, replaced, erased, ptr, code, phis, coalesced, marked>>
      /\ InOrder(fn.P, fn.dom, code) /\ Traversal /\ VisitedEnds(seen, blk, pos, marked, code)
  BY DEF NextBlock, maps, IInv, Kept, Visited
<1>2. IF next = {} THEN stage' = "coalesce" /\ blk' = 1
      ELSE stage' = "visit" /\ blk' \in next /\ seen' = seen \cup {blk'}
  BY <1>1 DEF NextBlock
<1>3. Operands(fn.P, marked, code)' /\ PHIOperands' /\ Ordinary(fn.P)'
  BY <1>1 DEF Kept, PHIOperands
<1>4. Replacements'
  BY <1>1, <1>2 DEF Kept, Replacements
<1>5. \A b \in Blocks(fn.P) : \A i \in DOMAIN code[b] : i \in Nat \ {0}
  <2>1. \A b \in Blocks(fn.P) : code[b] \in Seq(Inst)
    BY <1>1 DEF TypeOK
  <2> QED
    BY <2>1
<1>6. CASE next = {}
  <2>1. CoalescedSoFar'
    <3>1. ASSUME NEW b \in Blocks(fn.P), NEW i \in DOMAIN code[b]
          PROVE  ~Passed(b, i)'
      <4>1. b \in 1 .. Len(fn.P.succ) /\ i \in Nat \ {0}
        BY <1>5 DEF Blocks
      <4>2. ~(b < 1) /\ ~(i < 1)
        BY <4>1
      <4> QED
        BY <1>1, <1>2, <1>6, <4>2 DEF Passed
    <3> QED
      BY <1>1, <1>2, <1>6, <3>1 DEF CoalescedSoFar
  <2>2. Visited'
    BY <1>2, <1>6 DEF Visited
  <2> QED
    BY <1>3, <1>4, <2>1, <2>2 DEF Kept
<1>7. CASE next # {}
  <2>1. PICK b \in next : blk' = b /\ seen' = seen \cup {b} /\ stage' = "visit"
    BY <1>2, <1>7
  <2>2. b \in Blocks(fn.P) \ seen /\ fn.dom[b] \subseteq seen \cup {b}
    <3>1. /\ 1 \in Blocks(fn.P) /\ Blocks(fn.P) \subseteq ReachAvoiding(fn.P, 0) /\ IsFiniteSet(Blocks(fn.P))
          /\ fn.dom = Dominators(fn.P)
      BY <1>1, FnIs DEF Kept
    <3>2. 1 \in seen /\ blk \in seen /\ \A a \in seen : fn.dom[a] \subseteq seen
      BY <1>1 DEF Traversal
    <3> QED
      BY <3>1, <3>2, DominatorsFirst
  <2>3. Traversal'
    <3>1. 1 \in seen' /\ blk' \in seen'
      BY <1>1, <2>1 DEF Traversal
    <3>2. ASSUME NEW a \in seen'
          PROVE  fn.dom[a] \subseteq seen' /\ (b \in fn.dom[a] => a = b)
      BY <1>1, <2>1, <2>2, <3>2 DEF Traversal
    <3> QED
      BY <1>1, <2>1, <3>1, <3>2 DEF Traversal
  <2>4. VisitedEnds(seen', b, 1, marked, code)
    <3> SUFFICES ASSUME NEW a \in seen', NEW i \in DOMAIN code[a], a = b => i < 1, IsEnd(code[a][i])
                 PROVE  code[a][i].def \in marked
      BY DEF VisitedEnds
    <3>1. a # b
      <4>1. i \in Nat \ {0} => ~(i < 1)
        OBVIOUS
      <4> QED
        BY <1>5, <2>2, <4>1
    <3>2. a \in seen
      BY <2>1, <3>1
    <3>3. a = blk => i < pos
      <4>1. a = blk => code[blk] \in Seq(Inst) /\ pos \in Nat
        BY <1>1 DEF TypeOK
      <4> QED
        BY <1>1, <4>1
    <3> QED
      BY <1>1, <3>2, <3>3 DEF VisitedEnds
  <2>5. Visited'
    BY <1>1, <2>1, <2>3, <2>4 DEF Visited
  <2>6. CoalescedSoFar'
    BY <2>1 DEF CoalescedSoFar
  <2> QED
    BY <1>3, <1>4, <2>5, <2>6 DEF Kept
<1> QED
  BY <1>6, <1>7

\* What ends the pass, or leaves all but the position in do_coalesce.
LEMMA MovingKept ==
  ASSUME IInv, Kept, CoalesceSkip \/ Cleanup \/ VisitUnlowerable \/ VisitEndUnsupported \/ UNCHANGED vars
  PROVE  Kept'
<1>1. /\ UNCHANGED <<fn, replaced, ptr, code, phis, coalesced, marked>> /\ TypeOK
      /\ stage' = "find" => stage = "find"
  BY DEF CoalesceSkip, Cleanup, VisitUnlowerable, VisitEndUnsupported, Unreachable, vars, maps, IInv
<1>2. Operands(fn.P, marked, code)' /\ PHIOperands' /\ Ordinary(fn.P)' /\ Replacements'
  BY <1>1 DEF Kept, PHIOperands, Replacements
<1>3. Visited'
  BY DEF CoalesceSkip, Cleanup, VisitUnlowerable, VisitEndUnsupported, Unreachable, vars, maps,
         Kept, Visited, Traversal
<1>4. CoalescedSoFar'
  <2>1. CASE CoalesceSkip
    <3>1. stage = "coalesce" /\ stage' \in {"coalesce", "cleanup"}
      BY <2>1 DEF CoalesceSkip
    <3>2. ASSUME NEW b \in Blocks(fn.P), NEW i \in DOMAIN code[b],
                 Passed(b, i)', code[b][i].def \in DOMAIN coalesced
          PROVE  Passed(b, i)
      <4>1. /\ b \in 1 .. Len(fn.P.succ) /\ blk \in 1 .. Len(fn.P.succ) /\ pos \in Nat
            /\ Len(fn.P.succ) \in Nat
        BY <1>1, FnIs DEF TypeOK, Kept
      <4>2. i \in 1 .. Len(code[b]) /\ Len(code[b]) \in Nat
        <5>1. code[b] \in Seq(Inst)
          BY <1>1 DEF TypeOK
        <5> QED
          BY <5>1, LenProperties
      <4>3. CASE pos <= Len(code[blk])
        <5>1. Here.def \notin DOMAIN coalesced /\ pos' = pos + 1 /\ blk' = blk /\ stage' = "coalesce"
          BY <2>1, <3>1, <4>3 DEF CoalesceSkip
        <5>2. ~(b = blk /\ i = pos)
          BY <3>2, <5>1 DEF Here
        <5>3. b < blk \/ (b = blk /\ i < pos + 1)
          BY <3>2, <5>1 DEF Passed
        <5>4. b < blk \/ (b = blk /\ i < pos)
          BY <4>1, <4>2, <5>2, <5>3
        <5> QED
          BY <5>4 DEF Passed
      <4>4. CASE ~(pos <= Len(code[blk])) /\ blk < Len(fn.P.succ)
        <5>1. blk' = blk + 1 /\ pos' = 1 /\ stage' = "coalesce"
          BY <2>1, <3>1, <4>4 DEF CoalesceSkip
        <5>2. b < blk + 1 \/ (b = blk + 1 /\ i < 1)
          BY <3>2, <5>1 DEF Passed
        <5>3. b < blk \/ b = blk
          BY <4>1, <4>2, <5>2
        <5>4. b = blk => i < pos
          BY <4>1, <4>2, <4>4
        <5> QED
          BY <5>3, <5>4 DEF Passed
      <4>5. CASE ~(pos <= Len(code[blk])) /\ ~(blk < Len(fn.P.succ))
        <5>1. b < blk \/ b = blk
          BY <4>1, <4>5
        <5>2. b = blk => i < pos
          BY <4>1, <4>2, <4>5
        <5> QED
          BY <5>1, <5>2 DEF Passed
      <4> QED
        BY <4>3, <4>4, <4>5
    <3> QED
      BY <1>1, <3>1, <3>2 DEF Kept, CoalescedSoFar
  <2>2. CASE Cleanup
    BY <2>2 DEF Cleanup, Kept, CoalescedSoFar, Passed
  <2>3. CASE VisitUnlowerable \/ VisitEndUnsupported
    BY <2>3 DEF VisitUnlowerable, VisitEndUnsupported, Unreachable, CoalescedSoFar
  <2>4. CASE UNCHANGED vars
    BY <2>4 DEF vars, Kept, CoalescedSoFar, Passed
  <2> QED
    BY <2>1, <2>2, <2>3, <2>4
<1> QED
  BY <1>2, <1>3, <1>4 DEF Kept

-----------------------------------------------------------------------------
(* do_coalesce, again. *)

LEMMA FindKept ==
  ASSUME IInv, Kept, CoalesceFind \/ FindReplacement
  PROVE  Kept'
<1>1. /\ UNCHANGED <<fn, seen, blk, pos, code, phis, coalesced, replaced, marked, erased>>
      /\ stage \in {"coalesce", "find"} /\ stage' = "find"
  BY DEF CoalesceFind, FindReplacement, maps
<1>2. ptr' \notin Spent(fn.P)
  BY DEF CoalesceFind, FindReplacement, Kept, Replacements
<1>3. Replacements'
  BY <1>1, <1>2 DEF Kept, Replacements
<1>4. CoalescedSoFar'
  BY <1>1 DEF Kept, CoalescedSoFar, Passed
<1>5. Visited' /\ PHIOperands' /\ Ordinary(fn.P)' /\ Operands(fn.P, marked, code)'
  BY <1>1 DEF Kept, Visited, PHIOperands
<1> QED
  BY <1>3, <1>4, <1>5 DEF Kept

LEMMA DoCoalesceKept ==
  ASSUME IInv, Kept, DoCoalesce
  PROVE  Kept'
<1> DEFINE P == fn.P
<1>1. PICK v, w : v = Here.def /\ w = ptr /\ ReplaceUses(v, w)
  BY DEF DoCoalesce
<1>2. /\ UNCHANGED <<fn, seen, blk, coalesced, marked, erased, ptr>>
      /\ stage = "find" /\ stage' = "coalesce" /\ pos' = pos + 1
      /\ replaced' = [u \in DOMAIN replaced \cup {v} |-> IF u = v THEN w ELSE replaced[u]]
      /\ w \notin Spent(P) /\ TypeOK
      /\ SSAForm(P, fn.dom) /\ \A b \in Blocks(P) : fn.dom[b] \subseteq Blocks(P)
  BY <1>1, FnIs DEF DoCoalesce, Kept, Replacements, IInv
<1>3. /\ code' = [b \in DOMAIN code |->
                    [i \in DOMAIN code[b] |->
                       [code[b][i] EXCEPT
                          !.c = [k \in DOMAIN @ |-> IF @[k] = v THEN w ELSE @[k]],
                          !.x = [k \in DOMAIN @ |-> IF @[k] = v THEN w ELSE @[k]]]]]
      /\ phis' = [b \in DOMAIN phis |->
                    {[q EXCEPT !.in = [k \in DOMAIN @ |-> IF @[k] = v THEN w ELSE @[k]]] : q \in phis[b]}]
  BY <1>1 DEF ReplaceUses
<1>4. DOMAIN code = Blocks(P) /\ DOMAIN phis = Blocks(P)
  BY <1>2 DEF TypeOK
<1>5. \A b \in Blocks(P) : DOMAIN code'[b] = DOMAIN code[b]
  BY <1>3, <1>4
<1>6. ASSUME NEW b \in Blocks(P), NEW i \in DOMAIN code[b]
      PROVE  /\ code'[b][i].form = code[b][i].form /\ code'[b][i].op = code[b][i].op
             /\ code'[b][i].def = code[b][i].def
             /\ DOMAIN code'[b][i].c = DOMAIN code[b][i].c /\ Len(code'[b][i].c) = Len(code[b][i].c)
             /\ \A j \in DOMAIN code[b][i].c : code'[b][i].c[j] \in {code[b][i].c[j], w}
             /\ DOMAIN code'[b][i].x = DOMAIN code[b][i].x
             /\ \A j \in DOMAIN code[b][i].x : code'[b][i].x[j] \in {code[b][i].x[j], w}
  <2>1. PICK I : I = code[b][i]
    OBVIOUS
  <2>2. PICK c, x : /\ c = [k \in DOMAIN I.c |-> IF I.c[k] = v THEN w ELSE I.c[k]]
                    /\ x = [k \in DOMAIN I.x |-> IF I.x[k] = v THEN w ELSE I.x[k]]
    OBVIOUS
  <2>3. I \in Inst
    <3>1. code[b] \in Seq(Inst)
      BY <1>2 DEF TypeOK
    <3> QED
      BY <2>1, <3>1
  <2>4. code'[b][i] = [I EXCEPT !.c = c, !.x = x]
    BY <1>3, <1>4, <2>1, <2>2
  <2>5. I.c \in Seq(Value) /\ I.x \in Seq(Value)
    BY <2>3 DEF Inst
  <2>6. w \in Value
    BY <1>1, <1>2 DEF TypeOK
  <2>7. c \in Seq(Value) /\ x \in Seq(Value)
    <3>1. c \in Seq(Value)
      BY <2>2, <2>5, <2>6, Substituted
    <3>2. x \in Seq(Value)
      BY <2>2, <2>5, <2>6, Substituted
    <3> QED
      BY <3>1, <3>2
  <2>8. code'[b][i].form = I.form /\ code'[b][i].op = I.op /\ code'[b][i].def = I.def
        /\ code'[b][i].c = c /\ code'[b][i].x = x
    BY <2>3, <2>4, <2>7 DEF Inst
  <2>9. DOMAIN c = DOMAIN I.c /\ DOMAIN x = DOMAIN I.x
        /\ (\A j \in DOMAIN I.c : c[j] \in {I.c[j], w}) /\ (\A j \in DOMAIN I.x : x[j] \in {I.x[j], w})
    BY <2>2
  <2>10. Len(c) = Len(I.c)
    BY <2>5, <2>7, <2>9, LenProperties
  <2> QED
    BY <2>1, <2>8, <2>9, <2>10
<1>7. Altered(P, code, code')
  BY <1>2, <1>5, <1>6 DEF Altered
<1>8. Operands(P, marked, code')
  BY <1>2, <1>7, AlteredKeeps DEF Kept
<1>9. PHIOperands'
  <2> SUFFICES ASSUME NEW b \in Blocks(P), NEW q \in phis'[b], NEW p \in DOMAIN q.in
               PROVE  q.in[p] \notin Spent(P)
    BY <1>2 DEF PHIOperands
  <2>1. PICK o \in phis[b] : q = [o EXCEPT !.in = [k \in DOMAIN @ |-> IF @[k] = v THEN w ELSE @[k]]]
    BY <1>3, <1>4
  <2>2. o \in [def : Value, in : [Preds(P, b) -> Value]]
    BY <1>2 DEF TypeOK
  <2>3. p \in DOMAIN o.in /\ q.in[p] \in {o.in[p], w}
    BY <2>1, <2>2
  <2> QED
    BY <1>2, <2>3 DEF Kept, PHIOperands
<1>10. Replacements'
  <2>1. \A u \in DOMAIN replaced' : replaced'[u] \notin Spent(P)
    BY <1>2 DEF Kept, Replacements
  <2>2. ASSUME NEW u \in DOMAIN coalesced
        PROVE  \E b \in Blocks(P) : \E i \in DOMAIN code'[b] : code'[b][i].def = u
    <3>1. PICK b \in Blocks(P) : \E i \in DOMAIN code[b] : code[b][i].def = u
      BY DEF Kept, Replacements
    <3> QED
      BY <1>5, <1>6, <3>1
  <2> QED
    BY <1>2, <2>1, <2>2 DEF Kept, Replacements
<1>11. CoalescedSoFar'
  <2> SUFFICES ASSUME NEW b \in Blocks(P), NEW i \in DOMAIN code'[b],
                      Passed(b, i)', code'[b][i].def \in DOMAIN coalesced
               PROVE  code'[b][i].def \in DOMAIN replaced'
    BY <1>2 DEF CoalescedSoFar
  <2>1. i \in DOMAIN code[b] /\ code'[b][i].def = code[b][i].def
    BY <1>5, <1>6
  <2>2. CASE b = blk /\ i = pos
    BY <1>1, <1>2, <2>1, <2>2 DEF Here
  <2>3. CASE ~(b = blk /\ i = pos)
    <3>1. b < blk \/ (b = blk /\ i < pos + 1)
      BY <1>2 DEF Passed
    <3>2. b = blk => i \in Nat /\ pos \in Nat
      <4>1. code[b] \in Seq(Inst) /\ pos \in Nat
        BY <1>2 DEF TypeOK
      <4> QED
        BY <2>1, <4>1, LenProperties
    <3>3. b < blk \/ (b = blk /\ i < pos)
      BY <2>3, <3>1, <3>2
    <3>4. Passed(b, i)
      BY <3>3 DEF Passed
    <3> QED
      BY <1>2, <2>1, <3>4 DEF Kept, CoalescedSoFar
  <2> QED
    BY <2>2, <2>3
<1>12. Visited' /\ Ordinary(fn.P)'
  BY <1>2 DEF Kept, Visited
<1> QED
  BY <1>2, <1>8, <1>9, <1>10, <1>11, <1>12 DEF Kept

-----------------------------------------------------------------------------
(* The theorem. *)

LEMMA InitKept ==
  ASSUME Init, Ordinary(fn.P)
  PROVE  Kept
<1> DEFINE P == fn.P
<1>1. TypeOK
  BY InitKeeps DEF IInv
<1>2. /\ SSAForm(P, fn.dom) /\ fn.dom = Dominators(P) /\ 1 \in Blocks(P)
      /\ \A b \in Blocks(P) : b \in fn.dom[b] /\ fn.dom[b] \subseteq Blocks(P)
  BY <1>1, FnIs
<1>3. /\ stage = "visit" /\ seen = {1} /\ blk = 1 /\ pos = 1 /\ code = P.code /\ phis = P.phis
      /\ DOMAIN coalesced = {} /\ DOMAIN replaced = {} /\ marked = {}
  BY DEF Init
<1>4. Operands(P, marked, code)
  BY <1>3 DEF Ordinary, Operands, OperandsOf
<1>5. PHIOperands
  BY <1>3 DEF Ordinary, PHIOperands
<1>6. Replacements /\ CoalescedSoFar
  BY <1>3 DEF Replacements, CoalescedSoFar
<1>7. FromInput(P, code)
  <2>1. \A b \in Blocks(P) : \A i \in DOMAIN P.code[b] : P.code[b][i].def \in Made(P, {P.code[b][i].op})
    BY DEF Made
  <2> QED
    BY <1>3, <2>1 DEF FromInput
<1>8. EndsFirst(P, fn.dom, code)
  <2> SUFFICES ASSUME NEW b \in Blocks(P), NEW i \in DOMAIN P.code[b],
                      NEW e \in Range(P.code[b][i].x) \cap Ends(P)
               PROVE  \E a \in fn.dom[b] : \E k \in DOMAIN P.code[a] :
                        /\ a \in Blocks(P) /\ (a = b => k < i)
                        /\ IsEnd(P.code[a][k]) /\ P.code[a][k].def = e
    BY <1>3 DEF EndsFirst
  <2>1. PICK a \in Blocks(P) : \E k \in DOMAIN P.code[a] : P.code[a][k].op = "End" /\ P.code[a][k].def = e
    BY DEF Ends, Made
  <2>2. PICK k \in DOMAIN P.code[a] : P.code[a][k].op = "End" /\ P.code[a][k].def = e
    BY <2>1
  <2>3. DefPoints(P, e) = {<<a, k>>} /\ P.code[a][k].form = "ssa"
    BY <1>2, <2>2 DEF SSAForm
  <2>4. e \notin P.args \cup {Opaque}
    BY <2>3 DEF Ordinary
  <2>5. Defined(P, fn.dom, e, <<b, i>>)
    BY <1>2, <2>4 DEF SSAForm
  <2>6. IF a = b THEN k < i ELSE a \in fn.dom[b]
    BY <2>3, <2>4, <2>5 DEF Defined
  <2>7. a \in fn.dom[b] /\ (a = b => k < i) /\ IsEnd(P.code[a][k])
    BY <1>2, <2>2, <2>3, <2>6 DEF IsEnd
  <2> QED
    BY <2>2, <2>7
<1>9. EndsOnce(P, code)
  BY <1>3 DEF Ordinary
<1>10. Traversal
  <2>1. fn.dom[1] \subseteq {1}
    <3> SUFFICES ASSUME NEW a \in fn.dom[1], a # 1
                 PROVE  FALSE
      OBVIOUS
    <3>1. 1 \notin ReachAvoiding(P, a)
      BY <1>2 DEF Dominators
    <3>2. ClosedFrom(P, a, ReachAvoiding(P, a))
      BY <1>2, ReachClosed
    <3> QED
      BY <3>1, <3>2 DEF ClosedFrom
  <2> QED
    BY <1>3, <2>1 DEF Traversal
<1>11. VisitedEnds(seen, blk, pos, marked, code)
  <2> SUFFICES ASSUME NEW i \in DOMAIN code[1], i < 1
               PROVE  FALSE
    BY <1>3 DEF VisitedEnds
  <2>1. code[1] \in Seq(Inst)
    BY <1>1, <1>2 DEF TypeOK
  <2>2. i \in Nat \ {0}
    BY <2>1
  <2> QED
    BY <2>2
<1>12. Visited
  BY <1>7, <1>8, <1>9, <1>10, <1>11 DEF Visited, InOrder
<1> QED
  BY <1>4, <1>5, <1>6, <1>12 DEF Kept

LEMMA StepKept ==
  ASSUME IInv, Kept, [Next]_vars
  PROVE  Kept'
<1>1. CASE VisitMutated
  <2>1. Visiting(LoweredOps) /\ Here.op \in MutatedOps /\ Rewrite("mut")
    BY <1>1 DEF VisitMutated, Visiting, MutatedOps, LoweredOps, OverOperand, Returning
  <2> QED
    BY <2>1, RewriteKept
<1>2. CASE VisitLowered
  BY <1>2, RewriteKept DEF VisitLowered
<1>3. CASE VisitRenaming
  BY <1>3, RenamingKept
<1>4. CASE VisitEnd
  BY <1>4, EndKept
<1>5. CASE VisitLeft
  BY <1>5, LeftKept
<1>6. CASE NextBlock
  BY <1>6, NextBlockKept
<1>7. CASE CoalesceFind \/ FindReplacement
  BY <1>7, FindKept
<1>8. CASE DoCoalesce
  BY <1>8, DoCoalesceKept
<1>9. CASE CoalesceSkip \/ Cleanup \/ VisitUnlowerable \/ VisitEndUnsupported \/ UNCHANGED vars
  BY <1>9, MovingKept
<1> QED
  BY <1>1, <1>2, <1>3, <1>4, <1>5, <1>6, <1>7, <1>8, <1>9 DEF Next, Pass, Visit, Stopped

\* At the end: what was replaced is not used, and what is spent by spent values only.
LEMMA KeptAtTheEnd ==
  ASSUME IInv, Kept
  PROVE  NothingDangles
<1> SUFFICES ASSUME stage = "done", NEW v \in erased
             PROVE  /\ ~UsedByPHI(v)
                    /\ \A p \in Positions :
                         v \in Range(At(p).c) \cup Range(At(p).x) => At(p).def \in erased
  BY DEF NothingDangles
<1>1. v \in marked /\ erased = marked /\ (v \in DOMAIN coalesced \/ v \in Spent(fn.P))
  BY DEF Kept, CoalescedSoFar, Replacements
<1>2. DOMAIN code = Blocks(fn.P)
  BY DEF IInv, TypeOK
<1>3. CASE v \in DOMAIN coalesced
  <2>1. PICK b \in Blocks(fn.P) : \E i \in DOMAIN code[b] : code[b][i].def = v
    BY <1>3 DEF Kept, Replacements
  <2>2. v \in DOMAIN replaced
    BY <1>3, <2>1 DEF Kept, CoalescedSoFar, Passed
  <2>3. ~Used(v)
    BY <2>2 DEF IInv, ReplacedUnused
  <2> QED
    BY <1>2, <2>3 DEF Used, Positions, At
<1>4. CASE v \in Spent(fn.P)
  <2>1. ~UsedByPHI(v)
    BY <1>4 DEF UsedByPHI, Kept, PHIOperands
  <2>2. ASSUME NEW p \in Positions, v \in Range(At(p).c) \cup Range(At(p).x)
        PROVE  At(p).def \in marked
    <3>1. OperandsOf(fn.P, marked, At(p))
      BY <1>2 DEF Positions, At, Kept, Operands
    <3> QED
      BY <1>1, <1>4, <2>2, <3>1 DEF OperandsOf, Tidy
  <2> QED
    BY <1>1, <2>1, <2>2
<1> QED
  BY <1>1, <1>3, <1>4

(***************************************************************************)
(* cleanup erases what is marked whether it is used or not.  For functions *)
(* in which a pair is only taken apart, nothing uses what Delete returns   *)
(* and no End has a second use, what is left of the function when the pass *)
(* has finished uses nothing that was erased.                              *)
(***************************************************************************)
THEOREM NothingIsLeftDangling ==
  ASSUME OrdinaryPrograms
  PROVE  Spec => []NothingDangles
<1>1. Init => IInv /\ Kept
  <2> SUFFICES ASSUME Init
               PROVE  IInv /\ Kept
    OBVIOUS
  <2>1. IInv
    BY InitKeeps
  <2>2. Ordinary(fn.P)
    BY <2>1 DEF IInv, TypeOK, OrdinaryPrograms
  <2> QED
    BY <2>1, <2>2, InitKept
<1>2. (IInv /\ Kept) /\ [Next]_vars => (IInv /\ Kept)'
  BY StepKeeps, StepKept
<1>3. IInv /\ Kept => NothingDangles
  BY KeptAtTheEnd
<1> QED
  BY <1>1, <1>2, <1>3, PTL DEF Spec
=============================================================================
