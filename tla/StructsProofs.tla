--------------------------- MODULE StructsProofs ----------------------------
(***************************************************************************)
(* Of the passes over structs: the deletion of dead collections and types  *)
(* leaves a whole program; after field elision every access of a field     *)
(* that was elided is to the array of that field; after dead field         *)
(* elimination every access is to the field that was meant.  Of the        *)
(* tables of types: no type has two objects.                               *)
(***************************************************************************)
EXTENDS DeadFields, DeadCollections, FiniteSetTheorems, SequenceTheorems, WellFoundedInduction, TLAPS

-----------------------------------------------------------------------------
(* Dead collections *)

\* Where v is used, by instructions that have their operands or not.
UsedAt(v) ==
  {u \in (DOMAIN code) \X (1 .. 2) : u[2] \in DOMAIN code[u[1]].uses /\ code[u[1]].uses[u[2]] = v}

\* First all is visited, then all operands are dropped, then all is deleted; what uses a dead
\* value is dead.
DeadInv ==
  /\ code \in Codes /\ place \in 1 .. Len(code) + 1
  /\ dropped \subseteq dead /\ deleted \subseteq dead
  /\ place <= Len(code) => dropped = {} /\ deleted = {}
  /\ deleted # {} => dropped = dead
  /\ \A v \in dead : \A u \in UsedAt(v) : u[1] \in dead
  /\ \A v \in dead \cap DOMAIN code : code[v].op # "DefineStructType"

LEMMA CodeIsSequence ==
  ASSUME AssertionsAreApart, code \in Codes
  PROVE  /\ Len(code) \in Nat /\ DOMAIN code = 1 .. Len(code)
         /\ \A v \in DOMAIN code : \A n \in DOMAIN code[v].uses :
              code[v].uses[n] \in DOMAIN code /\ code[code[v].uses[n]].op \notin AssertOps
         /\ \A v \in DOMAIN code : code[v].op \in AssertOps =>
              1 \in DOMAIN code[v].uses /\ code[code[v].uses[1]].op # "DefineStructType"
<1>1. code \in Seq(Range(code))
  BY DEF AssertionsAreApart
<1>2. \A v \in DOMAIN code : \A n \in DOMAIN code[v].uses : code[v].uses[n] \in Range(code[v].uses)
  BY DEF Range
<1> QED
  BY <1>1, <1>2 DEF AssertionsAreApart

\* Before operands are dropped a value with no uses has no users, and one with one use no other
\* user.
LEMMA CountedUses ==
  ASSUME AssertionsAreApart, code \in Codes, dropped = {}, NEW v
  PROVE  /\ HasNUses(v, 0) => UsedAt(v) = {}
         /\ \A u \in UsedAt(v) : HasNUses(v, 1) => UsedAt(v) = {u}
<1>1. Uses(v) = UsedAt(v)
  BY DEF Uses, UsedAt
<1>2. IsFiniteSet(UsedAt(v))
  <2>1. IsFiniteSet(DOMAIN code) /\ IsFiniteSet(1 .. 2)
    <3>1. DOMAIN code = 1 .. Len(code) /\ Len(code) \in Int
      BY CodeIsSequence
    <3>2. IsFiniteSet(1 .. Len(code))
      BY <3>1, FS_Interval
    <3>3. IsFiniteSet(1 .. 2)
      <4>1. \A n \in 1 .. 2 : n <= 2
        OBVIOUS
      <4>2. 1 .. 2 \in SUBSET Nat /\ 2 \in Nat
        OBVIOUS
      <4> QED
        BY <4>1, <4>2, FS_BoundedSetOfNaturals
    <3> QED
      BY <3>1, <3>2, <3>3
  <2>2. IsFiniteSet((DOMAIN code) \X (1 .. 2))
    BY <2>1, FS_Product
  <2>3. UsedAt(v) \in SUBSET ((DOMAIN code) \X (1 .. 2))
    BY DEF UsedAt
  <2> QED
    BY <2>2, <2>3, FS_Subset
<1>3. HasNUses(v, 0) => UsedAt(v) = {}
  BY <1>1, <1>2, FS_EmptySet DEF HasNUses
<1>4. HasNUses(v, 1) => \E x : UsedAt(v) = {x}
  BY <1>1, <1>2, FS_Singleton DEF HasNUses
<1> QED
  BY <1>3, <1>4

\* What a visit adds is used by nothing but what it adds, and is no struct's definition.
LEMMA VisitAddsWhole ==
  ASSUME AssertionsAreApart, code \in Codes, dropped = {}, place \in DOMAIN code
  PROVE  /\ \A v \in Discovered(place) : \A u \in UsedAt(v) : u[1] \in Discovered(place)
         /\ \A v \in Discovered(place) \cap DOMAIN code : code[v].op # "DefineStructType"
<1>1. CASE code[place].op \in CollectionOps \cup TypeOps
  <2>1. Discovered(place) = IF HasNUses(place, 0) THEN {place} ELSE {}
    BY <1>1 DEF Discovered, CollectionOps, TypeOps, AssertOps
  <2>2. code[place].op # "DefineStructType"
    BY <1>1 DEF CollectionOps, TypeOps
  <2> QED
    BY <2>1, <2>2, CountedUses
<1>2. CASE code[place].op \in AssertOps
  <2> DEFINE t == code[place].uses[1]
  <2>1. Discovered(place) = {place} \cup {x \in {t} : HasNUses(x, 1)}
    BY <1>2 DEF Discovered, CollectionOps, TypeOps, AssertOps
  <2>2. UsedAt(place) = {}
    BY <1>2, CodeIsSequence DEF UsedAt
  <2>3. HasNUses(t, 1) => UsedAt(t) = {<<place, 1>>}
    <3>1. 1 \in DOMAIN code[place].uses
      BY <1>2, CodeIsSequence
    <3>2. <<place, 1>> \in UsedAt(t)
      BY <3>1 DEF UsedAt
    <3> QED
      BY <3>2, CountedUses
  <2>4. code[place].op # "DefineStructType" /\ code[t].op # "DefineStructType"
    BY <1>2, CodeIsSequence DEF AssertOps
  <2> HIDE DEF t
  <2>5. ASSUME NEW v \in Discovered(place), NEW w \in UsedAt(v) PROVE w[1] \in Discovered(place)
    <3>1. v = t /\ HasNUses(t, 1)
      BY <2>1, <2>2, <2>5
    <3>2. w = <<place, 1>>
      BY <2>3, <2>5, <3>1
    <3> QED
      BY <2>1, <3>2
  <2> QED
    BY <2>1, <2>4, <2>5
<1>3. CASE code[place].op \notin CollectionOps \cup TypeOps \cup AssertOps
  BY <1>3 DEF Discovered
<1> QED
  BY <1>1, <1>2, <1>3

LEMMA DeadStep ==
  ASSUME AssertionsAreApart
  PROVE  DeadInv /\ [CollectionsNext]_deadVars => DeadInv'
<1> SUFFICES ASSUME DeadInv, [CollectionsNext]_deadVars PROVE DeadInv'
  OBVIOUS
<1>1. code' = code
  BY DEF CollectionsNext, VisitInstruction, DropReferences, Delete, deadVars
<1>2. \A v : UsedAt(v)' = UsedAt(v)
  BY <1>1 DEF UsedAt
<1>3. CASE VisitInstruction
  <2>1. place \in DOMAIN code /\ dropped = {} /\ deleted = {} /\ place' \in 1 .. Len(code) + 1
    BY <1>3, CodeIsSequence DEF DeadInv, VisitInstruction
  <2>2. dead' = dead \cup Discovered(place) /\ dropped' = {} /\ deleted' = {}
    BY <1>3, <2>1 DEF VisitInstruction
  <2>3. \A v \in dead' : \A w \in UsedAt(v) : w[1] \in dead'
    BY <2>1, <2>2, VisitAddsWhole DEF DeadInv
  <2>4. \A v \in dead' \cap DOMAIN code : code[v].op # "DefineStructType"
    BY <2>1, <2>2, VisitAddsWhole DEF DeadInv
  <2> QED
    BY <1>1, <1>2, <2>1, <2>2, <2>3, <2>4 DEF DeadInv
<1>4. CASE DropReferences
  BY <1>1, <1>2, <1>4 DEF DeadInv, DropReferences
<1>5. CASE Delete
  BY <1>1, <1>2, <1>5 DEF DeadInv, Delete
<1>6. CASE UNCHANGED deadVars
  BY <1>1, <1>2, <1>6 DEF DeadInv, deadVars
<1> QED
  BY <1>3, <1>4, <1>5, <1>6 DEF CollectionsNext

(***************************************************************************)
(* transform leaves a whole program: nothing that is left uses what was    *)
(* deleted, and the struct types asked for by name have their definitions. *)
(***************************************************************************)
THEOREM LeftPartIsWhole ==
  ASSUME AssertionsAreApart
  PROVE  CollectionsSpec => []LeftIsWhole
<1>1. CollectionsInit => DeadInv
  <2> SUFFICES ASSUME CollectionsInit PROVE DeadInv
    OBVIOUS
  <2>1. code \in Codes /\ place = 1 /\ Len(code) \in Nat
    BY CodeIsSequence DEF CollectionsInit
  <2> QED
    BY <2>1 DEF CollectionsInit, DeadInv
<1>2. DeadInv /\ [CollectionsNext]_deadVars => DeadInv'
  BY DeadStep
<1>3. DeadInv => LeftIsWhole
  <2> SUFFICES ASSUME DeadInv PROVE LeftIsWhole
    OBVIOUS
  <2>1. ASSUME NEW v \in deleted PROVE HasNUses(v, 0)
    <3>1. v \in dead /\ dropped = dead
      BY <2>1 DEF DeadInv
    <3>2. Uses(v) = {}
      BY <3>1 DEF DeadInv, Uses, UsedAt
    <3> QED
      BY <3>2, FS_EmptySet DEF HasNUses
  <2>2. \A d \in DOMAIN code : code[d].op = "DefineStructType" => d \notin deleted
    BY DEF DeadInv
  <2> QED
    BY <2>1, <2>2 DEF LeftIsWhole
<1> QED
  BY <1>1, <1>2, <1>3, PTL DEF CollectionsSpec

-----------------------------------------------------------------------------
(* Field elision: the call graph *)

\* No access of a field of these types, and no call, of the functions in L is missing in U.
Complete(P, T, L, U) ==
  \A f \in L : \A i \in Range(P[f]) :
    /\ IsAccess(i) => \A v \in StructsOf(i) :
         TypeOf(v) \in T /\ i.field \in Nat => <<TypeOf(v), i.field>> \in U[f]
    /\ IsCall(i) /\ i.callee \in DOMAIN P => i.callee \in L /\ U[i.callee] \subseteq U[f]

Frame(P) == [node : DOMAIN P, next : Nat \ {0}, visited : SUBSET DOMAIN P]

\* The first n instructions of f.
Followed1(P, L, U, f, n) ==
  \A e \in 1 .. n :
    IsCall(P[f][e]) /\ P[f][e].callee \in DOMAIN P \ {f} =>
      P[f][e].callee \in L /\ U[P[f][e].callee] \subseteq U[f]

\* The frames are a path of calls from main, down the ranks; of each the edges before the next
\* were followed.
Path(P, rank, L, U, fr) ==
  /\ fr \in Seq(Frame(P))
  /\ fr # << >> => fr[1].node = Main
  /\ \A k \in 1 .. Len(fr) :
       /\ fr[k].next <= Len(P[fr[k].node]) + 1
       /\ fr[k].visited = {fr[j].node : j \in 1 .. k}
       /\ Followed1(P, L, U, fr[k].node, fr[k].next - 1)
       /\ k < Len(fr) => /\ fr[k].next <= Len(P[fr[k].node])
                         /\ IsCall(P[fr[k].node][fr[k].next])
                         /\ P[fr[k].node][fr[k].next].callee = fr[k + 1].node
       /\ \A j \in 1 .. k - 1 : rank[fr[k].node] < rank[fr[j].node]

\* L: the functions that were left.
Traversed(P, rank, L) ==
  /\ L \subseteq DOMAIN P
  /\ used = [f \in DOMAIN P |-> used[f]]
  /\ Complete(P, DOMAIN candidates, L, used)
  /\ Path(P, rank, L, used, frames)
  /\ frames = << >> => Main \in L

Ranked(P, rank) ==
  IsModule(P) /\ rank \in [DOMAIN P -> Nat] /\ IsRank(P, rank)

\* What the last frame is about.
LEMMA TopOfPath ==
  ASSUME NEW P, NEW rank, NEW L, NEW U, NEW fr, Ranked(P, rank), Path(P, rank, L, U, fr), fr # << >>
  PROVE  /\ Len(fr) \in Nat \ {0} /\ DOMAIN fr = 1 .. Len(fr) /\ Last(fr) = fr[Len(fr)]
         /\ \A k \in 1 .. Len(fr) : fr[k] \in Frame(P)
         /\ fr[Len(fr)].node \in DOMAIN P /\ fr[Len(fr)].next \in Nat \ {0}
         /\ P[fr[Len(fr)].node] \in Seq(Range(P[fr[Len(fr)].node]))
         /\ Len(P[fr[Len(fr)].node]) \in Nat
         /\ DOMAIN P[fr[Len(fr)].node] = 1 .. Len(P[fr[Len(fr)].node])
<1>1. fr \in Seq(Frame(P))
  BY DEF Path
<1>2. Len(fr) \in Nat \ {0} /\ DOMAIN fr = 1 .. Len(fr) /\ \A k \in 1 .. Len(fr) : fr[k] \in Frame(P)
  BY <1>1
<1>3. fr[Len(fr)] \in Frame(P)
  BY <1>2
<1>4. fr[Len(fr)].node \in DOMAIN P /\ fr[Len(fr)].next \in Nat \ {0}
  BY <1>3 DEF Frame
<1>5. P[fr[Len(fr)].node] \in Seq(Range(P[fr[Len(fr)].node]))
  BY <1>4 DEF Ranked, IsModule
<1> QED
  BY <1>2, <1>4, <1>5 DEF Last

\* The last frame goes on to its next edge once that was followed.
LEMMA PathGoesOn ==
  ASSUME NEW P, NEW rank, NEW L, NEW U, NEW fr, Ranked(P, rank), Path(P, rank, L, U, fr), fr # << >>,
         LET n == fr[Len(fr)].node
             x == fr[Len(fr)].next
         IN  x <= Len(P[n]) /\ Followed1(P, L, U, n, x)
  PROVE  Path(P, rank, L, U, Next1(fr)) /\ Next1(fr) # << >>
<1> DEFINE m == Len(fr)
<1> DEFINE g == Next1(fr)
<1>1. /\ m \in Nat \ {0} /\ DOMAIN fr = 1 .. m /\ \A k \in 1 .. m : fr[k] \in Frame(P)
      /\ fr[m].node \in DOMAIN P /\ fr[m].next \in Nat \ {0} /\ Len(P[fr[m].node]) \in Nat
  BY TopOfPath
<1>2. fr \in Seq(Frame(P)) /\ fr[1].node = Main
  BY DEF Path
<1>3. /\ [fr[m] EXCEPT !.next = @ + 1] \in Frame(P)
      /\ [fr[m] EXCEPT !.next = @ + 1].node = fr[m].node
      /\ [fr[m] EXCEPT !.next = @ + 1].visited = fr[m].visited
      /\ [fr[m] EXCEPT !.next = @ + 1].next = fr[m].next + 1
  <2>1. fr[m] \in Frame(P)
    BY <1>1
  <2> QED
    BY <2>1 DEF Frame
<1>4. PICK q : q = [fr[m] EXCEPT !.next = @ + 1]
  OBVIOUS
<1>5. q \in Frame(P) /\ q.node = fr[m].node /\ q.visited = fr[m].visited /\ q.next = fr[m].next + 1
  BY <1>3, <1>4
<1>6. g = [fr EXCEPT ![m] = q]
  BY <1>4 DEF Next1
<1> HIDE DEF m, g
<1>7. g \in Seq(Frame(P)) /\ Len(g) = m /\ \A k \in 1 .. m : g[k] = IF k = m THEN q ELSE fr[k]
  BY <1>1, <1>2, <1>5, <1>6 DEF m
<1>8. /\ g # << >> /\ \A k \in 1 .. m : g[k].node = fr[k].node /\ g[k].visited = fr[k].visited
      /\ \A k \in 1 .. m : g[k].next = IF k = m THEN fr[k].next + 1 ELSE fr[k].next
  BY <1>1, <1>5, <1>7
<1>9. g[1].node = Main
  BY <1>1, <1>2, <1>8
<1>10. ASSUME NEW k \in 1 .. m
       PROVE  /\ g[k].next <= Len(P[g[k].node]) + 1
              /\ g[k].visited = {g[j].node : j \in 1 .. k}
              /\ Followed1(P, L, U, g[k].node, g[k].next - 1)
              /\ k < m => /\ g[k].next <= Len(P[g[k].node])
                          /\ IsCall(P[g[k].node][g[k].next])
                          /\ P[g[k].node][g[k].next].callee = g[k + 1].node
              /\ \A j \in 1 .. k - 1 : rank[g[k].node] < rank[g[j].node]
  <2>1. /\ fr[k].next <= Len(P[fr[k].node]) + 1
        /\ fr[k].visited = {fr[j].node : j \in 1 .. k}
        /\ Followed1(P, L, U, fr[k].node, fr[k].next - 1)
        /\ k < m => /\ fr[k].next <= Len(P[fr[k].node])
                    /\ IsCall(P[fr[k].node][fr[k].next])
                    /\ P[fr[k].node][fr[k].next].callee = fr[k + 1].node
        /\ \A j \in 1 .. k - 1 : rank[fr[k].node] < rank[fr[j].node]
    BY DEF Path, m
  <2>2. \A j \in 1 .. k : j \in 1 .. m
    BY <1>1
  <2>3. g[k].visited = {g[j].node : j \in 1 .. k}
    BY <1>8, <2>1, <2>2
  <2>4. \A j \in 1 .. k - 1 : rank[g[k].node] < rank[g[j].node]
    BY <1>8, <2>1, <2>2
  <2>5. k < m => k + 1 \in 1 .. m
    BY <1>1
  <2>6. k < m => /\ g[k].next <= Len(P[g[k].node])
                 /\ IsCall(P[g[k].node][g[k].next])
                 /\ P[g[k].node][g[k].next].callee = g[k + 1].node
    <3> SUFFICES ASSUME k < m
                 PROVE  /\ g[k].next <= Len(P[g[k].node])
                        /\ IsCall(P[g[k].node][g[k].next])
                        /\ P[g[k].node][g[k].next].callee = g[k + 1].node
      OBVIOUS
    <3>1. g[k].next = fr[k].next /\ g[k].node = fr[k].node /\ g[k + 1].node = fr[k + 1].node
      <4>1. k # m /\ k + 1 \in 1 .. m
        BY <1>1
      <4> QED
        BY <1>8, <4>1
    <3> QED
      BY <2>1, <3>1
  <2>7. CASE k = m
    <3>1. fr[m].next <= Len(P[fr[m].node]) /\ Followed1(P, L, U, fr[m].node, fr[m].next)
      BY DEF m
    <3>2. g[k].next <= Len(P[g[k].node]) + 1 /\ g[k].next - 1 = fr[m].next
      BY <1>1, <1>8, <2>7, <3>1
    <3> QED
      BY <1>8, <2>3, <2>4, <2>6, <2>7, <3>1, <3>2
  <2>8. CASE k # m
    BY <1>8, <2>1, <2>3, <2>4, <2>6, <2>8
  <2> QED
    BY <2>7, <2>8
<1>11. Path(P, rank, L, U, g)
  BY <1>7, <1>9, <1>10 DEF Path
<1> QED
  BY <1>8, <1>11 DEF g

\* A call of a function that is not on the path begins.
LEMMA PathGrows ==
  ASSUME NEW P, NEW rank, NEW L, NEW U, NEW fr, Ranked(P, rank), Path(P, rank, L, U, fr), fr # << >>,
         NEW c \in DOMAIN P, c \notin fr[Len(fr)].visited,
         LET n == fr[Len(fr)].node
             x == fr[Len(fr)].next
         IN  x <= Len(P[n]) /\ IsCall(P[n][x]) /\ P[n][x].callee = c
  PROVE  LET g == Append(fr, [node |-> c, next |-> 1, visited |-> fr[Len(fr)].visited \cup {c}])
         IN  Path(P, rank, L, U, g) /\ g # << >>
<1> DEFINE m == Len(fr)
<1>1. /\ m \in Nat \ {0} /\ DOMAIN fr = 1 .. m /\ \A k \in 1 .. m : fr[k] \in Frame(P)
      /\ fr[m].node \in DOMAIN P /\ fr[m].next \in Nat \ {0}
      /\ Len(P[fr[m].node]) \in Nat /\ DOMAIN P[fr[m].node] = 1 .. Len(P[fr[m].node])
  BY TopOfPath
<1>2. fr \in Seq(Frame(P)) /\ fr[1].node = Main
  BY DEF Path
<1>3. fr[m].visited = {fr[j].node : j \in 1 .. m}
  BY <1>1 DEF Path
<1>4. PICK q : q = [node |-> c, next |-> 1, visited |-> fr[m].visited \cup {c}]
  OBVIOUS
<1>5. q \in Frame(P) /\ q.node = c /\ q.next = 1 /\ q.visited = fr[m].visited \cup {c}
  <2>1. fr[m] \in Frame(P)
    BY <1>1
  <2>2. fr[m].visited \in SUBSET DOMAIN P
    BY <2>1 DEF Frame
  <2> QED
    BY <1>4, <2>2 DEF Frame
<1>6. PICK g : g = Append(fr, q)
  OBVIOUS
<1>7. fr[m].next <= Len(P[fr[m].node]) /\ IsCall(P[fr[m].node][fr[m].next])
      /\ P[fr[m].node][fr[m].next].callee = c /\ c \notin fr[m].visited
  OBVIOUS
<1>8. rank[c] < rank[fr[m].node]
  <2>1. c # fr[m].node
    BY <1>1, <1>3, <1>7
  <2>2. P[fr[m].node][fr[m].next] \in Range(P[fr[m].node])
    BY <1>1, <1>7 DEF Range
  <2> QED
    BY <1>1, <1>7, <2>1, <2>2 DEF Ranked, IsRank
<1>9. \A k \in 1 .. m : rank[fr[k].node] \in Nat /\ rank[c] \in Nat
  BY <1>1 DEF Frame, Ranked
<1>10. \A j \in 1 .. m : rank[c] < rank[fr[j].node]
  <2> SUFFICES ASSUME NEW j \in 1 .. m PROVE rank[c] < rank[fr[j].node]
    OBVIOUS
  <2>1. CASE j = m
    BY <1>8, <2>1
  <2>2. CASE j # m
    <3>1. j \in 1 .. m - 1 /\ m \in 1 .. m
      <4>1. m \in Nat \ {0}
        BY <1>1
      <4> HIDE DEF m
      <4> QED
        BY <2>2, <4>1
    <3>2. rank[fr[m].node] < rank[fr[j].node]
      BY <3>1 DEF Path
    <3>3. rank[fr[m].node] \in Nat /\ rank[fr[j].node] \in Nat /\ rank[c] \in Nat
      BY <1>9, <3>1
    <3> QED
      BY <1>8, <3>2, <3>3
  <2> QED
    BY <2>1, <2>2
<1> HIDE DEF m
<1>11. /\ g \in Seq(Frame(P)) /\ Len(g) = m + 1 /\ g # << >>
       /\ \A k \in 1 .. m : g[k] = fr[k]
       /\ g[m + 1] = q
  BY <1>1, <1>2, <1>5, <1>6 DEF m
<1>12. g[1].node = Main
  BY <1>1, <1>2, <1>11
<1>13. ASSUME NEW k \in 1 .. m + 1
       PROVE  /\ g[k].next <= Len(P[g[k].node]) + 1
              /\ g[k].visited = {g[j].node : j \in 1 .. k}
              /\ Followed1(P, L, U, g[k].node, g[k].next - 1)
              /\ k < m + 1 => /\ g[k].next <= Len(P[g[k].node])
                              /\ IsCall(P[g[k].node][g[k].next])
                              /\ P[g[k].node][g[k].next].callee = g[k + 1].node
              /\ \A j \in 1 .. k - 1 : rank[g[k].node] < rank[g[j].node]
  <2>1. CASE k = m + 1
    <3>1. g[k] = q /\ \A j \in 1 .. m : g[j] = fr[j]
      BY <1>11, <2>1
    <3>2. Len(P[c]) \in Nat
      BY DEF Ranked, IsModule
    <3>3. g[k].next <= Len(P[g[k].node]) + 1
      BY <1>5, <3>1, <3>2
    <3>4. g[k].visited = {g[j].node : j \in 1 .. k}
      <4>1. \A j \in 1 .. k : j \in 1 .. m \/ j = k
        BY <1>1, <2>1
      <4>2. \A j \in 1 .. m : j \in 1 .. k
        BY <1>1, <2>1
      <4>3. k \in 1 .. k
        BY <1>1, <2>1
      <4>4. g[k].visited = {fr[j].node : j \in 1 .. m} \cup {c}
        BY <1>3, <1>5, <3>1
      <4> QED
        BY <1>5, <3>1, <4>1, <4>2, <4>3, <4>4
    <3>5. Followed1(P, L, U, g[k].node, g[k].next - 1)
      <4>1. g[k].next - 1 = 0
        BY <1>5, <3>1
      <4> QED
        BY <4>1 DEF Followed1
    <3>6. \A j \in 1 .. k - 1 : rank[g[k].node] < rank[g[j].node]
      <4>1. k - 1 = m
        BY <1>1, <2>1
      <4> QED
        BY <1>5, <1>10, <3>1, <4>1
    <3> QED
      BY <1>1, <2>1, <3>3, <3>4, <3>5, <3>6
  <2>2. CASE k # m + 1
    <3>1. k \in 1 .. m /\ g[k] = fr[k] /\ \A j \in 1 .. k : g[j] = fr[j]
      BY <1>1, <1>11, <2>2
    <3>2. /\ fr[k].next <= Len(P[fr[k].node]) + 1
          /\ fr[k].visited = {fr[j].node : j \in 1 .. k}
          /\ Followed1(P, L, U, fr[k].node, fr[k].next - 1)
          /\ k < m => /\ fr[k].next <= Len(P[fr[k].node])
                      /\ IsCall(P[fr[k].node][fr[k].next])
                      /\ P[fr[k].node][fr[k].next].callee = fr[k + 1].node
          /\ \A j \in 1 .. k - 1 : rank[fr[k].node] < rank[fr[j].node]
      BY <3>1 DEF Path, m
    <3>3. g[k].visited = {g[j].node : j \in 1 .. k}
      BY <3>1, <3>2
    <3>4. \A j \in 1 .. k - 1 : rank[g[k].node] < rank[g[j].node]
      BY <3>1, <3>2
    <3>5. /\ g[k].next <= Len(P[g[k].node])
          /\ IsCall(P[g[k].node][g[k].next])
          /\ P[g[k].node][g[k].next].callee = g[k + 1].node
      <4>1. CASE k = m
        BY <1>5, <1>7, <1>11, <3>1, <4>1
      <4>2. CASE k # m
        <5>1. k < m /\ g[k + 1] = fr[k + 1]
          BY <1>1, <1>11, <3>1, <4>2
        <5> QED
          BY <3>1, <3>2, <5>1
      <4> QED
        BY <4>1, <4>2
    <3> QED
      BY <3>1, <3>2, <3>3, <3>4, <3>5
  <2> QED
    BY <2>1, <2>2
<1>14. Path(P, rank, L, U, g)
  BY <1>11, <1>12, <1>13 DEF Path
<1> QED
  BY <1>4, <1>6, <1>11, <1>14 DEF m

\* The last call returns to the frame before.
LEMMA PathShrinks ==
  ASSUME NEW P, NEW rank, NEW L, NEW U, NEW fr, Ranked(P, rank), Path(P, rank, L, U, fr), Len(fr) > 1
  PROVE  /\ Path(P, rank, L, U, Front(fr)) /\ Front(fr) # << >> /\ Len(Front(fr)) = Len(fr) - 1
         /\ Front(fr)[Len(fr) - 1] = fr[Len(fr) - 1]
<1> DEFINE m == Len(fr)
<1>1. fr \in Seq(Frame(P))
  BY DEF Path
<1>2. m \in Nat /\ m > 1
  BY <1>1
<1>3. PICK g : g = Front(fr)
  OBVIOUS
<1>4. /\ g \in Seq(Frame(P)) /\ Len(g) = m - 1 /\ g # << >>
      /\ \A k \in 1 .. m - 1 : g[k] = fr[k]
  <2>1. g = SubSeq(fr, 1, m - 1) /\ m - 1 \in 1 .. m
    BY <1>2, <1>3 DEF Front
  <2>2. Len(g) = m - 1 /\ \A k \in 1 .. m - 1 : g[k] = fr[k]
    BY <1>1, <1>2, <2>1
  <2>3. g \in Seq(Frame(P))
    BY <1>1, <1>2, <2>1
  <2> QED
    BY <1>2, <2>2, <2>3
<1>5. fr[1].node = Main
  <2>1. fr # << >>
    BY <1>1, <1>2
  <2> QED
    BY <2>1 DEF Path
<1>6. g[1].node = Main
  BY <1>2, <1>4, <1>5
<1> HIDE DEF m
<1>7. ASSUME NEW k \in 1 .. m - 1
      PROVE  /\ g[k].next <= Len(P[g[k].node]) + 1
             /\ g[k].visited = {g[j].node : j \in 1 .. k}
             /\ Followed1(P, L, U, g[k].node, g[k].next - 1)
             /\ k < m - 1 => /\ g[k].next <= Len(P[g[k].node])
                             /\ IsCall(P[g[k].node][g[k].next])
                             /\ P[g[k].node][g[k].next].callee = g[k + 1].node
             /\ \A j \in 1 .. k - 1 : rank[g[k].node] < rank[g[j].node]
  <2>1. k \in 1 .. m /\ g[k] = fr[k] /\ \A j \in 1 .. k : g[j] = fr[j]
    BY <1>2, <1>4
  <2>2. /\ fr[k].next <= Len(P[fr[k].node]) + 1
        /\ fr[k].visited = {fr[j].node : j \in 1 .. k}
        /\ Followed1(P, L, U, fr[k].node, fr[k].next - 1)
        /\ k < m => /\ fr[k].next <= Len(P[fr[k].node])
                    /\ IsCall(P[fr[k].node][fr[k].next])
                    /\ P[fr[k].node][fr[k].next].callee = fr[k + 1].node
        /\ \A j \in 1 .. k - 1 : rank[fr[k].node] < rank[fr[j].node]
    BY <2>1 DEF Path, m
  <2>3. k < m - 1 => k < m /\ g[k + 1] = fr[k + 1]
    BY <1>2, <1>4
  <2>4. g[k].visited = {g[j].node : j \in 1 .. k}
    BY <2>1, <2>2
  <2>5. \A j \in 1 .. k - 1 : rank[g[k].node] < rank[g[j].node]
    BY <2>1, <2>2
  <2> QED
    BY <2>1, <2>2, <2>3, <2>4, <2>5
<1>8. Path(P, rank, L, U, g)
  BY <1>4, <1>6, <1>7 DEF Path
<1>9. g[m - 1] = fr[m - 1]
  BY <1>2, <1>4
<1> QED
  BY <1>3, <1>4, <1>8, <1>9 DEF m

\* What was followed stays so while functions that were not left get more fields.
LEMMA PathStays ==
  ASSUME NEW P, NEW rank, NEW L, NEW U, NEW fr, Ranked(P, rank), Path(P, rank, L, U, fr),
         NEW M, NEW V, L \subseteq M, \A f \in DOMAIN P : U[f] \subseteq V[f],
         \A f \in L : V[f] = U[f]
  PROVE  Path(P, rank, M, V, fr)
<1>1. fr \in Seq(Frame(P)) /\ (fr # << >> => fr[1].node = Main)
  BY DEF Path
<1>2. ASSUME NEW k \in 1 .. Len(fr) PROVE Followed1(P, M, V, fr[k].node, fr[k].next - 1)
  <2>1. Followed1(P, L, U, fr[k].node, fr[k].next - 1)
    BY <1>2 DEF Path
  <2>2. fr[k] \in Frame(P)
    BY <1>1
  <2>3. fr[k].node \in DOMAIN P
    BY <2>2 DEF Frame
  <2> QED
    BY <2>1, <2>3 DEF Followed1
<1> QED
  BY <1>1, <1>2 DEF Path

LEMMA FollowOne ==
  ASSUME NEW P, NEW rank, NEW L, NEW U, NEW fr, Ranked(P, rank), Path(P, rank, L, U, fr), fr # << >>,
         NEW n, NEW x, n = fr[Len(fr)].node, x = fr[Len(fr)].next, x <= Len(P[n]),
         IsCall(P[n][x]) /\ P[n][x].callee \in DOMAIN P \ {n} =>
           P[n][x].callee \in L /\ U[P[n][x].callee] \subseteq U[n]
  PROVE  Path(P, rank, L, U, Next1(fr)) /\ Next1(fr) # << >>
<1>1. Len(fr) \in 1 .. Len(fr) /\ x \in Nat \ {0}
  BY TopOfPath
<1>2. Followed1(P, L, U, n, x - 1)
  BY <1>1 DEF Path
<1>3. \A e \in 1 .. x : e \in 1 .. x - 1 \/ e = x
  BY <1>1
<1>4. Followed1(P, L, U, n, x)
  BY <1>2, <1>3 DEF Followed1
<1> QED
  BY <1>4, PathGoesOn

\* What a step of the traversal finds.
LEMMA InTraversal ==
  ASSUME NEW P, NEW rank, NEW L, Ranked(P, rank), Traversed(P, rank, L), body = P, frames # << >>
  PROVE  /\ Path(P, rank, L, used, frames) /\ Top = frames[Len(frames)]
         /\ Top.node \in DOMAIN P /\ Top.next \in Nat \ {0}
         /\ Len(P[Top.node]) \in Nat /\ DOMAIN P[Top.node] = 1 .. Len(P[Top.node])
         /\ Len(frames) \in Nat \ {0}
         /\ HasEdge <=> Top.next <= Len(P[Top.node])
<1>1. Path(P, rank, L, used, frames)
  BY DEF Traversed
<1>2. Top = frames[Len(frames)] /\ Len(frames) \in Nat \ {0}
  BY <1>1, TopOfPath DEF Top
<1> QED
  BY <1>1, <1>2, TopOfPath DEF HasEdge

\* An edge that is not followed, or leads back to where it comes from.
LEMMA EdgeIsPassed ==
  ASSUME NEW P, NEW rank, NEW L, Ranked(P, rank), Traversed(P, rank, L), body = P, HasEdge,
         frames' = Next1(frames), used' = used, candidates' = candidates,
         IsCall(P[Top.node][Top.next]) => Callee \notin DOMAIN P \/ Callee = Top.node
  PROVE  Traversed(P, rank, L)'
<1>1. /\ Path(P, rank, L, used, frames) /\ Top = frames[Len(frames)]
      /\ Top.next <= Len(P[Top.node]) /\ frames # << >>
  BY InTraversal DEF HasEdge
<1>2. IsCall(P[Top.node][Top.next]) => P[Top.node][Top.next].callee \notin DOMAIN P \ {Top.node}
  BY DEF Callee
<1>3. Path(P, rank, L, used, Next1(frames)) /\ Next1(frames) # << >>
  BY <1>1, <1>2, FollowOne
<1> QED
  BY <1>3 DEF Traversed

LEMMA SkipEdgeStep ==
  ASSUME NEW P, NEW rank, NEW L, Ranked(P, rank), Traversed(P, rank, L), body = P, SkipEdge
  PROVE  Traversed(P, rank, L)'
<1>1. IsCall(P[Top.node][Top.next]) => Callee \notin DOMAIN P
  BY DEF SkipEdge, Ranked, IsModule
<1> QED
  BY <1>1, EdgeIsPassed DEF SkipEdge

LEMMA SeenEdgeStep ==
  ASSUME NEW P, NEW rank, NEW L, Ranked(P, rank), Traversed(P, rank, L), body = P, SeenEdge
  PROVE  Traversed(P, rank, L)'
<1> DEFINE m == Len(frames)
<1>1. /\ Path(P, rank, L, used, frames) /\ Top = frames[m] /\ Top.node \in DOMAIN P
      /\ Top.next \in 1 .. Len(P[Top.node]) /\ DOMAIN P[Top.node] = 1 .. Len(P[Top.node])
      /\ m \in Nat \ {0} /\ frames # << >>
  BY InTraversal DEF SeenEdge, HasEdge
<1>2. IsCall(P[Top.node][Top.next]) /\ Callee = P[Top.node][Top.next].callee /\ Callee \in Top.visited
  BY DEF SeenEdge, Callee
<1>3. PICK j \in 1 .. m : Callee = frames[j].node
  BY <1>1, <1>2 DEF Path
<1>4. Callee = Top.node
  <2>1. SUFFICES ASSUME Callee # Top.node PROVE FALSE
    OBVIOUS
  <2>2. frames[j] \in Frame(P)
    BY <1>1, <1>3, TopOfPath
  <2>3. Callee \in DOMAIN P
    BY <1>3, <2>2 DEF Frame
  <2>4. P[Top.node][Top.next] \in Range(P[Top.node])
    BY <1>1 DEF Range
  <2>5. rank[Callee] < rank[Top.node]
    BY <1>1, <1>2, <2>1, <2>3, <2>4 DEF Ranked, IsRank
  <2>6. rank[Top.node] < rank[Callee]
    <3>1. j # m
      BY <1>1, <1>3, <2>1
    <3>2. j \in 1 .. m - 1 /\ m \in 1 .. m
      <4>1. m \in Nat \ {0}
        BY <1>1
      <4> HIDE DEF m
      <4> QED
        BY <3>1, <4>1
    <3>3. rank[frames[m].node] < rank[frames[j].node]
      BY <1>1, <3>2 DEF Path
    <3> QED
      BY <1>1, <1>3, <3>3
  <2>7. rank[Callee] \in Nat /\ rank[Top.node] \in Nat
    BY <1>1, <2>3 DEF Ranked
  <2> QED
    BY <2>5, <2>6, <2>7
<1>5. used' = used
  <2>1. used = [f \in DOMAIN P |-> used[f]]
    BY DEF Traversed
  <2>2. used' = [used EXCEPT ![Top.node] = @ \cup used[Top.node]]
    BY <1>4 DEF SeenEdge
  <2> QED
    BY <2>1, <2>2
<1> QED
  BY <1>4, <1>5, EdgeIsPassed DEF SeenEdge

LEMMA VisitEdgeStep ==
  ASSUME NEW P, NEW rank, NEW L, Ranked(P, rank), Traversed(P, rank, L), body = P, VisitEdge
  PROVE  Traversed(P, rank, L)'
<1>1. /\ Path(P, rank, L, used, frames) /\ Top = frames[Len(frames)] /\ Top.node \in DOMAIN P
      /\ Top.next \in 1 .. Len(P[Top.node]) /\ DOMAIN P[Top.node] = 1 .. Len(P[Top.node])
      /\ frames # << >>
  BY InTraversal DEF VisitEdge, HasEdge
<1>2. /\ IsCall(P[Top.node][Top.next]) /\ Callee = P[Top.node][Top.next].callee
      /\ Callee \notin Top.visited /\ Callee \notin {None, External}
  BY DEF VisitEdge, Callee
<1>3. Callee \in DOMAIN P
  <2>1. P[Top.node][Top.next] \in Range(P[Top.node])
    BY <1>1 DEF Range
  <2> QED
    BY <1>1, <1>2, <2>1 DEF Ranked, IsModule
<1>4. frames' = Append(frames, [node |-> Callee, next |-> 1, visited |-> Top.visited \cup {Callee}])
  BY DEF VisitEdge
<1>5. Path(P, rank, L, used, frames') /\ frames' # << >>
  <2>1. PICK c : c = Callee
    OBVIOUS
  <2>2. PICK fr : fr = frames
    OBVIOUS
  <2>3. c \in DOMAIN P /\ c \notin fr[Len(fr)].visited /\ Path(P, rank, L, used, fr) /\ fr # << >>
    BY <1>1, <1>2, <1>3, <2>1, <2>2
  <2>4. LET n == fr[Len(fr)].node
            x == fr[Len(fr)].next
        IN  x <= Len(P[n]) /\ IsCall(P[n][x]) /\ P[n][x].callee = c
    <3>1. Top.next <= Len(P[Top.node])
      BY <1>1
    <3> QED
      BY <1>1, <1>2, <2>1, <2>2, <3>1
  <2>5. frames' = Append(fr, [node |-> c, next |-> 1, visited |-> fr[Len(fr)].visited \cup {c}])
    BY <1>1, <1>4, <2>1, <2>2
  <2> QED
    BY <2>3, <2>4, <2>5, PathGrows
<1> QED
  BY <1>5 DEF VisitEdge, Traversed

LEMMA AccessedAre ==
  ASSUME NEW f
  PROVE  /\ \A i \in Range(body[f]) : IsAccess(i) => \A v \in StructsOf(i) :
              TypeOf(v) \in DOMAIN candidates /\ i.field \in Nat => <<TypeOf(v), i.field>> \in Accessed(f)
         /\ \A u \in Accessed(f) : \E i \in Range(body[f]) : IsAccess(i) /\ \E v \in StructsOf(i) :
              TypeOf(v) \in DOMAIN candidates /\ i.field \in Nat /\ u = <<TypeOf(v), i.field>>
<1> DEFINE Of(i) == {<<TypeOf(v), i.field>> : v \in StructsOf(i)}
<1> DEFINE All == UNION {Of(i) : i \in {j \in Range(body[f]) : IsAccess(j)}}
<1>1. Accessed(f) = All \cap ((DOMAIN candidates) \X Nat)
  BY DEF Accessed
<1>2. \A u \in All : \E i \in Range(body[f]) : IsAccess(i) /\ \E v \in StructsOf(i) : u = <<TypeOf(v), i.field>>
  OBVIOUS
<1>3. \A i \in Range(body[f]) : IsAccess(i) => \A v \in StructsOf(i) : <<TypeOf(v), i.field>> \in All
  OBVIOUS
<1> HIDE DEF All
<1>4. ASSUME NEW u \in Accessed(f)
      PROVE  \E i \in Range(body[f]) : IsAccess(i) /\ \E v \in StructsOf(i) :
               TypeOf(v) \in DOMAIN candidates /\ i.field \in Nat /\ u = <<TypeOf(v), i.field>>
  <2>1. u \in All /\ u \in (DOMAIN candidates) \X Nat
    BY <1>1, <1>4
  <2>2. PICK i \in Range(body[f]) : IsAccess(i) /\ \E v \in StructsOf(i) : u = <<TypeOf(v), i.field>>
    BY <1>2, <2>1
  <2>3. PICK v \in StructsOf(i) : u = <<TypeOf(v), i.field>>
    BY <2>2
  <2>4. TypeOf(v) \in DOMAIN candidates /\ i.field \in Nat
    BY <2>1, <2>3
  <2> QED
    BY <2>2, <2>3, <2>4
<1> QED
  BY <1>1, <1>3, <1>4

\* A function is left: it is complete, and its caller takes all of it.
LEMMA LeaveNodeStep ==
  ASSUME NEW P, NEW rank, NEW L, Ranked(P, rank), Traversed(P, rank, L), body = P, LeaveNode
  PROVE  \E M : Traversed(P, rank, M)'
<1> DEFINE m == Len(frames)
<1> DEFINE T == DOMAIN candidates
<1>1. /\ Path(P, rank, L, used, frames) /\ Top = frames[m] /\ m \in Nat \ {0} /\ frames # << >>
      /\ Top.node \in DOMAIN P /\ Top.next \in Nat /\ Len(P[Top.node]) \in Nat
      /\ DOMAIN P[Top.node] = 1 .. Len(P[Top.node])
      /\ Top.next > Len(P[Top.node])
  BY InTraversal DEF LeaveNode
<1>2. PICK node : node = Top.node
  OBVIOUS
<1>3. PICK mine : mine = used[node] \cup Accessed(node)
  OBVIOUS
<1>4. used = [f \in DOMAIN P |-> used[f]] /\ L \subseteq DOMAIN P /\ Complete(P, T, L, used)
  BY DEF Traversed
<1>5. node \in DOMAIN P /\ candidates' = candidates
  BY <1>1, <1>2 DEF LeaveNode
<1>6. Followed1(P, L, used, node, Len(P[node]))
  <2>1. m \in 1 .. m
    BY <1>1
  <2>2. Top.next <= Len(P[Top.node]) + 1 /\ Followed1(P, L, used, Top.node, Top.next - 1)
    BY <1>1, <2>1 DEF Path
  <2>3. Top.next - 1 = Len(P[Top.node])
    BY <1>1, <2>2
  <2> QED
    BY <1>2, <2>2, <2>3
\* What is complete has all that Accessed asks for.
<1>7. ASSUME node \in L PROVE mine = used[node]
  <2>1. Accessed(node) \subseteq used[node]
    BY <1>4, <1>7, AccessedAre DEF Complete
  <2> QED
    BY <1>3, <2>1
<1>8. ASSUME NEW i \in Range(P[node]), IsAccess(i), NEW v \in StructsOf(i), TypeOf(v) \in T, i.field \in Nat
      PROVE  <<TypeOf(v), i.field>> \in mine
  BY <1>3, <1>8, AccessedAre
<1>9. ASSUME NEW i \in Range(P[node]), IsCall(i), i.callee \in DOMAIN P, i.callee # node
      PROVE  i.callee \in L /\ used[i.callee] \subseteq used[node]
  <2>1. PICK e \in 1 .. Len(P[node]) : i = P[node][e]
    BY <1>1, <1>2 DEF Range
  <2> QED
    BY <1>6, <1>9, <2>1 DEF Followed1
<1> HIDE DEF T
\* The fields are those of the node and of who calls it.
<1>10. ASSUME NEW V, V = [f \in DOMAIN P |-> V[f]], V[node] = mine,
              \A f \in L : V[f] = used[f]
       PROVE  Complete(P, T, L \cup {node}, V)
  <2> SUFFICES ASSUME NEW f \in L \cup {node}, NEW i \in Range(P[f])
               PROVE  /\ IsAccess(i) => \A v \in StructsOf(i) :
                           TypeOf(v) \in T /\ i.field \in Nat => <<TypeOf(v), i.field>> \in V[f]
                      /\ IsCall(i) /\ i.callee \in DOMAIN P =>
                           i.callee \in L \cup {node} /\ V[i.callee] \subseteq V[f]
    BY DEF Complete
  <2>1. CASE f \in L
    BY <1>4, <1>10, <2>1 DEF Complete
  <2>2. CASE f = node
    <3>1. IsCall(i) /\ i.callee \in DOMAIN P /\ i.callee # node =>
            i.callee \in L /\ V[i.callee] \subseteq V[f]
      BY <1>3, <1>9, <1>10, <2>2
    <3> QED
      BY <1>8, <1>10, <2>2, <3>1
  <2> QED
    BY <2>1, <2>2
<1>11. CASE m = 1
  <2>1. used' = [used EXCEPT ![node] = mine] /\ frames' = << >>
    BY <1>2, <1>3, <1>11 DEF LeaveNode
  <2>2. used' = [f \in DOMAIN P |-> used'[f]] /\ used'[node] = mine /\ \A f \in L : used'[f] = used[f]
    BY <1>4, <1>5, <1>7, <2>1
  <2>3. Complete(P, T, L \cup {node}, used')
    BY <1>10, <2>2
  <2>4. node = Main
    BY <1>1, <1>2, <1>11 DEF Path
  <2>5. Path(P, rank, L \cup {node}, used', << >>)
    BY DEF Path
  <2> QED
    BY <1>4, <1>5, <2>1, <2>2, <2>3, <2>4, <2>5 DEF Traversed, T
<1>12. CASE m # 1
  <2>1. PICK caller : caller = frames[m - 1].node
    OBVIOUS
  <2>2. PICK x : x = frames[m - 1].next
    OBVIOUS
  <2>3. m - 1 \in 1 .. m /\ m > 1 /\ m \in 1 .. m /\ (m - 1) + 1 = m /\ m - 1 \in 1 .. m - 1
    <3>1. m \in Nat \ {0} /\ m # 1
      BY <1>1, <1>12
    <3> HIDE DEF m
    <3> QED
      BY <3>1
  <2>4. /\ x <= Len(P[caller]) /\ IsCall(P[caller][x]) /\ P[caller][x].callee = node
        /\ rank[node] < rank[caller]
    <3>1. frames[m].node = node
      BY <1>1, <1>2
    <3>2. m - 1 < m
      BY <2>3
    <3> QED
      BY <1>1, <2>1, <2>2, <2>3, <3>1, <3>2 DEF Path
  <2>5. frames[m - 1] \in Frame(P)
    BY <1>1, <2>3, TopOfPath
  <2>6. caller \in DOMAIN P /\ x \in Nat \ {0}
    BY <2>1, <2>2, <2>5 DEF Frame
  <2>7. caller # node
    <3>1. rank[node] \in Nat
      BY <1>5 DEF Ranked
    <3> QED
      BY <2>4, <3>1
  <2>8. P[caller][x] \in Range(P[caller])
    <3>1. P[caller] \in Seq(Range(P[caller]))
      BY <2>6 DEF Ranked, IsModule
    <3>2. x \in DOMAIN P[caller]
      BY <2>4, <2>6, <3>1
    <3> QED
      BY <3>2 DEF Range
  <2>9. used' = [used EXCEPT ![node] = mine, ![caller] = @ \cup mine] /\ frames' = Next1(Front(frames))
    <3>1. frames[Len(frames) - 1].node = caller
      BY <2>1
    <3> QED
      BY <1>2, <1>3, <1>12, <3>1 DEF LeaveNode
  <2>10. /\ used' = [f \in DOMAIN P |-> used'[f]] /\ used'[node] = mine
         /\ used'[caller] = used[caller] \cup mine
         /\ \A f \in DOMAIN P \ {node, caller} : used'[f] = used[f]
    BY <1>4, <1>5, <2>6, <2>7, <2>9
  <2>11. ASSUME caller \in L PROVE node \in L /\ used[node] \subseteq used[caller]
    BY <1>4, <1>5, <2>4, <2>8, <2>11 DEF Complete
  <2>12. \A f \in L : used'[f] = used[f]
    <3>1. node \in L => used'[node] = used[node]
      BY <1>7, <2>10
    <3>2. caller \in L => used'[caller] = used[caller]
      BY <1>7, <2>10, <2>11
    <3> QED
      BY <1>4, <2>10, <3>1, <3>2
  <2>13. \A f \in DOMAIN P : used[f] \subseteq used'[f]
    BY <1>3, <2>10
  <2>14. Complete(P, T, L \cup {node}, used')
    BY <1>10, <2>10, <2>12
  <2>15. PICK fr : fr = Front(frames)
    OBVIOUS
  <2>16. Path(P, rank, L, used, fr) /\ fr # << >> /\ Len(fr) = m - 1 /\ fr[Len(fr)] = frames[m - 1]
    BY <1>1, <2>3, <2>15, PathShrinks
  <2>17. Path(P, rank, L \cup {node}, used', fr)
    <3>1. L \subseteq L \cup {node}
      OBVIOUS
    <3> QED
      BY <2>12, <2>13, <2>16, <3>1, PathStays
  <2>18. used'[node] \subseteq used'[caller]
    BY <2>10
  <2>19. Path(P, rank, L \cup {node}, used', Next1(fr)) /\ Next1(fr) # << >>
    <3>1. PICK V : V = used'
      OBVIOUS
    <3>2. PICK M : M = L \cup {node}
      OBVIOUS
    <3>3. Path(P, rank, M, V, fr) /\ node \in M /\ V[node] \subseteq V[caller]
      BY <2>17, <2>18, <3>1, <3>2
    <3>4. caller = fr[Len(fr)].node /\ x = fr[Len(fr)].next
      BY <2>1, <2>2, <2>16
    <3>5. Path(P, rank, M, V, Next1(fr)) /\ Next1(fr) # << >>
      BY <2>4, <2>16, <3>3, <3>4, FollowOne
    <3> QED
      BY <3>1, <3>2, <3>5
  <2>20. frames' = Next1(fr)
    BY <2>9, <2>15
  <2> QED
    BY <1>4, <1>5, <2>10, <2>14, <2>19, <2>20 DEF Traversed, T
<1> QED
  BY <1>11, <1>12

-----------------------------------------------------------------------------
(* Field elision: versions of the functions *)

AllGroups == UNION {{t} \X DOMAIN candidates[t] : t \in DOMAIN candidates}

\* The functions that have a clone.
Copies == DOMAIN params \ {Main}

Origin(P, h) == IF h \in DOMAIN P THEN h ELSE <<h[2]>>

\* Main was left, and what was left is complete.
Finished(P, L) ==
  L \subseteq DOMAIN P /\ Main \in L /\ DOMAIN used = DOMAIN P
  /\ Complete(P, DOMAIN candidates, L, used)

\* Functions that use fields get an argument for each group, the clones find it by its place.
KnownParams(P) ==
  /\ DOMAIN params \subseteq {f \in DOMAIN P : used[f] # {}}
  /\ \A f \in DOMAIN params : \E n \in Nat : params[f] \in [1 .. n -> Groups(f)]
  /\ \A f \in Copies : \A p \in Groups(f) :
       \E j \in DOMAIN params[f] : params[f][j] = p /\ ValueIn(CloneOf(f), p) = [argument |-> j]

WithClones(P) == DOMAIN P \cup {CloneOf(f) : f \in Copies}

Ordering(P, L) ==
  /\ Finished(P, L) /\ KnownParams(P)
  /\ DOMAIN body = WithClones(P) /\ \A h \in DOMAIN body : body[h] = P[Origin(P, h)]

\* What Rewrite makes of an instruction of h.
NewCall(h, i) ==
  IF i.callee \notin Copies THEN i
  ELSE [i EXCEPT !.callee = CloneOf(i.callee),
                 !.arrays = [k \in DOMAIN params[i.callee] |-> ValueIn(h, params[i.callee][k])]]

NewBody(h, s) ==
  [k \in DOMAIN s |-> IF IsCall(s[k]) THEN NewCall(h, s[k]) ELSE RewriteAccess(h, s[k])]

Allocated(P) ==
  /\ {f \in DOMAIN P : used[f] # {}} \subseteq DOMAIN params
  /\ \A p \in AllGroups : ValueIn(Main, p) = [allocation |-> p]

Rewriting(P, L) ==
  /\ Finished(P, L) /\ KnownParams(P) /\ Allocated(P)
  /\ DOMAIN body = WithClones(P)
  /\ \A h \in DOMAIN body :
       body[h] = IF h \in rewritten THEN NewBody(h, P[Origin(P, h)]) ELSE P[Origin(P, h)]

Elided(P, L) ==
  /\ Finished(P, L) /\ KnownParams(P) /\ Allocated(P)
  /\ DOMAIN body = WithClones(P) \ Copies
  /\ \A h \in DOMAIN body : body[h] = NewBody(h, P[Origin(P, h)])

NoVersions == params = << >> /\ values = << >> /\ rewritten = {}

ElisionInv(P, rank, L) ==
  /\ Ranked(P, rank) /\ IsElidable(P, candidates)
  /\ phase \in {"analyze", "traverse", "order", "rewrite", "elided", "aborted"}
  /\ phase = "analyze" => body = P /\ NoVersions
  /\ phase = "traverse" => body = P /\ NoVersions /\ Traversed(P, rank, L)
  /\ phase = "order" => Ordering(P, L) /\ rewritten = {}
  /\ phase = "rewrite" => Rewriting(P, L)
  /\ phase = "elided" => Elided(P, L)

\* A clone is no function of the module, and is the clone of one.
LEMMA Clones ==
  ASSUME NEW P, IsModule(P), NEW f \in DOMAIN P
  PROVE  /\ CloneOf(f) \notin DOMAIN P /\ Origin(P, CloneOf(f)) = f /\ Origin(P, f) = f
         /\ \A g : CloneOf(g) \notin DOMAIN P
         /\ \A g \in DOMAIN P : CloneOf(g) = CloneOf(f) => g = f
         /\ Main \in DOMAIN P
<1>1. \A h \in DOMAIN P : h = <<h[1]>>
  BY DEF IsModule
<1>2. \A g : CloneOf(g) \notin DOMAIN P
  <2> SUFFICES ASSUME NEW g, CloneOf(g) \in DOMAIN P PROVE FALSE
    OBVIOUS
  <2>1. CloneOf(g) = <<CloneOf(g)[1]>>
    BY <1>1
  <2>2. Len(CloneOf(g)) = 2 /\ Len(<<CloneOf(g)[1]>>) = 1
    BY DEF CloneOf
  <2> QED
    BY <2>1, <2>2
<1>3. CloneOf(f)[2] = f[1] /\ f = <<f[1]>>
  BY <1>1 DEF CloneOf
<1>4. Origin(P, CloneOf(f)) = f
  BY <1>2, <1>3 DEF Origin
<1>5. ASSUME NEW g \in DOMAIN P, CloneOf(g) = CloneOf(f) PROVE g = f
  <2>1. CloneOf(g)[2] = g[1] /\ g = <<g[1]>>
    BY <1>1 DEF CloneOf
  <2> QED
    BY <1>3, <1>5, <2>1
<1> QED
  BY <1>2, <1>4, <1>5 DEF Origin, IsModule

\* Of the functions there are, the clones are told apart.
LEMMA FunctionsAndClones ==
  ASSUME NEW P, IsModule(P), DOMAIN params \subseteq DOMAIN P, DOMAIN body = WithClones(P)
  PROVE  Functions = DOMAIN P /\ Cloned = Copies
<1>1. Copies \subseteq DOMAIN P
  BY DEF Copies
<1>2. Functions = DOMAIN P
  <2>1. ASSUME NEW f \in DOMAIN P PROVE f \in Functions
    BY <2>1, Clones DEF Functions, WithClones
  <2>2. ASSUME NEW f \in Functions, f \notin DOMAIN P PROVE FALSE
    <3>1. f \in DOMAIN body /\ f \notin {CloneOf(g) : g \in DOMAIN body}
      BY <2>2 DEF Functions
    <3>2. PICK g \in Copies : f = CloneOf(g)
      BY <2>2, <3>1 DEF WithClones
    <3>3. g \in DOMAIN body
      BY <1>1 DEF WithClones
    <3> QED
      BY <3>1, <3>2, <3>3
  <2> QED
    BY <2>1, <2>2
<1>3. ASSUME NEW f \in DOMAIN P PROVE CloneOf(f) \in DOMAIN body <=> f \in Copies
  <2>1. CloneOf(f) \notin DOMAIN P /\ \A g \in DOMAIN P : CloneOf(g) = CloneOf(f) => g = f
    BY <1>3, Clones
  <2> QED
    BY <1>1, <2>1 DEF WithClones
<1>4. Cloned = Copies
  BY <1>1, <1>2, <1>3 DEF Cloned
<1> QED
  BY <1>2, <1>4

LEMMA GroupsOfUsed ==
  ASSUME NEW f
  PROVE  /\ Groups(f) \subseteq AllGroups
         /\ \A t, n : <<t, n>> \in used[f] /\ IsElided(t, n) => <<t, Group(t, n)>> \in Groups(f)
         /\ used[f] = {} => Groups(f) = {}
         /\ \A g : used[g] \subseteq used[f] => Groups(g) \subseteq Groups(f)
<1>1. \A t, n : IsElided(t, n) => t \in DOMAIN candidates /\ Group(t, n) \in DOMAIN candidates[t]
  BY DEF IsElided, Group
<1>2. ASSUME NEW t, NEW n, IsElided(t, n) PROVE <<t, Group(t, n)>> \in AllGroups
  BY <1>1, <1>2 DEF AllGroups
<1>3. Groups(f) \subseteq AllGroups
  BY <1>2 DEF Groups
<1>4. ASSUME NEW t, NEW n, <<t, n>> \in used[f], IsElided(t, n) PROVE <<t, Group(t, n)>> \in Groups(f)
  <2>1. PICK u : u = <<t, n>>
    OBVIOUS
  <2>2. u \in used[f] /\ u[1] = t /\ u[2] = n
    BY <1>4, <2>1
  <2> QED
    BY <1>4, <2>2 DEF Groups
<1> QED
  BY <1>3, <1>4 DEF Groups

LEMMA AnalyzeStep ==
  ASSUME NEW P, NEW rank, Ranked(P, rank), IsElidable(P, candidates), body = P, NoVersions, Analyze
  PROVE  \E L : ElisionInv(P, rank, L)'
<1>1. candidates' = [t \in DOMAIN candidates \ Escaped |-> candidates[t]]
  BY DEF Analyze
<1>2. used' = [f \in DOMAIN P |-> {}] /\ body' = P /\ NoVersions' /\ body' = body
  BY DEF Analyze, NoVersions
<1>3. IsElidable(P, candidates')
  <2> DEFINE G(C) == UNION {{t} \X DOMAIN C[t] : t \in DOMAIN C}
  <2>1. G(candidates') \subseteq G(candidates)
    BY <1>1
  <2>2. IsFiniteSet(G(candidates')) 
    <3>1. IsFiniteSet(G(candidates))
      BY DEF IsElidable
    <3> HIDE DEF G
    <3> QED
      BY <2>1, <3>1, FS_Subset
  <2>3. None \notin [argument : Nat] \cup [allocation : G(candidates')]
    <3>1. None \notin [argument : Nat] \cup [allocation : G(candidates)]
      BY DEF IsElidable
    <3> HIDE DEF G
    <3> QED
      BY <2>1, <3>1
  <2>4. \A f \in DOMAIN P : \A i \in Range(P[f]) :
          i.op = "StructGet" /\ TypeOf(i.object) \in DOMAIN candidates' =>
            \A k \in DOMAIN candidates'[TypeOf(i.object)] : i.field \notin candidates'[TypeOf(i.object)][k]
    BY <1>1 DEF IsElidable
  <2> QED
    BY <2>2, <2>3, <2>4 DEF IsElidable
<1>4. CASE candidates' = << >>
  <2>1. phase' = "elided" /\ DOMAIN candidates' = {}
    BY <1>4 DEF Analyze
  <2>2. Finished(P, DOMAIN P)'
    <3>1. Main \in DOMAIN P
      BY DEF Ranked, IsModule
    <3> QED
      BY <1>2, <2>1, <3>1 DEF Finished, Complete
  <2>3. DOMAIN params' = {} /\ Copies' = {}
    BY <1>2 DEF NoVersions, Copies
  <2>4. KnownParams(P)' /\ Allocated(P)'
    BY <1>2, <2>1, <2>3 DEF KnownParams, Allocated, AllGroups
  <2>5. DOMAIN body' = (WithClones(P) \ Copies)'
    BY <1>2, <2>3 DEF WithClones
  <2>6. ASSUME NEW h \in DOMAIN P PROVE body'[h] = NewBody(h, P[Origin(P, h)])'
    <3>1. \A i : NewCall(h, i)' = i /\ RewriteAccess(h, i)' = i
      BY <2>1, <2>3 DEF NewCall, RewriteAccess, IsElided
    <3>2. NewBody(h, P[h])' = [k \in DOMAIN P[h] |-> P[h][k]]
      BY <3>1 DEF NewBody
    <3>3. P[h] = [k \in DOMAIN P[h] |-> P[h][k]]
      BY DEF Ranked, IsModule
    <3> QED
      BY <1>2, <3>2, <3>3 DEF Origin
  <2>7. Elided(P, DOMAIN P)'
    BY <1>2, <2>2, <2>4, <2>5, <2>6 DEF Elided
  <2> QED
    BY <1>2, <1>3, <2>1, <2>7 DEF ElisionInv
<1>5. CASE candidates' # << >>
  <2>1. phase' = "traverse" /\ frames' = <<[node |-> Main, next |-> 1, visited |-> {Main}]>>
    BY <1>5 DEF Analyze
  <2>2. Main \in DOMAIN P /\ Len(P[Main]) \in Nat
    BY DEF Ranked, IsModule
  <2>3. PICK q : q = [node |-> Main, next |-> 1, visited |-> {Main}]
    OBVIOUS
  <2>4. q \in Frame(P) /\ q.node = Main /\ q.next = 1 /\ q.visited = {Main}
    BY <2>2, <2>3 DEF Frame
  <2>5. frames' = <<q>>
    BY <2>1, <2>3
  <2>6. /\ frames' \in Seq(Frame(P)) /\ Len(frames') = 1 /\ frames'[1] = q /\ frames' # << >>
    BY <2>4, <2>5
  <2>7. ASSUME NEW k \in 1 .. 1
        PROVE  /\ frames'[k].next <= Len(P[frames'[k].node]) + 1
               /\ frames'[k].visited = {frames'[j].node : j \in 1 .. k}
               /\ Followed1(P, {}, used', frames'[k].node, frames'[k].next - 1)
               /\ \A j \in 1 .. k - 1 : FALSE
    <3>1. k = 1 /\ 1 .. k = {1} /\ 1 .. k - 1 = {}
      OBVIOUS
    <3>2. frames'[k].next - 1 = 0
      BY <2>4, <2>6, <3>1
    <3>3. Followed1(P, {}, used', frames'[k].node, frames'[k].next - 1)
      BY <3>2 DEF Followed1
    <3> QED
      BY <2>2, <2>4, <2>6, <3>1, <3>3
  <2>8. Path(P, rank, {}, used', frames')
    BY <2>4, <2>6, <2>7 DEF Path
  <2>9. Traversed(P, rank, {})'
    BY <1>2, <2>6, <2>8 DEF Traversed, Complete
  <2> QED
    BY <1>2, <1>3, <2>1, <2>9 DEF ElisionInv
<1> QED
  BY <1>4, <1>5

LEMMA TraverseStep ==
  ASSUME NEW P, NEW rank, NEW L, ElisionInv(P, rank, L), SkipEdge \/ SeenEdge \/ VisitEdge \/ LeaveNode
  PROVE  \E M : ElisionInv(P, rank, M)'
<1>1. phase = "traverse" /\ UNCHANGED <<phase, body, candidates, params, values, rewritten>>
  BY DEF SkipEdge, SeenEdge, VisitEdge, LeaveNode
<1>2. Ranked(P, rank) /\ IsElidable(P, candidates) /\ body = P /\ NoVersions /\ Traversed(P, rank, L)
  BY <1>1 DEF ElisionInv
<1>3. \E M : Traversed(P, rank, M)'
  BY <1>2, SkipEdgeStep, SeenEdgeStep, VisitEdgeStep, LeaveNodeStep
<1>4. body' = P /\ NoVersions' /\ IsElidable(P, candidates') /\ phase' = "traverse"
  BY <1>1, <1>2 DEF NoVersions
<1> QED
  BY <1>2, <1>3, <1>4 DEF ElisionInv

LEMMA EndTraverseStep ==
  ASSUME NEW P, NEW rank, NEW L, ElisionInv(P, rank, L), EndTraverse
  PROVE  ElisionInv(P, rank, L)'
<1>1. /\ phase = "traverse" /\ phase' = "order" /\ frames = << >>
      /\ UNCHANGED <<body, candidates, used, frames, params, values, rewritten>>
  BY DEF EndTraverse
<1>2. Ranked(P, rank) /\ IsElidable(P, candidates) /\ body = P /\ NoVersions /\ Traversed(P, rank, L)
  BY <1>1 DEF ElisionInv
<1>3. DOMAIN params' = {} /\ Copies' = {} /\ rewritten' = {}
  BY <1>1, <1>2 DEF NoVersions, Copies
<1>4. Finished(P, L)'
  <2>1. Main \in L /\ L \subseteq DOMAIN P
    BY <1>1, <1>2 DEF Traversed
  <2>2. DOMAIN used' = DOMAIN P
    BY <1>1, <1>2 DEF Traversed
  <2>3. Complete(P, DOMAIN candidates', L, used')
    BY <1>1, <1>2 DEF Traversed
  <2> QED
    BY <2>1, <2>2, <2>3 DEF Finished
<1>5. KnownParams(P)'
  BY <1>3 DEF KnownParams
<1>6. DOMAIN body' = WithClones(P)' /\ \A h \in DOMAIN body' : body'[h] = P[Origin(P, h)]
  BY <1>1, <1>2, <1>3 DEF WithClones, Origin
<1> QED
  BY <1>1, <1>2, <1>3, <1>4, <1>5, <1>6 DEF ElisionInv, Ordering

\* The place of each group among the arguments.
LEMMA OrdersAre ==
  ASSUME NEW S, IsFiniteSet(S), NEW order \in Orders(S)
  PROVE  /\ \E n \in Nat : order \in [1 .. n -> S]
         /\ Range(order) = S
         /\ \A p \in S : order[CHOOSE i \in DOMAIN order : order[i] = p] = p
                         /\ (CHOOSE i \in DOMAIN order : order[i] = p) \in DOMAIN order
<1>1. Cardinality(S) \in Nat
  BY FS_CardinalityType
<1>2. order \in [1 .. Cardinality(S) -> S] /\ IsInjective(order)
  BY DEF Orders
<1>3. IsFiniteSet(1 .. Cardinality(S)) /\ Cardinality(1 .. Cardinality(S)) = Cardinality(S)
  BY <1>1, FS_Interval
<1>4. order \in Injection(1 .. Cardinality(S), S)
  BY <1>2 DEF IsInjective, Injection
<1>5. order \in Surjection(1 .. Cardinality(S), S)
  BY <1>3, <1>4, FS_Injection
<1>6. \A p \in S : \E i \in DOMAIN order : order[i] = p
  BY <1>2, <1>5 DEF Surjection
<1> QED
  BY <1>1, <1>2, <1>6 DEF Range

LEMMA OrderArgumentsStep ==
  ASSUME NEW P, NEW rank, NEW L, ElisionInv(P, rank, L), OrderArguments
  PROVE  ElisionInv(P, rank, L)'
<1>1. phase = "order" /\ UNCHANGED <<phase, candidates, used, frames, rewritten>>
  BY DEF OrderArguments
<1>2. /\ Ranked(P, rank) /\ IsElidable(P, candidates) /\ rewritten = {}
      /\ Finished(P, L) /\ KnownParams(P)
      /\ DOMAIN body = WithClones(P) /\ \A h \in DOMAIN body : body[h] = P[Origin(P, h)]
  BY <1>1 DEF ElisionInv, Ordering
<1>3. DOMAIN params \subseteq DOMAIN P /\ IsModule(P)
  BY <1>2 DEF KnownParams, Ranked
<1>4. Functions = DOMAIN P
  BY <1>2, <1>3, FunctionsAndClones
<1>5. PICK f \in {g \in DOMAIN P : used[g] # {}} \ DOMAIN params :
        \E order \in Orders(Groups(f)) :
         /\ params' = [g \in DOMAIN params \cup {f} |-> IF g = f THEN order ELSE params[g]]
         /\ IF f = Main THEN UNCHANGED <<body, values>>
            ELSE /\ body' = [g \in DOMAIN body \cup {CloneOf(f)} |->
                               IF g = CloneOf(f) THEN body[f] ELSE body[g]]
                 /\ values' = [g \in DOMAIN values \cup {CloneOf(f)} |->
                                 IF g # CloneOf(f) THEN values[g]
                                 ELSE [p \in Range(order) |->
                                         [argument |-> CHOOSE i \in DOMAIN order : order[i] = p]]]
  BY <1>4 DEF OrderArguments
<1>6. PICK order \in Orders(Groups(f)) :
         /\ params' = [g \in DOMAIN params \cup {f} |-> IF g = f THEN order ELSE params[g]]
         /\ IF f = Main THEN UNCHANGED <<body, values>>
            ELSE /\ body' = [g \in DOMAIN body \cup {CloneOf(f)} |->
                               IF g = CloneOf(f) THEN body[f] ELSE body[g]]
                 /\ values' = [g \in DOMAIN values \cup {CloneOf(f)} |->
                                 IF g # CloneOf(f) THEN values[g]
                                 ELSE [p \in Range(order) |->
                                         [argument |-> CHOOSE i \in DOMAIN order : order[i] = p]]]
  BY <1>5
<1>7. \A g : Groups(g)' = Groups(g)
  BY <1>1 DEF Groups, IsElided, Group
<1>8. /\ \E n \in Nat : order \in [1 .. n -> Groups(f)]
      /\ Range(order) = Groups(f)
      /\ \A p \in Groups(f) : order[CHOOSE i \in DOMAIN order : order[i] = p] = p
                              /\ (CHOOSE i \in DOMAIN order : order[i] = p) \in DOMAIN order
  <2>1. IsFiniteSet(AllGroups) /\ Groups(f) \subseteq AllGroups
    BY <1>2, GroupsOfUsed DEF IsElidable, AllGroups
  <2>2. IsFiniteSet(Groups(f))
    BY <2>1, FS_Subset
  <2> QED
    BY <2>2, OrdersAre
<1>9. /\ DOMAIN params' = DOMAIN params \cup {f} /\ params'[f] = order
      /\ \A g \in DOMAIN params : g # f /\ params'[g] = params[g]
      /\ Copies' = Copies \cup ({f} \ {Main}) /\ Copies \subseteq DOMAIN params
  BY <1>5, <1>6 DEF Copies
\* The clones there were keep what they had.
<1>10. ASSUME NEW g \in DOMAIN params, NEW p PROVE ValueIn(CloneOf(g), p)' = ValueIn(CloneOf(g), p)
  <2>1. CloneOf(g) # CloneOf(f)
    BY <1>3, <1>5, <1>9, <1>10, Clones
  <2> QED
    BY <1>6, <2>1 DEF ValueIn
<1>11. ASSUME f # Main, NEW p \in Groups(f)
       PROVE  \E j \in DOMAIN order : order[j] = p /\ ValueIn(CloneOf(f), p)' = [argument |-> j]
  <2>1. PICK j : j = CHOOSE i \in DOMAIN order : order[i] = p
    OBVIOUS
  <2>2. j \in DOMAIN order /\ order[j] = p
    BY <1>8, <1>11, <2>1
  <2>3. CloneOf(f) \in DOMAIN values' /\ values'[CloneOf(f)] =
          [q \in Groups(f) |-> [argument |-> CHOOSE i \in DOMAIN order : order[i] = q]]
    BY <1>6, <1>8, <1>11
  <2>4. p \in DOMAIN values'[CloneOf(f)] /\ values'[CloneOf(f)][p] = [argument |-> j]
    BY <1>11, <2>1, <2>3
  <2>5. ValueIn(CloneOf(f), p)' = [argument |-> j]
    BY <2>3, <2>4 DEF ValueIn
  <2> QED
    BY <2>2, <2>5
<1>12. KnownParams(P)'
  <2>1. DOMAIN params' \subseteq {g \in DOMAIN P : used'[g] # {}}
    BY <1>1, <1>2, <1>5, <1>9 DEF KnownParams
  <2>2. ASSUME NEW g \in DOMAIN params' PROVE \E n \in Nat : params'[g] \in [1 .. n -> Groups(g)']
    <3>1. CASE g = f
      BY <1>7, <1>8, <1>9, <3>1
    <3>2. CASE g # f
      <4>1. g \in DOMAIN params /\ params'[g] = params[g]
        BY <1>9, <2>2, <3>2
      <4>2. \E n \in Nat : params[g] \in [1 .. n -> Groups(g)]
        BY <1>2, <4>1 DEF KnownParams
      <4> QED
        BY <1>7, <4>1, <4>2
    <3> QED
      BY <3>1, <3>2
  <2>3. ASSUME NEW g \in Copies', NEW p \in Groups(g)'
        PROVE  \E j \in DOMAIN params'[g] : params'[g][j] = p /\ ValueIn(CloneOf(g), p)' = [argument |-> j]
    <3>1. p \in Groups(g)
      BY <1>7, <2>3
    <3>2. CASE g = f
      <4>1. f # Main
        BY <1>9, <2>3, <3>2 DEF Copies
      <4> QED
        BY <1>9, <1>11, <3>1, <3>2, <4>1
    <3>3. CASE g # f
      <4>1. g \in Copies /\ g \in DOMAIN params /\ params'[g] = params[g]
        BY <1>9, <2>3, <3>3
      <4>2. \E j \in DOMAIN params[g] : params[g][j] = p /\ ValueIn(CloneOf(g), p) = [argument |-> j]
        BY <1>2, <3>1, <4>1 DEF KnownParams
      <4> QED
        BY <1>10, <4>1, <4>2
    <3> QED
      BY <3>2, <3>3
  <2> QED
    BY <2>1, <2>2, <2>3 DEF KnownParams
<1>13. Finished(P, L)'
  BY <1>1, <1>2 DEF Finished
<1>14. DOMAIN body' = WithClones(P)' /\ \A h \in DOMAIN body' : body'[h] = P[Origin(P, h)]
  <2>1. CASE f = Main
    <3>1. body' = body /\ Copies' = Copies
      BY <1>6, <1>9, <2>1
    <3> QED
      BY <1>2, <3>1 DEF WithClones
  <2>2. CASE f # Main
    <3>1. Copies' = Copies \cup {f}
      BY <1>9, <2>2
    <3>2. body' = [g \in DOMAIN body \cup {CloneOf(f)} |-> IF g = CloneOf(f) THEN body[f] ELSE body[g]]
      BY <1>6, <2>2
    <3>3. f \in DOMAIN body /\ Origin(P, f) = f /\ Origin(P, CloneOf(f)) = f
      BY <1>2, <1>3, <1>5, Clones DEF WithClones
    <3>4. DOMAIN body' = WithClones(P)'
      <4>1. WithClones(P)' = WithClones(P) \cup {CloneOf(f)}
        BY <3>1 DEF WithClones
      <4> QED
        BY <1>2, <3>2, <4>1
    <3> QED
      BY <1>2, <3>2, <3>3, <3>4
  <2> QED
    BY <2>1, <2>2
<1> QED
  BY <1>1, <1>2, <1>12, <1>13, <1>14 DEF ElisionInv, Ordering

LEMMA AllocateStep ==
  ASSUME NEW P, NEW rank, NEW L, ElisionInv(P, rank, L), Allocate
  PROVE  ElisionInv(P, rank, L)'
<1>1. phase = "order" /\ UNCHANGED <<body, candidates, used, frames, params, rewritten>>
  BY DEF Allocate
<1>2. /\ Ranked(P, rank) /\ IsElidable(P, candidates) /\ rewritten = {}
      /\ Finished(P, L) /\ KnownParams(P)
      /\ DOMAIN body = WithClones(P) /\ \A h \in DOMAIN body : body[h] = P[Origin(P, h)]
  BY <1>1 DEF ElisionInv, Ordering
<1>3. DOMAIN params \subseteq DOMAIN P /\ IsModule(P)
  BY <1>2 DEF KnownParams, Ranked
<1>4. Functions = DOMAIN P
  BY <1>2, <1>3, FunctionsAndClones
<1>5. CASE phase' = "aborted"
  BY <1>1, <1>2, <1>5 DEF ElisionInv
<1>6. CASE phase' # "aborted"
  <2>1. /\ phase' = "rewrite"
        /\ values' = [g \in DOMAIN values \cup {Main} |->
                        IF g # Main THEN values[g] ELSE [p \in AllGroups |-> [allocation |-> p]]]
    BY <1>6 DEF Allocate, AllGroups
  <2>2. \A f : Groups(f)' = Groups(f)
    BY <1>1 DEF Groups, IsElided, Group
  <2>3. ASSUME NEW f \in DOMAIN params, NEW p PROVE ValueIn(CloneOf(f), p)' = ValueIn(CloneOf(f), p)
    <3>1. CloneOf(f) # Main
      BY <1>3, <2>3, Clones
    <3> QED
      BY <2>1, <3>1 DEF ValueIn
  <2>4. Copies' = Copies /\ Copies \subseteq DOMAIN params /\ AllGroups' = AllGroups
    BY <1>1 DEF Copies, AllGroups
  <2>5. KnownParams(P)'
    BY <1>1, <1>2, <2>2, <2>3, <2>4 DEF KnownParams
  <2>6. Allocated(P)'
    <3>1. {f \in DOMAIN P : used'[f] # {}} \subseteq DOMAIN params'
      BY <1>1, <1>4 DEF Allocate
    <3>2. \A p \in AllGroups : ValueIn(Main, p)' = [allocation |-> p]
      BY <2>1 DEF ValueIn
    <3> QED
      BY <2>4, <3>1, <3>2 DEF Allocated
  <2>7. Finished(P, L)'
    BY <1>1, <1>2 DEF Finished
  <2>8. WithClones(P)' = WithClones(P)
    BY <2>4 DEF WithClones
  <2>9. Rewriting(P, L)'
    BY <1>1, <1>2, <2>5, <2>6, <2>7, <2>8 DEF Rewriting
  <2> QED
    BY <1>1, <1>2, <2>1, <2>9 DEF ElisionInv
<1> QED
  BY <1>5, <1>6

\* All that is not about bodies.
LEMMA VersionsStay ==
  ASSUME NEW P, NEW L, UNCHANGED <<candidates, used, params, values>>
  PROVE  /\ Finished(P, L)' = Finished(P, L) /\ KnownParams(P)' = KnownParams(P)
         /\ Allocated(P)' = Allocated(P) /\ WithClones(P)' = WithClones(P) /\ Copies' = Copies
         /\ \A h, s : NewBody(h, s)' = NewBody(h, s)
<1>1. Copies' = Copies /\ WithClones(P)' = WithClones(P)
  BY DEF Copies, WithClones
<1>2. \A f : Groups(f)' = Groups(f)
  BY DEF Groups, IsElided, Group
<1>3. \A f, p : ValueIn(f, p)' = ValueIn(f, p)
  BY DEF ValueIn
<1>4. Finished(P, L)' = Finished(P, L)
  BY DEF Finished
<1>5. KnownParams(P)' = KnownParams(P)
  BY <1>1, <1>2, <1>3 DEF KnownParams
<1>6. Allocated(P)' = Allocated(P)
  BY <1>3 DEF Allocated, AllGroups
<1>7. \A h, s : NewBody(h, s)' = NewBody(h, s)
  <2>1. \A h, i : NewCall(h, i)' = NewCall(h, i)
    BY <1>1, <1>3 DEF NewCall
  <2>2. \A t, n : IsElided(t, n)' = IsElided(t, n) /\ Group(t, n)' = Group(t, n)
    BY DEF IsElided, Group
  <2>3. \A h, i : RewriteAccess(h, i)' = RewriteAccess(h, i)
    BY <1>3, <2>2 DEF RewriteAccess
  <2> QED
    BY <2>1, <2>3 DEF NewBody
<1> QED
  BY <1>1, <1>4, <1>5, <1>6, <1>7

LEMMA RewriteStep ==
  ASSUME NEW P, NEW rank, NEW L, ElisionInv(P, rank, L), Rewrite
  PROVE  ElisionInv(P, rank, L)'
<1>1. phase = "rewrite" /\ UNCHANGED <<phase, candidates, used, frames, params, values>>
  BY DEF Rewrite
<1>2. /\ Ranked(P, rank) /\ IsElidable(P, candidates)
      /\ Finished(P, L) /\ KnownParams(P) /\ Allocated(P) /\ DOMAIN body = WithClones(P)
      /\ \A h \in DOMAIN body :
           body[h] = IF h \in rewritten THEN NewBody(h, P[Origin(P, h)]) ELSE P[Origin(P, h)]
  BY <1>1 DEF ElisionInv, Rewriting
<1>3. Cloned = Copies
  <2>1. DOMAIN params \subseteq DOMAIN P /\ IsModule(P)
    BY <1>2 DEF KnownParams, Ranked
  <2> QED
    BY <1>2, <2>1, FunctionsAndClones
<1>4. PICK f \in DOMAIN body \ (Cloned \cup rewritten) :
        /\ body' = [body EXCEPT ![f] =
                      [k \in DOMAIN body[f] |-> IF IsCall(body[f][k]) THEN RewriteCall(f, body[f][k])
                                                ELSE RewriteAccess(f, body[f][k])]]
        /\ rewritten' = rewritten \cup {f}
  BY DEF Rewrite
<1>5. \A h, s : NewBody(h, s)' = NewBody(h, s)
  BY <1>1, VersionsStay
<1>6. \A i : RewriteCall(f, i) = NewCall(f, i)
  BY <1>3 DEF RewriteCall, NewCall
<1>7. body' = [body EXCEPT ![f] = NewBody(f, body[f])]
  BY <1>4, <1>6 DEF NewBody
<1>8. body[f] = P[Origin(P, f)]
  BY <1>2, <1>4
<1>9. /\ DOMAIN body' = DOMAIN body /\ body'[f] = NewBody(f, P[Origin(P, f)])
      /\ \A h \in DOMAIN body : h # f => body'[h] = body[h]
  <2>1. body = [h \in DOMAIN body |-> body[h]] \/ f \in DOMAIN body
    BY <1>4
  <2> QED
    BY <1>4, <1>7, <1>8
<1>10. ASSUME NEW h \in DOMAIN body
       PROVE  body'[h] = IF h \in rewritten' THEN NewBody(h, P[Origin(P, h)])' ELSE P[Origin(P, h)]
  <2>1. CASE h = f
    BY <1>4, <1>5, <1>9, <2>1
  <2>2. CASE h # f
    <3>1. body'[h] = body[h] /\ (h \in rewritten' <=> h \in rewritten)
      BY <1>4, <1>9, <2>2
    <3> QED
      BY <1>2, <1>5, <3>1
  <2> QED
    BY <2>1, <2>2
<1>11. Finished(P, L)' /\ KnownParams(P)' /\ Allocated(P)' /\ WithClones(P)' = WithClones(P)
  BY <1>1, <1>2, VersionsStay
<1>12. Rewriting(P, L)'
  BY <1>2, <1>9, <1>10, <1>11 DEF Rewriting
<1> QED
  BY <1>1, <1>2, <1>12 DEF ElisionInv

LEMMA CleanupStep ==
  ASSUME NEW P, NEW rank, NEW L, ElisionInv(P, rank, L), Cleanup
  PROVE  ElisionInv(P, rank, L)'
<1>1. /\ phase = "rewrite" /\ phase' = "elided" /\ rewritten = DOMAIN body \ Cloned
      /\ UNCHANGED <<candidates, used, frames, params, values, rewritten>>
      /\ body' = [f \in DOMAIN body \ Cloned |-> body[f]]
  BY DEF Cleanup
<1>2. /\ Ranked(P, rank) /\ IsElidable(P, candidates)
      /\ Finished(P, L) /\ KnownParams(P) /\ Allocated(P) /\ DOMAIN body = WithClones(P)
      /\ \A h \in DOMAIN body :
           body[h] = IF h \in rewritten THEN NewBody(h, P[Origin(P, h)]) ELSE P[Origin(P, h)]
  BY <1>1 DEF ElisionInv, Rewriting
<1>3. Cloned = Copies
  <2>1. DOMAIN params \subseteq DOMAIN P /\ IsModule(P)
    BY <1>2 DEF KnownParams, Ranked
  <2> QED
    BY <1>2, <2>1, FunctionsAndClones
<1>4. \A h, s : NewBody(h, s)' = NewBody(h, s)
  BY <1>1, VersionsStay
<1>5. Finished(P, L)' /\ KnownParams(P)' /\ Allocated(P)' /\ WithClones(P)' = WithClones(P) /\ Copies' = Copies
  BY <1>1, <1>2, VersionsStay
<1>6. DOMAIN body' = WithClones(P) \ Copies /\ \A h \in DOMAIN body' : body'[h] = NewBody(h, P[Origin(P, h)])'
  BY <1>1, <1>2, <1>3, <1>4
<1>7. Elided(P, L)'
  BY <1>5, <1>6 DEF Elided
<1> QED
  BY <1>1, <1>2, <1>7 DEF ElisionInv

\* What main reaches is complete, from when the calls were followed.
ElidingInv ==
  \E P \in Programs : \E rank, L : ElisionInv(P, rank, L)

LEMMA ElisionStarts ==
  ASSUME ProgramsAreElidable
  PROVE  ElisionInit => ElidingInv
<1> SUFFICES ASSUME ElisionInit PROVE ElidingInv
  OBVIOUS
<1>1. body \in Programs /\ candidates \in Elisions /\ phase = "analyze" /\ NoVersions
  BY DEF ElisionInit, NoVersions
<1>2. IsModule(body) /\ IsLayered(body) /\ IsElidable(body, candidates)
  BY <1>1 DEF ProgramsAreElidable
<1>3. PICK rank \in [DOMAIN body -> 0 .. Cardinality(DOMAIN body)] : IsRank(body, rank)
  BY <1>2 DEF IsLayered
<1>4. rank \in [DOMAIN body -> Nat]
  <2>1. Cardinality(DOMAIN body) \in Nat
    BY <1>2, FS_CardinalityType DEF IsModule
  <2>2. 0 .. Cardinality(DOMAIN body) \subseteq Nat
    BY <2>1
  <2> QED
    BY <2>2
<1>5. Ranked(body, rank)
  BY <1>2, <1>3, <1>4 DEF Ranked
<1>6. PICK P : P = body
  OBVIOUS
<1>7. ElisionInv(P, rank, {})
  BY <1>1, <1>2, <1>5, <1>6 DEF ElisionInv
<1>8. P \in Programs
  BY <1>1, <1>6
<1> QED
  BY <1>7, <1>8 DEF ElidingInv

LEMMA ElisionStep == ElidingInv /\ [ElisionNext]_vars => ElidingInv'
<1> SUFFICES ASSUME ElidingInv, [ElisionNext]_vars PROVE ElidingInv'
  OBVIOUS
<1>0. PICK P \in Programs : \E rank, L : ElisionInv(P, rank, L)
  BY DEF ElidingInv
<1>1. PICK rank, L : ElisionInv(P, rank, L)
  BY <1>0
<1>2. CASE Analyze
  <2>1. phase = "analyze"
    BY <1>2 DEF Analyze
  <2>2. Ranked(P, rank) /\ IsElidable(P, candidates) /\ body = P /\ NoVersions
    BY <1>1, <2>1 DEF ElisionInv
  <2> QED
    BY <1>2, <2>2, AnalyzeStep DEF ElidingInv
<1>3. CASE SkipEdge \/ SeenEdge \/ VisitEdge \/ LeaveNode
  BY <1>1, <1>3, TraverseStep DEF ElidingInv
<1>4. CASE EndTraverse
  BY <1>1, <1>4, EndTraverseStep DEF ElidingInv
<1>5. CASE OrderArguments
  BY <1>1, <1>5, OrderArgumentsStep DEF ElidingInv
<1>6. CASE Allocate
  BY <1>1, <1>6, AllocateStep DEF ElidingInv
<1>7. CASE Rewrite
  BY <1>1, <1>7, RewriteStep DEF ElidingInv
<1>8. CASE Cleanup
  BY <1>1, <1>8, CleanupStep DEF ElidingInv
<1>9. CASE UNCHANGED vars
  <2>1. /\ UNCHANGED <<phase, body, candidates, used, frames, params, values, rewritten>>
        /\ NoVersions' = NoVersions /\ Traversed(P, rank, L)' = Traversed(P, rank, L)
    BY <1>9 DEF vars, NoVersions, Traversed
  <2>2. /\ Ordering(P, L)' = Ordering(P, L) /\ Rewriting(P, L)' = Rewriting(P, L)
        /\ Elided(P, L)' = Elided(P, L)
    BY <2>1, VersionsStay DEF Ordering, Rewriting, Elided
  <2>3. ElisionInv(P, rank, L)'
    BY <1>1, <2>1, <2>2 DEF ElisionInv
  <2> QED
    BY <2>3 DEF ElidingInv
<1> QED
  BY <1>2, <1>3, <1>4, <1>5, <1>6, <1>7, <1>8, <1>9 DEF ElisionNext

-----------------------------------------------------------------------------
(* Field elision: activations *)

LEMMA LeastNat ==
  ASSUME NEW T \in SUBSET Nat, T # {}
  PROVE  \E n \in T : \A k \in T : n <= k
<1> DEFINE R == {ss \in Nat \X Nat : ss[1] < ss[2]}
<1>1. IsWellFoundedOn(R, Nat)
  BY NatLessThanWellFounded DEF OpToRel
<1>2. \A y, x \in Nat : y < x => <<y, x>> \in R
  OBVIOUS
<1> HIDE DEF R
<1>3. PICK x \in T : \A y \in T : ~(<<y, x>> \in R)
  BY <1>1, WFMin
<1>4. \A y \in T : x <= y
  <2> TAKE y \in T
  <2>1. x \in Nat /\ y \in Nat
    OBVIOUS
  <2>2. ~(y < x)
    BY <1>2, <1>3, <2>1
  <2> QED
    BY <2>1, <2>2
<1> QED
  BY <1>4

\* Induction up to m: the least number that is not in Q would have none before it.
LEMMA CountUp ==
  ASSUME NEW m \in Nat, NEW Q, 0 \in Q, \A k \in 1 .. m : k - 1 \in Q => k \in Q
  PROVE  \A k \in 0 .. m : k \in Q
<1> DEFINE T == {k \in 0 .. m : k \notin Q}
<1>1. ASSUME T # {} PROVE FALSE
  <2>1. T \in SUBSET Nat
    OBVIOUS
  <2>2. \A k \in T : k \in 0 .. m /\ k \notin Q
    OBVIOUS
  <2>3. \A k \in 0 .. m : k \notin T => k \in Q
    OBVIOUS
  <2> HIDE DEF T
  <2>4. PICK n \in T : \A k \in T : n <= k
    BY <1>1, <2>1, LeastNat
  <2>5. n \in 1 .. m /\ n \notin Q
    BY <2>2
  <2>6. n - 1 \in 0 .. m /\ ~(n <= n - 1)
    BY <2>5
  <2>7. n - 1 \in Q
    BY <2>3, <2>4, <2>6
  <2> QED
    BY <2>5, <2>7
<1> QED
  BY <1>1

\* The first activation, and the activations of the calls of these.
First      == {<<Main, << >>>>}
Further(S) == S \cup UNION {Made(a) : a \in S}

\* h is Deep up to n.
IsDeep(n, h) == DOMAIN h = 0 .. n /\ h[0] = First /\ \A k \in 1 .. n : h[k] = Further(h[k - 1])

LEMMA DeepExists ==
  ASSUME NEW n \in Nat
  PROVE  \E h : IsDeep(n, h)
<1> DEFINE Q == {m \in Nat : \E h : IsDeep(m, h)}
<1>1. 0 \in Q
  <2>1. PICK h : h = [k \in 0 .. 0 |-> First]
    OBVIOUS
  <2>2. IsDeep(0, h)
    BY <2>1 DEF IsDeep
  <2> QED
    BY <2>2
<1>2. ASSUME NEW m \in 1 .. n, m - 1 \in Q PROVE m \in Q
  <2>1. PICK h : IsDeep(m - 1, h)
    BY <1>2
  <2>2. PICK g : g = [k \in 0 .. m |-> IF k = m THEN Further(h[m - 1]) ELSE h[k]]
    OBVIOUS
  <2>3. DOMAIN g = 0 .. m /\ g[0] = First /\ g[m] = Further(g[m - 1])
    BY <2>1, <2>2 DEF IsDeep
  <2>4. ASSUME NEW k \in 1 .. m, k # m PROVE g[k] = Further(g[k - 1])
    <3>1. k \in 1 .. m - 1 /\ k - 1 \in 0 .. m /\ k - 1 # m /\ k \in 0 .. m
      BY <2>4
    <3>2. h[k] = Further(h[k - 1])
      BY <2>1, <3>1 DEF IsDeep
    <3> QED
      BY <2>2, <2>4, <3>1, <3>2
  <2>5. IsDeep(m, g)
    BY <2>3, <2>4 DEF IsDeep
  <2>6. m \in Nat
    OBVIOUS
  <2> QED
    BY <2>5, <2>6
<1> HIDE DEF Q
<1>3. \A k \in 0 .. n : k \in Q
  BY <1>1, <1>2, CountUp
<1>4. n \in Q
  BY <1>3
<1> QED
  BY <1>4 DEF Q

LEMMA DeepIsOne ==
  ASSUME NEW m \in Nat, NEW n \in Nat, m <= n, NEW h, NEW g, IsDeep(m, h), IsDeep(n, g)
  PROVE  h[m] = g[m]
<1> DEFINE Q == {k \in 0 .. m : h[k] = g[k]}
<1>1. 0 \in Q
  BY DEF IsDeep
<1>2. ASSUME NEW k \in 1 .. m, k - 1 \in Q PROVE k \in Q
  <2>1. h[k - 1] = g[k - 1] /\ k \in 0 .. m /\ k \in 1 .. n
    BY <1>2
  <2>2. h[k] = Further(h[k - 1]) /\ g[k] = Further(g[k - 1])
    BY <2>1 DEF IsDeep
  <2> QED
    BY <2>1, <2>2
<1>3. \A k \in Q : h[k] = g[k]
  OBVIOUS
<1> HIDE DEF Q
<1>4. \A k \in 0 .. m : k \in Q
  BY <1>1, <1>2, CountUp
<1> QED
  BY <1>3, <1>4

\* The recursion defines a function.
LEMMA DeepUnfolds ==
  /\ Deep[0] = First
  /\ \A k \in Nat \ {0} : Deep[k] = Further(Deep[k - 1])
<1> DEFINE Is(h) == h = [k \in Nat |-> IF k = 0 THEN First ELSE h[k - 1] \cup UNION {Made(a) : a \in h[k - 1]}]
<1>1. PICK H : H = [n \in Nat |-> CHOOSE h : IsDeep(n, h)]
  OBVIOUS
<1>2. \A n \in Nat : IsDeep(n, H[n])
  BY <1>1, DeepExists
<1>3. PICK D : D = [n \in Nat |-> H[n][n]]
  OBVIOUS
<1>4. D[0] = First
  BY <1>2, <1>3 DEF IsDeep
<1>5. ASSUME NEW k \in Nat \ {0} PROVE D[k] = Further(D[k - 1])
  <2>1. k - 1 \in Nat /\ k - 1 <= k /\ k \in 1 .. k /\ k \in Nat
    OBVIOUS
  <2>2. H[k][k] = Further(H[k][k - 1])
    BY <1>2, <2>1 DEF IsDeep
  <2>3. H[k - 1][k - 1] = H[k][k - 1]
    BY <1>2, <2>1, DeepIsOne
  <2> QED
    BY <1>3, <2>1, <2>2, <2>3
<1>6. Is(D)
  <2>1. ASSUME NEW k \in Nat
        PROVE  D[k] = IF k = 0 THEN First ELSE D[k - 1] \cup UNION {Made(a) : a \in D[k - 1]}
    BY <1>4, <1>5 DEF Further
  <2>2. D = [k \in Nat |-> D[k]]
    BY <1>3
  <2> QED
    BY <2>1, <2>2
<1>7. Deep = CHOOSE h : Is(h)
  BY DEF Deep, First
<1> HIDE DEF Is
<1>8. Is(Deep)
  BY <1>6, <1>7
<1>9. Deep = [k \in Nat |-> IF k = 0 THEN First ELSE Deep[k - 1] \cup UNION {Made(a) : a \in Deep[k - 1]}]
  BY <1>8 DEF Is
<1>10. PICK E : E = Deep
  OBVIOUS
<1>11. E = [k \in Nat |-> IF k = 0 THEN First ELSE Further(E[k - 1])]
  BY <1>9, <1>10 DEF Further
<1>12. E[0] = First /\ \A k \in Nat \ {0} : E[k] = Further(E[k - 1])
  BY <1>11
<1> QED
  BY <1>10, <1>12

\* What is known of an activation: a clone has the arrays of its groups, in their order.
Known(P, L, a) ==
  /\ a[1] \in DOMAIN body /\ Origin(P, a[1]) \in L
  /\ \/ a[1] = Main
     \/ a[1] \in DOMAIN P /\ Groups(a[1]) = {}
     \/ \E g \in Copies : a[1] = CloneOf(g) /\ a[2] = params[g]

\* The parts of Elided.
LEMMA ElidedParts ==
  ASSUME NEW P, NEW rank, NEW L, Ranked(P, rank), Elided(P, L)
  PROVE  /\ IsModule(P) /\ Copies \subseteq DOMAIN P /\ Main \in DOMAIN body /\ Main \in L
         /\ DOMAIN body = (DOMAIN P \ Copies) \cup {CloneOf(g) : g \in Copies}
         /\ \A h \in DOMAIN P \cap DOMAIN body : h = Main \/ Groups(h) = {}
<1>1. IsModule(P) /\ Finished(P, L) /\ KnownParams(P) /\ Allocated(P) /\ DOMAIN body = WithClones(P) \ Copies
  BY DEF Ranked, Elided
<1>2. Copies \subseteq DOMAIN P /\ Copies = DOMAIN params \ {Main}
  BY <1>1 DEF KnownParams, Copies
<1>3. DOMAIN body = (DOMAIN P \ Copies) \cup {CloneOf(g) : g \in Copies}
  <2>1. \A g : CloneOf(g) \notin DOMAIN P
    BY <1>1, Clones DEF IsModule
  <2>2. {CloneOf(g) : g \in Copies} \cap Copies = {}
    BY <1>2, <2>1
  <2> QED
    BY <1>1, <2>2 DEF WithClones
<1>4. Main \in DOMAIN body /\ Main \in L
  <2>1. Main \in DOMAIN P \ Copies /\ Main \in L
    BY <1>1, <1>2 DEF IsModule, Finished
  <2> QED
    BY <1>3, <2>1
<1>5. ASSUME NEW h \in DOMAIN P \cap DOMAIN body, h # Main PROVE Groups(h) = {}
  <2>1. h \notin Copies
    BY <1>1, <1>5
  <2>2. used[h] = {}
    BY <1>1, <1>2, <1>5, <2>1 DEF Allocated
  <2> QED
    BY <2>2, GroupsOfUsed
<1> QED
  BY <1>1, <1>2, <1>3, <1>4, <1>5

\* In an activation the value for a group is the array of that group.
LEMMA ArrayOfGroup ==
  ASSUME NEW P, NEW rank, NEW L, Ranked(P, rank), IsElidable(P, candidates), Elided(P, L),
         NEW a, Known(P, L, a), NEW p \in Groups(Origin(P, a[1]))
  PROVE  Array(ValueIn(a[1], p), a[2]) = p
<1>1. /\ IsModule(P) /\ Copies \subseteq DOMAIN P /\ Main \in DOMAIN P
      /\ KnownParams(P) /\ Allocated(P) /\ p \in AllGroups
  BY ElidedParts, GroupsOfUsed DEF Elided, IsModule
<1>2. None \notin [argument : Nat] /\ None \notin [allocation : AllGroups]
  BY DEF IsElidable, AllGroups
<1>3. CASE a[1] = Main
  <2>1. ValueIn(a[1], p) = [allocation |-> p]
    BY <1>1, <1>3 DEF Allocated
  <2>2. [allocation |-> p] # None
    BY <1>1, <1>2
  <2> QED
    BY <2>1, <2>2 DEF Array
<1>4. CASE a[1] \in DOMAIN P /\ Groups(a[1]) = {}
  BY <1>4 DEF Origin
<1>5. CASE \E g \in Copies : a[1] = CloneOf(g) /\ a[2] = params[g]
  <2>1. PICK g \in Copies : a[1] = CloneOf(g) /\ a[2] = params[g]
    BY <1>5
  <2>2. Origin(P, a[1]) = g
    BY <1>1, <2>1, Clones
  <2>3. PICK j \in DOMAIN params[g] : params[g][j] = p /\ ValueIn(a[1], p) = [argument |-> j]
    BY <1>1, <2>1, <2>2 DEF KnownParams
  <2>4. j \in Nat
    <3>1. g \in DOMAIN params
      BY <2>1 DEF Copies
    <3>2. PICK n \in Nat : params[g] \in [1 .. n -> Groups(g)]
      BY <1>1, <3>1 DEF KnownParams
    <3> QED
      BY <2>3, <3>2
  <2>5. [argument |-> j] # None
    BY <1>2, <2>4
  <2>6. Array([argument |-> j], a[2]) = a[2][j]
    BY <2>5 DEF Array
  <2> QED
    BY <2>1, <2>3, <2>6
<1> QED
  BY <1>3, <1>4, <1>5 DEF Known

\* Where an instruction of the module is from.
LEMMA InstructionsAre ==
  ASSUME NEW P, NEW rank, NEW L, Ranked(P, rank), Elided(P, L),
         NEW h \in DOMAIN body, Origin(P, h) \in DOMAIN P, NEW i \in Range(body[h])
  PROVE  \E j \in Range(P[Origin(P, h)]) :
           IF IsCall(j) THEN IsCall(i) /\ i = NewCall(h, j)
           ELSE ~IsCall(i) /\ i = RewriteAccess(h, j)
<1>1. PICK o : o = Origin(P, h)
  OBVIOUS
<1>2. o \in DOMAIN P /\ body[h] = NewBody(h, P[o]) /\ IsModule(P)
  BY <1>1 DEF Elided, Finished, Ranked
<1>3. PICK k \in DOMAIN P[o] : i = IF IsCall(P[o][k]) THEN NewCall(h, P[o][k]) ELSE RewriteAccess(h, P[o][k])
  BY <1>2 DEF NewBody, Range
<1>4. PICK j : j = P[o][k]
  OBVIOUS
<1>5. j \in Range(P[o])
  BY <1>3, <1>4 DEF Range
<1>6. CASE IsCall(j)
  <2>1. i = NewCall(h, j)
    BY <1>3, <1>4, <1>6
  <2>2. {"op", "callee", "arrays"} \subseteq DOMAIN j
    BY <1>2, <1>5, <1>6 DEF IsModule
  <2>3. i.op = j.op
    BY <2>1, <2>2 DEF NewCall
  <2> QED
    BY <1>1, <1>5, <1>6, <2>1, <2>3 DEF IsCall
<1>7. CASE ~IsCall(j)
  <2>1. i = RewriteAccess(h, j)
    BY <1>3, <1>4, <1>7
  <2>2. {"op", "object", "field", "arrays"} \subseteq DOMAIN j
    BY <1>2, <1>5, <1>7 DEF IsModule
  <2>3. i.op = j.op \/ i.op = "Assoc"
    BY <2>1, <2>2 DEF RewriteAccess
  <2> QED
    BY <1>1, <1>5, <1>7, <2>1, <2>3 DEF IsCall
<1> QED
  BY <1>6, <1>7

\* What a call of the module calls.
LEMMA CalleesAre ==
  ASSUME NEW P, NEW rank, NEW L, Ranked(P, rank), Elided(P, L),
         NEW h \in DOMAIN body, Origin(P, h) \in L, NEW i \in Range(body[h]), IsCall(i)
  PROVE  \/ \E c \in Copies :
              /\ i.callee = CloneOf(c) /\ i.callee \in DOMAIN body /\ c \in L
              /\ Groups(c) \subseteq Groups(Origin(P, h))
              /\ i.arrays = [k \in DOMAIN params[c] |-> ValueIn(h, params[c][k])]
         \/ /\ i.callee \in (DOMAIN body \cap DOMAIN P) \cup {External, None}
            /\ i.callee \in DOMAIN body => i.callee \in DOMAIN P /\ i.callee \in L
<1>1. PICK j \in Range(P[Origin(P, h)]) : IsCall(j) /\ i = NewCall(h, j)
  <2>1. Origin(P, h) \in DOMAIN P
    BY DEF Elided, Finished
  <2> QED
    BY <2>1, InstructionsAre
<1>2. PICK o : o = Origin(P, h)
  OBVIOUS
<1>3. /\ o \in DOMAIN P /\ o \in L /\ IsModule(P) /\ Copies \subseteq DOMAIN P
      /\ DOMAIN body = (DOMAIN P \ Copies) \cup {CloneOf(g) : g \in Copies}
      /\ Complete(P, DOMAIN candidates, L, used)
  BY <1>2, ElidedParts DEF Elided, Finished
<1>4. /\ {"op", "callee", "arrays"} \subseteq DOMAIN j
      /\ j.callee \in DOMAIN P \cup {External, None} /\ {External, None} \cap DOMAIN P = {}
      /\ \A f \in DOMAIN P : CloneOf(f) \notin {External, None}
  BY <1>1, <1>2, <1>3 DEF IsModule
<1>5. j.callee \in DOMAIN P => j.callee \in L /\ used[j.callee] \subseteq used[o]
  BY <1>1, <1>2, <1>3 DEF Complete
<1>6. CASE j.callee \in Copies
  <2>1. i = [j EXCEPT !.callee = CloneOf(j.callee),
                      !.arrays = [k \in DOMAIN params[j.callee] |-> ValueIn(h, params[j.callee][k])]]
    BY <1>1, <1>6 DEF NewCall
  <2>2. i.callee = CloneOf(j.callee) /\ i.arrays = [k \in DOMAIN params[j.callee] |-> ValueIn(h, params[j.callee][k])]
    BY <1>4, <2>1
  <2>3. Groups(j.callee) \subseteq Groups(o) /\ j.callee \in L
    BY <1>3, <1>5, <1>6, GroupsOfUsed
  <2>4. CloneOf(j.callee) \in DOMAIN body
    BY <1>3, <1>6
  <2> QED
    BY <1>2, <1>6, <2>2, <2>3, <2>4
<1>7. CASE j.callee \notin Copies
  <2>1. i = j
    BY <1>1, <1>7 DEF NewCall
  <2>2. i.callee \in {External, None} => i.callee \notin DOMAIN body
    BY <1>3, <1>4
  <2> QED
    BY <1>3, <1>4, <1>5, <1>7, <2>1, <2>2
<1> QED
  BY <1>6, <1>7

\* The calls of an activation hand on the arrays.
LEMMA MadeAreKnown ==
  ASSUME NEW P, NEW rank, NEW L, Ranked(P, rank), IsElidable(P, candidates), Elided(P, L),
         NEW a, Known(P, L, a), NEW b \in Made(a)
  PROVE  Known(P, L, b)
<1>1. PICK i \in {j \in Range(body[a[1]]) : IsCall(j) /\ j.callee \in DOMAIN body} :
        b = <<i.callee, [k \in DOMAIN i.arrays |-> Array(i.arrays[k], a[2])]>>
  BY DEF Made
<1>2. /\ a[1] \in DOMAIN body /\ Origin(P, a[1]) \in L /\ i \in Range(body[a[1]])
      /\ IsCall(i) /\ i.callee \in DOMAIN body
  BY <1>1 DEF Known
<1>3. /\ IsModule(P) /\ Copies \subseteq DOMAIN P
      /\ \A h \in DOMAIN P \cap DOMAIN body : h = Main \/ Groups(h) = {}
  BY ElidedParts
<1>4. PICK args : args = [k \in DOMAIN i.arrays |-> Array(i.arrays[k], a[2])]
  OBVIOUS
<1>5. b[1] = i.callee /\ b[2] = args
  BY <1>1, <1>4
<1>6. ASSUME NEW c \in Copies,
             /\ i.callee = CloneOf(c) /\ c \in L
             /\ Groups(c) \subseteq Groups(Origin(P, a[1]))
             /\ i.arrays = [k \in DOMAIN params[c] |-> ValueIn(a[1], params[c][k])]
      PROVE  Known(P, L, b)
  <2>1. PICK n \in Nat : params[c] \in [1 .. n -> Groups(c)]
    BY <1>6 DEF Elided, KnownParams, Copies
  <2>2. ASSUME NEW k \in DOMAIN params[c] PROVE args[k] = params[c][k]
    <3>1. PICK p : p = params[c][k]
      OBVIOUS
    <3>2. p \in Groups(Origin(P, a[1]))
      BY <1>6, <2>1, <3>1
    <3>3. Array(ValueIn(a[1], p), a[2]) = p
      BY <3>2, ArrayOfGroup
    <3> QED
      BY <1>4, <1>6, <3>1, <3>3
  <2>3. DOMAIN args = DOMAIN params[c]
    BY <1>4, <1>6
  <2>4. args = params[c]
    BY <1>4, <2>1, <2>2, <2>3
  <2>5. Origin(P, i.callee) = c
    BY <1>3, <1>6, Clones
  <2> QED
    BY <1>2, <1>5, <1>6, <2>4, <2>5 DEF Known
<1>7. CASE i.callee \in DOMAIN P /\ i.callee \in L
  <2>1. Origin(P, i.callee) = i.callee
    BY <1>7 DEF Origin
  <2> QED
    BY <1>2, <1>3, <1>5, <1>7, <2>1 DEF Known
<1> QED
  BY <1>2, <1>6, <1>7, CalleesAre

LEMMA BodyIsFinite ==
  ASSUME NEW P, NEW rank, NEW L, Ranked(P, rank), Elided(P, L)
  PROVE  IsFiniteSet(DOMAIN body)
<1>1. /\ IsModule(P) /\ Copies \subseteq DOMAIN P
      /\ DOMAIN body = (DOMAIN P \ Copies) \cup {CloneOf(g) : g \in Copies}
  BY ElidedParts
<1>2. IsFiniteSet(DOMAIN P)
  BY <1>1 DEF IsModule
<1>3. IsFiniteSet(Copies) /\ IsFiniteSet(DOMAIN P \ Copies)
  BY <1>1, <1>2, FS_Subset, FS_Difference
<1>4. PICK f : f = [g \in Copies |-> CloneOf(g)]
  OBVIOUS
<1>5. f \in Surjection(Copies, {CloneOf(g) : g \in Copies})
  BY <1>4 DEF Surjection
<1>6. IsFiniteSet({CloneOf(g) : g \in Copies})
  BY <1>3, <1>5, FS_Surjection
<1> QED
  BY <1>1, <1>3, <1>6, FS_Union

LEMMA ActivationsAreKnown ==
  ASSUME NEW P, NEW rank, NEW L, Ranked(P, rank), IsElidable(P, candidates), Elided(P, L)
  PROVE  \A a \in Activations : Known(P, L, a)
<1> DEFINE Q == {k \in Nat : \A a \in Deep[k] : Known(P, L, a)}
<1> DEFINE m == 2 * Cardinality(DOMAIN body)
<1>1. m \in Nat
  <2>1. Cardinality(DOMAIN body) \in Nat
    BY BodyIsFinite, FS_CardinalityType
  <2> QED
    BY <2>1
<1>2. 0 \in Q
  <2>1. Known(P, L, <<Main, << >>>>)
    <3>1. Main \in DOMAIN body /\ Main \in L /\ Origin(P, Main) = Main
      BY ElidedParts DEF IsModule, Origin
    <3> QED
      BY <3>1 DEF Known
  <2> QED
    BY <2>1, DeepUnfolds DEF First
<1>3. ASSUME NEW k \in 1 .. m, k - 1 \in Q PROVE k \in Q
  <2>1. k \in Nat \ {0}
    BY <1>1, <1>3
  <2>2. \A a \in Deep[k - 1] : Known(P, L, a)
    BY <1>3
  <2>3. \A a \in Further(Deep[k - 1]) : Known(P, L, a)
    BY <2>2, MadeAreKnown DEF Further
  <2> QED
    BY <2>1, <2>3, DeepUnfolds
<1>4. \A k \in Q : \A a \in Deep[k] : Known(P, L, a)
  OBVIOUS
<1> HIDE DEF Q, m
<1>5. \A k \in 0 .. m : k \in Q
  BY <1>1, <1>2, <1>3, CountUp
<1>6. m \in Q
  BY <1>1, <1>5
<1> QED
  BY <1>4, <1>6 DEF Activations, m

LEMMA ElidedReachesArray ==
  ASSUME NEW P, NEW rank, NEW L, Ranked(P, rank), IsElidable(P, candidates), Elided(P, L)
  PROVE  AccessesReachArray
<1>1. SUFFICES ASSUME NEW a \in Activations, NEW i \in Range(body[a[1]])
               PROVE  /\ ~IsCall(i) =>
                           IF IsElided(TypeOf(i.object), i.field)
                           THEN /\ i.op = "Assoc"
                                /\ Array(i.arrays[1], a[2]) = <<TypeOf(i.object), Group(TypeOf(i.object), i.field)>>
                           ELSE i.op \in AccessOps
                      /\ IsCall(i) => i.callee \in DOMAIN body \cup {External, None}
  BY DEF AccessesReachArray
<1>2. PICK h : h = a[1]
  OBVIOUS
<1>3. PICK o : o = Origin(P, h)
  OBVIOUS
<1>4. Known(P, L, a) /\ h \in DOMAIN body /\ o \in L /\ i \in Range(body[h])
  BY <1>1, <1>2, <1>3, ActivationsAreKnown DEF Known
<1>5. IsCall(i) => i.callee \in DOMAIN body \cup {External, None}
  BY <1>3, <1>4, CalleesAre
<1>6. ASSUME ~IsCall(i)
      PROVE  IF IsElided(TypeOf(i.object), i.field)
             THEN /\ i.op = "Assoc"
                  /\ Array(i.arrays[1], a[2]) = <<TypeOf(i.object), Group(TypeOf(i.object), i.field)>>
             ELSE i.op \in AccessOps
  <2>1. PICK j \in Range(P[o]) : ~IsCall(j) /\ i = RewriteAccess(h, j)
    <3>1. o \in DOMAIN P
      BY <1>4 DEF Elided, Finished
    <3> QED
      BY <1>3, <1>4, <1>6, <3>1, InstructionsAre
  <2>2. IsModule(P) /\ o \in DOMAIN P /\ Complete(P, DOMAIN candidates, L, used)
    BY <1>4 DEF Ranked, Elided, Finished
  <2>3. /\ {"op", "object", "field", "arrays"} \subseteq DOMAIN j /\ IsAccess(j)
        /\ j.object # None /\ j.field \in Nat
    BY <2>1, <2>2 DEF IsModule
  <2>4. i.object = j.object /\ i.field = j.field
    BY <2>1, <2>3 DEF RewriteAccess
  <2>5. PICK t, n : t = TypeOf(j.object) /\ n = j.field
    OBVIOUS
  <2>6. CASE IsElided(t, n)
    <3>1. t \in DOMAIN candidates /\ \E k \in DOMAIN candidates[t] : n \in candidates[t][k]
      BY <2>6 DEF IsElided
    <3>2. j.op # "StructGet"
      BY <2>1, <2>2, <2>5, <3>1 DEF IsElidable
    <3>3. j.op \in {"StructRead", "StructWrite"}
      BY <2>3, <3>2 DEF IsAccess, AccessOps
    <3>4. i = [j EXCEPT !.op = "Assoc", !.arrays = <<ValueIn(h, <<t, Group(t, n)>>)>>]
      BY <2>1, <2>5, <2>6, <3>3 DEF RewriteAccess
    <3>5. i.op = "Assoc" /\ i.arrays[1] = ValueIn(h, <<t, Group(t, n)>>)
      BY <2>3, <3>4
    <3>6. <<t, n>> \in used[o]
      <4>1. j.object \in StructsOf(j)
        BY <2>3 DEF StructsOf
      <4> QED
        BY <1>4, <2>1, <2>2, <2>3, <2>5, <3>1, <4>1 DEF Complete
    <3>7. PICK p : p = <<t, Group(t, n)>>
      OBVIOUS
    <3>8. p \in Groups(Origin(P, a[1]))
      BY <1>2, <1>3, <2>6, <3>6, <3>7, GroupsOfUsed
    <3>9. Array(ValueIn(a[1], p), a[2]) = p
      BY <1>4, <3>8, ArrayOfGroup
    <3> QED
      BY <1>2, <2>4, <2>5, <2>6, <3>5, <3>7, <3>9
  <2>7. CASE ~IsElided(t, n)
    <3>1. i = j
      BY <2>1, <2>5, <2>7 DEF RewriteAccess
    <3> QED
      BY <2>3, <2>5, <2>7, <3>1 DEF IsAccess
  <2> QED
    BY <2>6, <2>7
<1> QED
  BY <1>5, <1>6

(***************************************************************************)
(* transform, "there is a route from the entry function to each function   *)
(* where an access resides": an elided field is accessed in its one array, *)
(* in every call of every function, however the arrays are handed down;    *)
(* of modules whose functions may call themselves but not each other, and  *)
(* that take no address of a field that may be elided.                     *)
(***************************************************************************)
THEOREM ArraysAreHandedDown ==
  ASSUME ProgramsAreElidable
  PROVE  ElisionSpec => []AccessesReachArray
<1>1. ElisionInit => ElidingInv
  BY ElisionStarts
<1>2. ElidingInv /\ [ElisionNext]_vars => ElidingInv'
  BY ElisionStep
<1>3. ElidingInv => AccessesReachArray
  <2> SUFFICES ASSUME ElidingInv, phase = "elided" PROVE AccessesReachArray
    BY DEF AccessesReachArray
  <2>1. \E P, rank, L : ElisionInv(P, rank, L)
    BY DEF ElidingInv
  <2>2. PICK P, rank, L : ElisionInv(P, rank, L)
    BY <2>1
  <2>3. Ranked(P, rank) /\ IsElidable(P, candidates) /\ Elided(P, L)
    BY <2>2 DEF ElisionInv
  <2> QED
    BY <2>3, ElidedReachesArray
<1> QED
  BY <1>1, <1>2, <1>3, PTL DEF ElisionSpec

-----------------------------------------------------------------------------
(* Dead fields: numbers *)

LEMMA NumbersAreFinite ==
  ASSUME NEW N \in Nat, NEW A \in SUBSET (1 .. N)
  PROVE  IsFiniteSet(A) /\ Cardinality(A) \in Nat /\ Cardinality(A) <= N
<1>1. IsFiniteSet(1 .. N) /\ Cardinality(1 .. N) = N
  BY FS_Interval
<1>2. IsFiniteSet(A) /\ Cardinality(A) <= Cardinality(1 .. N)
  BY <1>1, FS_Subset
<1> QED
  BY <1>1, <1>2, FS_CardinalityType

From(E, n) == {m \in E : n <= m}

\* What Renumbered counts down, for the numbers of E.
CountsDown(N, x, E, g) ==
  g = [n \in 1 .. N + 1 |-> IF n > N THEN x
                            ELSE g[n + 1] - IF n \in E /\ n <= g[n + 1] THEN 1 ELSE 0]

LEMMA FromStep ==
  ASSUME NEW N \in Nat, NEW E \in SUBSET (1 .. N), NEW x \in Int, \A n \in E : n < x, NEW n \in 1 .. N
  PROVE  /\ Cardinality(From(E, n + 1)) \in Nat
         /\ Cardinality(From(E, n)) = Cardinality(From(E, n + 1)) + IF n \in E THEN 1 ELSE 0
         /\ n \in E => n <= x - Cardinality(From(E, n + 1))
<1> DEFINE A == From(E, n + 1)
<1>0. \A m \in E : m \in 1 .. N /\ m \in Int /\ m < x /\ (n <= m <=> m = n \/ n + 1 <= m)
  <2> TAKE m \in E
  <2>1. m \in 1 .. N
    OBVIOUS
  <2> QED
    BY <2>1
<1>1. A \in SUBSET (1 .. N) /\ n \notin A
  <2>1. ~(n + 1 <= n)
    OBVIOUS
  <2> QED
    BY <1>0, <2>1 DEF From
<1>2. IsFiniteSet(A) /\ Cardinality(A) \in Nat
  BY <1>1, NumbersAreFinite
<1>3. CASE n \in E
  <2>1. From(E, n) = A \cup {n}
    BY <1>0, <1>3 DEF From
  <2>2. Cardinality(A \cup {n}) = Cardinality(A) + 1
    BY <1>1, <1>2, FS_AddElement
  <2>3. n + 1 \in Int /\ x - 1 \in Int /\ n < x
    BY <1>3
  <2>4. A \subseteq (n + 1) .. (x - 1)
    <3>1. \A m \in A : m \in Int /\ n + 1 <= m /\ m < x
      BY <1>0 DEF From
    <3>2. \A m \in Int : n + 1 <= m /\ m < x => m \in (n + 1) .. (x - 1)
      OBVIOUS
    <3> HIDE DEF A
    <3> QED
      BY <3>1, <3>2
  <2>5. /\ IsFiniteSet((n + 1) .. (x - 1))
        /\ Cardinality((n + 1) .. (x - 1)) = IF n + 1 > x - 1 THEN 0 ELSE (x - 1) - (n + 1) + 1
    BY <2>3, FS_Interval
  <2>6. Cardinality(A) <= Cardinality((n + 1) .. (x - 1))
    BY <2>4, <2>5, FS_Subset
  <2> HIDE DEF A
  <2>7. n <= x - Cardinality(A)
    BY <1>2, <2>3, <2>5, <2>6
  <2> QED
    BY <1>2, <1>3, <2>1, <2>2, <2>7 DEF A
<1>4. CASE n \notin E
  <2>1. From(E, n) = A
    BY <1>0, <1>4 DEF From
  <2> QED
    BY <1>2, <1>4, <2>1
<1> QED
  BY <1>3, <1>4

LEMMA CountedDown ==
  ASSUME NEW N \in Nat, NEW E \in SUBSET (1 .. N), NEW x \in Int, \A n \in E : n < x
  PROVE  (CHOOSE g : CountsDown(N, x, E, g))[1] = x - Cardinality(E)
<1>1. PICK c : c = [n \in 1 .. N + 1 |-> x - Cardinality(From(E, n))]
  OBVIOUS
<1>2. From(E, N + 1) = {} /\ From(E, 1) = E
  <2>1. \A m \in E : ~(N + 1 <= m) /\ 1 <= m
    <3> TAKE m \in E
    <3>1. m \in 1 .. N
      OBVIOUS
    <3> QED
      BY <3>1
  <2> QED
    BY <2>1 DEF From
<1>3. Cardinality(From(E, N + 1)) = 0
  BY <1>2, FS_EmptySet
<1>4. N + 1 \in 1 .. N + 1 /\ c[N + 1] = x
  BY <1>1, <1>3
<1>5. ASSUME NEW n \in 1 .. N
      PROVE  /\ c[n] = c[n + 1] - IF n \in E THEN 1 ELSE 0
             /\ n \in E => n <= c[n + 1]
             /\ n \in 1 .. N + 1 /\ n + 1 \in 1 .. N + 1 /\ ~(n > N)
  <2>1. n \in 1 .. N + 1 /\ n + 1 \in 1 .. N + 1 /\ ~(n > N)
    OBVIOUS
  <2>2. c[n] = x - Cardinality(From(E, n)) /\ c[n + 1] = x - Cardinality(From(E, n + 1))
    BY <1>1, <2>1
  <2>3. /\ Cardinality(From(E, n + 1)) \in Nat
        /\ Cardinality(From(E, n)) = Cardinality(From(E, n + 1)) + IF n \in E THEN 1 ELSE 0
        /\ n \in E => n <= x - Cardinality(From(E, n + 1))
    BY FromStep
  <2> QED
    BY <2>1, <2>2, <2>3
<1>6. CountsDown(N, x, E, c)
  <2>1. ASSUME NEW n \in 1 .. N + 1
        PROVE  c[n] = IF n > N THEN x ELSE c[n + 1] - IF n \in E /\ n <= c[n + 1] THEN 1 ELSE 0
    <3>1. CASE n > N
      <4>1. n = N + 1
        BY <3>1
      <4> QED
        BY <1>4, <3>1, <4>1
    <3>2. CASE ~(n > N)
      <4>1. n \in 1 .. N
        BY <3>2
      <4> QED
        BY <1>5, <3>2, <4>1
    <3> QED
      BY <3>1, <3>2
  <2>2. c = [n \in 1 .. N + 1 |-> c[n]]
    BY <1>1
  <2> QED
    BY <2>1, <2>2 DEF CountsDown
<1>7. PICK g : g = CHOOSE h : CountsDown(N, x, E, h)
  OBVIOUS
<1>8. CountsDown(N, x, E, g)
  BY <1>6, <1>7
<1>9. g[N + 1] = x
  BY <1>4, <1>8 DEF CountsDown
<1>10. ASSUME NEW n \in 1 .. N, g[n + 1] = c[n + 1] PROVE g[n] = c[n]
  <2>1. g[n] = g[n + 1] - IF n \in E /\ n <= g[n + 1] THEN 1 ELSE 0
    BY <1>5, <1>8 DEF CountsDown
  <2> QED
    BY <1>5, <1>10, <2>1
<1> DEFINE Q == {k \in 0 .. N : g[N + 1 - k] = c[N + 1 - k]}
<1>11. 0 \in Q
  BY <1>4, <1>9
<1>12. ASSUME NEW k \in 1 .. N, k - 1 \in Q PROVE k \in Q
  <2>1. g[N + 1 - (k - 1)] = c[N + 1 - (k - 1)]
    BY <1>12
  <2>2. PICK n \in 1 .. N : n = N + 1 - k /\ n + 1 = N + 1 - (k - 1) /\ k \in 0 .. N
    OBVIOUS
  <2>3. g[n] = c[n]
    BY <1>10, <2>1, <2>2
  <2> QED
    BY <2>2, <2>3
<1>13. \A k \in Q : g[N + 1 - k] = c[N + 1 - k]
  OBVIOUS
<1> HIDE DEF Q
<1>14. \A k \in 0 .. N : k \in Q
  BY <1>11, <1>12, CountUp
<1>15. g[1] = c[1]
  <2>1. N \in Q /\ N + 1 - N = 1
    BY <1>14
  <2> QED
    BY <1>13, <2>1
<1>16. c[1] = x - Cardinality(E)
  <2>1. 1 \in 1 .. N + 1
    OBVIOUS
  <2> QED
    BY <1>1, <1>2, <2>1
<1> QED
  BY <1>7, <1>15, <1>16

\* What is not dead, in its order.
LEMMA RankIs ==
  ASSUME NEW N \in Nat, NEW D \in SUBSET (1 .. N), NEW x \in (1 .. N) \ D
  PROVE  LET A == (1 .. N) \ D
             k == x - Cardinality({m \in D : m < x})
         IN  /\ k \in 1 .. Cardinality(A)
             /\ (CHOOSE n \in A : Cardinality({m \in A : m < n}) = k - 1) = x
<1> DEFINE A == (1 .. N) \ D
<1> DEFINE Below(n) == {m \in A : m < n}
<1> DEFINE B == {m \in D : m < x}
<1>1. A \in SUBSET (1 .. N) /\ x \in A /\ x \in 1 .. N /\ x \in Int /\ B \in SUBSET (1 .. N)
  <2>1. x \in 1 .. N
    OBVIOUS
  <2>2. x \in Int
    BY <2>1
  <2> QED
    BY <2>1, <2>2
<1>2. \A m \in 1 .. N : m \in Int
  OBVIOUS
<1>3. ASSUME NEW n PROVE Below(n) \in SUBSET A /\ Below(n) \in SUBSET (1 .. N)
  OBVIOUS
<1>4. Below(x) \cup B = 1 .. x - 1 /\ Below(x) \cap B = {}
  <2>1. ASSUME NEW m \in 1 .. x - 1 PROVE m \in 1 .. N /\ m < x
    BY <1>1
  <2>2. ASSUME NEW m \in 1 .. N, m < x PROVE m \in 1 .. x - 1
    <3> HIDE DEF A, B
    <3>1. x \in Int /\ m \in Int /\ 1 <= m /\ m < x
      BY <1>1, <2>2
    <3> QED
      BY <3>1
  <2> QED
    BY <2>1, <2>2
<1>5. ASSUME NEW n \in A, NEW l \in A, n < l
      PROVE  Below(n) \subseteq Below(l) /\ n \in Below(l) /\ n \notin Below(n)
  <2>1. n \in Int /\ l \in Int /\ ~(n < n)
    BY <1>1
  <2>2. \A m \in 1 .. N : m < n => m < l
    BY <1>5, <2>1
  <2> QED
    BY <1>5, <2>1, <2>2
<1>6. Cardinality(1 .. x - 1) = x - 1
  <2>1. 1 \in Int /\ x - 1 \in Int /\ x >= 1
    BY <1>1
  <2> QED
    BY <2>1, FS_Interval
<1> HIDE DEF A, Below, B
<1>7. \A n : IsFiniteSet(Below(n)) /\ Cardinality(Below(n)) \in Nat
  BY <1>3, NumbersAreFinite
<1>8. IsFiniteSet(A) /\ Cardinality(A) \in Nat /\ IsFiniteSet(B) /\ Cardinality(B) \in Nat
  BY <1>1, NumbersAreFinite
<1>9. Cardinality(Below(x)) = (x - 1) - Cardinality(B)
  <2>1. Cardinality(Below(x) \cup B) = Cardinality(Below(x)) + Cardinality(B) - Cardinality(Below(x) \cap B)
    BY <1>7, <1>8, FS_Union
  <2>2. Cardinality({}) = 0
    BY FS_EmptySet
  <2>3. x - 1 = Cardinality(Below(x)) + Cardinality(B) - 0
    BY <1>4, <1>6, <2>1, <2>2
  <2>4. PICK b, d : b = Cardinality(Below(x)) /\ d = Cardinality(B)
    OBVIOUS
  <2>5. b \in Nat /\ d \in Nat /\ x - 1 = b + d - 0
    BY <1>7, <1>8, <2>3, <2>4
  <2>6. b = (x - 1) - d
    BY <1>1, <2>5
  <2> QED
    BY <2>4, <2>6
<1>10. ASSUME NEW n \in A, NEW l \in A, n < l PROVE Cardinality(Below(n)) < Cardinality(Below(l))
  <2>1. Below(n) \in SUBSET Below(l) /\ Below(n) # Below(l)
    BY <1>5, <1>10
  <2>2. Cardinality(Below(n)) <= Cardinality(Below(l)) /\ Cardinality(Below(n)) # Cardinality(Below(l))
    BY <1>7, <2>1, FS_Subset
  <2> QED
    BY <1>7, <2>2
<1>11. Cardinality(Below(x)) < Cardinality(A)
  <2>1. Below(x) \in SUBSET A /\ x \notin Below(x)
    <3>1. ~(x < x)
      BY <1>1
    <3> QED
      BY <1>3, <3>1 DEF Below
  <2>2. Cardinality(Below(x)) <= Cardinality(A) /\ Cardinality(Below(x)) # Cardinality(A)
    BY <1>1, <1>8, <2>1, FS_Subset
  <2> QED
    BY <1>7, <1>8, <2>2
<1>12. PICK k : k = x - Cardinality(B)
  OBVIOUS
<1>13. k - 1 = Cardinality(Below(x)) /\ k \in 1 .. Cardinality(A)
  <2>1. PICK b, d, z : b = Cardinality(Below(x)) /\ d = Cardinality(B) /\ z = Cardinality(A)
    OBVIOUS
  <2>2. b \in Nat /\ d \in Nat /\ z \in Nat /\ b = (x - 1) - d /\ b < z /\ k = x - d
    BY <1>7, <1>8, <1>9, <1>11, <1>12, <2>1
  <2>3. k - 1 = b /\ k \in 1 .. z
    BY <1>1, <2>2
  <2> QED
    BY <2>1, <2>3
<1>14. \A n \in A : Cardinality(Below(n)) = k - 1 => n = x
  <2> SUFFICES ASSUME NEW n \in A, Cardinality(Below(n)) = Cardinality(Below(x)), n # x PROVE FALSE
    BY <1>13
  <2>1. n \in Int /\ x \in Int
    BY <1>1, <1>2
  <2>2. n < x \/ x < n
    BY <2>1
  <2>3. Cardinality(Below(n)) < Cardinality(Below(x)) \/ Cardinality(Below(x)) < Cardinality(Below(n))
    BY <1>1, <1>10, <2>2
  <2> QED
    BY <1>7, <2>3
<1>15. (CHOOSE n \in A : Cardinality(Below(n)) = k - 1) = x
  BY <1>1, <1>13, <1>14
<1> QED
  BY <1>12, <1>13, <1>15 DEF A, B, Below

\* An access of a field of t moves down by the dead fields before it; one that is recorded for no
\* field of t stays.
LEMMA RenumberedIs ==
  ASSUME NEW t, NEW a, NEW x \in Int, At(a).field = x, NEW N \in Nat, N = Len(definition[t]),
         Dead(t) \subseteq 1 .. N
  PROVE  /\ (a \in DOMAIN accesses[t] => accesses[t][a] \notin 1 .. N) => Renumbered(t, a) = x
         /\ a \in DOMAIN accesses[t] /\ accesses[t][a] = x /\ x \in 1 .. N =>
              Renumbered(t, a) = x - Cardinality({m \in Dead(t) : m < x})
<1> DEFINE E == {n \in 1 .. N : n \in Dead(t) /\ a \in DOMAIN accesses[t] /\ accesses[t][a] \in n + 1 .. N}
<1> DEFINE Is(g) == g = [n \in 1 .. N + 1 |->
                           IF n > N THEN x
                           ELSE g[n + 1] -
                                  IF /\ n \in Dead(t) /\ a \in DOMAIN accesses[t]
                                     /\ accesses[t][a] \in n + 1 .. N /\ n <= g[n + 1]
                                  THEN 1 ELSE 0]
<1>1. Renumbered(t, a) = (CHOOSE g : Is(g))[1]
  BY DEF Renumbered
<1>2. ASSUME NEW n \in 1 .. N + 1, ~(n > N)
      PROVE  n \in E <=> n \in Dead(t) /\ a \in DOMAIN accesses[t] /\ accesses[t][a] \in n + 1 .. N
  <2>1. n \in 1 .. N
    BY <1>2
  <2> QED
    BY <2>1
<1>3. E \in SUBSET (1 .. N)
  OBVIOUS
<1>4. ASSUME NEW g PROVE Is(g) <=> CountsDown(N, x, E, g)
  <2> HIDE DEF E
  <2> QED
    BY <1>2 DEF CountsDown
<1>5. (CHOOSE g : Is(g)) = CHOOSE g : CountsDown(N, x, E, g)
  <2> HIDE DEF Is, E
  <2> QED
    BY <1>4
<1>6. ASSUME a \in DOMAIN accesses[t] => accesses[t][a] \notin 1 .. N PROVE Renumbered(t, a) = x
  <2>1. E = {}
    <3>1. \A n \in 1 .. N : n + 1 .. N \subseteq 1 .. N
      OBVIOUS
    <3> QED
      BY <1>6, <3>1
  <2>2. (CHOOSE g : CountsDown(N, x, {}, g))[1] = x - Cardinality({})
    BY CountedDown
  <2>3. Cardinality({}) = 0
    BY FS_EmptySet
  <2> HIDE DEF E, Is
  <2>4. Renumbered(t, a) = x - 0
    BY <1>1, <1>5, <2>1, <2>2, <2>3
  <2> QED
    BY <2>4
<1>7. ASSUME a \in DOMAIN accesses[t], accesses[t][a] = x, x \in 1 .. N
      PROVE  Renumbered(t, a) = x - Cardinality({m \in Dead(t) : m < x})
  <2>1. \A n \in 1 .. N : x \in n + 1 .. N <=> n < x
    BY <1>7
  <2>2. E = {m \in Dead(t) : m < x} /\ \A n \in E : n < x
    BY <1>7, <2>1
  <2> HIDE DEF E, Is
  <2>3. (CHOOSE g : CountsDown(N, x, E, g))[1] = x - Cardinality(E)
    BY <1>3, <2>2, CountedDown
  <2> QED
    BY <1>1, <1>5, <2>2, <2>3
<1> QED
  BY <1>6, <1>7

-----------------------------------------------------------------------------
(* Dead fields: accesses *)

\* What is known of an access when the fields are taken out: the field it was of is recorded, and
\* it is of this one or, when its type is done, of what is meant.
Recorded(f, k) ==
  LET i == body[f][k]
      t == TypeOf(i.object)
      a == <<f, k>>
  IN  IsAccess(i) =>
        /\ {"op", "object", "field", "meant"} \subseteq DOMAIN i /\ i.field \in Nat
        /\ t \in DOMAIN Definitions /\ t \in DOMAIN accesses /\ a \in DOMAIN accesses[t]
        /\ accesses[t][a] \in DOMAIN Definitions[t] /\ i.meant = Definitions[t][accesses[t][a]]
        /\ t \notin checked => i.field = accesses[t][a]
        /\ t \in checked => i.field \in DOMAIN definition[t] /\ definition[t][i.field] = i.meant
        /\ \A u \in DOMAIN accesses \ {t} : a \in DOMAIN accesses[u] => accesses[u][a] \notin DOMAIN Definitions[u]

FieldsInv ==
  /\ DOMAIN definition = DOMAIN Definitions /\ DOMAIN accesses \subseteq DOMAIN Definitions
  /\ checked \subseteq DOMAIN accesses
  /\ \A t \in DOMAIN Definitions \ checked : definition[t] = Definitions[t]
  /\ \A f \in DOMAIN body : \A k \in DOMAIN body[f] : Recorded(f, k)

\* Elision keeps what is known of an access.
LEMMA AccessesAreMeant ==
  ASSUME FieldsAreMeant, NEW P \in Programs, NEW rank, NEW L, Ranked(P, rank), Elided(P, L),
         NEW h \in DOMAIN body, NEW i \in Range(body[h]), IsAccess(i)
  PROVE  LET t == TypeOf(i.object)
         IN  /\ {"op", "object", "field", "meant"} \subseteq DOMAIN i /\ i.field \in Nat
             /\ t \in DOMAIN Definitions /\ i.field \in DOMAIN Definitions[t]
             /\ i.meant = Definitions[t][i.field]
             /\ i.object \in StructsOf(i) \ Escaping(h)
             /\ \A v \in StructsOf(i) : TypeOf(v) \in DOMAIN Definitions \ {t} =>
                  i.field \notin DOMAIN Definitions[TypeOf(v)]
<1>1. PICK o : o = Origin(P, h)
  OBVIOUS
<1>2. /\ IsModule(P) /\ IsMeant(P) /\ Copies \subseteq DOMAIN P
      /\ DOMAIN body = (DOMAIN P \ Copies) \cup {CloneOf(g) : g \in Copies}
  BY ElidedParts DEF FieldsAreMeant
<1>3. o \in DOMAIN P
  <2>1. CASE h \in DOMAIN P
    BY <1>1, <2>1 DEF Origin
  <2>2. CASE h \notin DOMAIN P
    <3>1. PICK g \in Copies : h = CloneOf(g)
      BY <1>2, <2>2
    <3> QED
      BY <1>1, <1>2, <3>1, Clones
  <2> QED
    BY <2>1, <2>2
<1>4. PICK j \in Range(P[o]) : IF IsCall(j) THEN IsCall(i) /\ i = NewCall(h, j)
                               ELSE ~IsCall(i) /\ i = RewriteAccess(h, j)
  BY <1>1, <1>3, InstructionsAre
<1>5. ~IsCall(i) /\ i.op # "Assoc"
  BY DEF IsAccess, IsCall, AccessOps
<1>6. ~IsCall(j) /\ i = RewriteAccess(h, j)
  BY <1>4, <1>5
<1>7. {"op", "object", "field", "arrays"} \subseteq DOMAIN j /\ j.object # None /\ j.field \in Nat
  BY <1>2, <1>3, <1>6 DEF IsModule
<1>8. i = j
  BY <1>5, <1>6, <1>7 DEF RewriteAccess
<1>9. j \in {c \in Range(P[o]) : ~IsCall(c)}
  BY <1>6
<1>10. LET t == TypeOf(i.object)
       IN  /\ {"stored", "meant"} \subseteq DOMAIN i
           /\ t \in DOMAIN Definitions /\ i.field \in DOMAIN Definitions[t]
           /\ i.meant = Definitions[t][i.field]
           /\ \A c \in Range(P[o]) : IsCall(c) /\ c.callee \in {External, None} => i.object \notin c.passed
           /\ \A v \in StructsOf(i) : TypeOf(v) \in DOMAIN Definitions \ {t} =>
                i.field \notin DOMAIN Definitions[TypeOf(v)]
  BY <1>2, <1>3, <1>8, <1>9 DEF IsMeant
<1>11. i.object \notin Escaping(h)
  <2> SUFFICES ASSUME i.object \in Escaping(h) PROVE FALSE
    OBVIOUS
  <2>1. PICK c \in Range(body[h]) : IsCall(c) /\ c.callee \in {External, None} /\ i.object \in c.passed
    BY DEF Escaping
  <2>2. PICK d \in Range(P[o]) : IF IsCall(d) THEN IsCall(c) /\ c = NewCall(h, d)
                                 ELSE ~IsCall(c) /\ c = RewriteAccess(h, d)
    BY <1>1, <1>3, InstructionsAre
  <2>3. IsCall(d) /\ c = NewCall(h, d)
    BY <2>1, <2>2
  <2>4. {"op", "callee", "arrays"} \subseteq DOMAIN d /\ \A f \in DOMAIN P : CloneOf(f) \notin {External, None}
    BY <1>2, <1>3, <2>3 DEF IsModule
  <2>5. d.callee \notin Copies
    <3> SUFFICES ASSUME d.callee \in Copies PROVE FALSE
      OBVIOUS
    <3>1. c.callee = CloneOf(d.callee)
      BY <2>3, <2>4 DEF NewCall
    <3> QED
      BY <1>2, <2>1, <2>4, <3>1
  <2>6. c = d
    BY <2>3, <2>5 DEF NewCall
  <2> QED
    BY <1>10, <2>1, <2>6
<1>12. i.object \in StructsOf(i)
  BY <1>7, <1>8 DEF StructsOf
<1> QED
  BY <1>7, <1>8, <1>10, <1>11, <1>12

LEMMA AnalyzeFieldsStep ==
  ASSUME FieldsAreMeant, NEW P \in Programs, NEW rank, NEW L, Ranked(P, rank), Elided(P, L),
         definition = Definitions, checked = {}, AnalyzeFields
  PROVE  FieldsInv'
<1>1. UNCHANGED <<body, definition, checked>>
  BY DEF AnalyzeFields
<1>2. PICK garbage \in [{a \in Users : ~IsAccess(At(a))} -> 1 .. MaxFields + 1] :
        accesses' = [t \in {u \in DOMAIN definition : UsersOf(u) # {}} |->
                       [a \in UsersOf(t) |-> IF IsAccess(At(a)) THEN At(a).field ELSE garbage[a]]]
  BY DEF AnalyzeFields
<1>3. /\ DOMAIN accesses' = {u \in DOMAIN Definitions : UsersOf(u) # {}}
      /\ \A t \in DOMAIN accesses' : DOMAIN accesses'[t] = UsersOf(t)
      /\ \A t \in DOMAIN accesses' : \A a \in UsersOf(t) : IsAccess(At(a)) => accesses'[t][a] = At(a).field
  BY <1>2
<1>4. ASSUME NEW f \in DOMAIN body, NEW k \in DOMAIN body[f], IsAccess(body[f][k]) PROVE Recorded(f, k)'
  <2>1. PICK i, a : i = body[f][k] /\ a = <<f, k>>
    OBVIOUS
  <2>2. PICK t : t = TypeOf(i.object)
    OBVIOUS
  <2>3. i \in Range(body[f]) /\ IsAccess(i)
    BY <1>4, <2>1 DEF Range
  <2>4. /\ {"op", "object", "field", "meant"} \subseteq DOMAIN i /\ i.field \in Nat
        /\ t \in DOMAIN Definitions /\ i.field \in DOMAIN Definitions[t]
        /\ i.meant = Definitions[t][i.field]
        /\ i.object \in StructsOf(i) \ Escaping(f)
        /\ \A v \in StructsOf(i) : TypeOf(v) \in DOMAIN Definitions \ {t} =>
             i.field \notin DOMAIN Definitions[TypeOf(v)]
    BY <2>2, <2>3, AccessesAreMeant
  <2>5. At(a) = i /\ a[1] = f
    BY <2>1 DEF At
  <2>6. a \in UsersOf(t)
    <3>1. a \in UNION {{g} \X DOMAIN body[g] : g \in DOMAIN body}
      BY <1>4, <2>1
    <3>2. At(a).op \in AccessOps \cup {"Assoc"}
      BY <2>3, <2>5 DEF IsAccess
    <3> QED
      BY <2>2, <2>4, <2>5, <3>1, <3>2 DEF UsersOf
  <2>7. t \in DOMAIN accesses' /\ a \in DOMAIN accesses'[t] /\ accesses'[t][a] = i.field
    BY <1>3, <2>3, <2>4, <2>5, <2>6
  <2>8. ASSUME NEW u \in DOMAIN accesses' \ {t}, a \in DOMAIN accesses'[u]
        PROVE  accesses'[u][a] \notin DOMAIN Definitions[u]
    <3>1. a \in UsersOf(u) /\ accesses'[u][a] = i.field /\ u \in DOMAIN Definitions
      BY <1>3, <2>3, <2>5, <2>8
    <3>2. PICK v \in StructsOf(i) : TypeOf(v) = u
      BY <2>5, <3>1 DEF UsersOf
    <3> QED
      BY <2>4, <2>8, <3>1, <3>2
  <2> QED
    BY <1>1, <2>1, <2>2, <2>4, <2>7, <2>8 DEF Recorded
<1>5. \A f \in DOMAIN body' : \A k \in DOMAIN body'[f] : Recorded(f, k)'
  <2>1. \A f \in DOMAIN body : \A k \in DOMAIN body[f] : ~IsAccess(body[f][k]) => Recorded(f, k)'
    BY <1>1 DEF Recorded
  <2> QED
    BY <1>1, <1>4, <2>1
<1> QED
  BY <1>1, <1>3, <1>5 DEF FieldsInv

LEMMA RemoveFieldsStep ==
  ASSUME FieldsAreMeant, FieldsInv, RemoveFields
  PROVE  phase' = "aborted" \/ (phase' = "fields" /\ FieldsInv')
<1>1. PICK t \in DOMAIN accesses \ checked :
        IF Unexpected(t) THEN phase' = "aborted" /\ UNCHANGED <<body, definition, checked>>
        ELSE /\ definition' = [definition EXCEPT ![t] =
                                 [k \in 1 .. Cardinality(Fields(t) \ Dead(t)) |->
                                    @[CHOOSE n \in Fields(t) \ Dead(t) :
                                        Cardinality({m \in Fields(t) \ Dead(t) : m < n}) = k - 1]]]
             /\ body' = [f \in DOMAIN body |-> [k \in DOMAIN body[f] |->
                           IF IsAccess(body[f][k])
                           THEN [body[f][k] EXCEPT !.field = Renumbered(t, <<f, k>>)]
                           ELSE body[f][k]]]
             /\ checked' = checked \cup {t}
             /\ UNCHANGED phase
  BY DEF RemoveFields
<1>2. CASE Unexpected(t)
  BY <1>1, <1>2
<1>3. CASE ~Unexpected(t)
  <2>1. /\ definition' = [definition EXCEPT ![t] =
                            [k \in 1 .. Cardinality(Fields(t) \ Dead(t)) |->
                               definition[t][CHOOSE n \in Fields(t) \ Dead(t) :
                                   Cardinality({m \in Fields(t) \ Dead(t) : m < n}) = k - 1]]]
        /\ body' = [f \in DOMAIN body |-> [k \in DOMAIN body[f] |->
                      IF IsAccess(body[f][k])
                      THEN [body[f][k] EXCEPT !.field = Renumbered(t, <<f, k>>)]
                      ELSE body[f][k]]]
        /\ checked' = checked \cup {t} /\ phase' = "fields" /\ accesses' = accesses
    BY <1>1, <1>3 DEF RemoveFields
  <2>2. /\ t \in DOMAIN Definitions /\ t \in DOMAIN definition /\ definition[t] = Definitions[t]
        /\ DOMAIN definition = DOMAIN Definitions
    BY <1>1 DEF FieldsInv
  <2>3. PICK N : N = Len(definition[t])
    OBVIOUS
  <2>4. N \in Nat /\ Fields(t) = 1 .. N
    <3>1. definition[t] \in Seq(Range(Definitions[t]))
      BY <2>2 DEF FieldsAreMeant
    <3> QED
      BY <2>3, <3>1 DEF Fields
  <2>5. PICK D : D = Dead(t)
    OBVIOUS
  <2>6. D \in SUBSET (1 .. N) /\ \A a \in DOMAIN accesses[t] : accesses[t][a] \notin D
    BY <2>4, <2>5 DEF Dead, Range
  <2>7. /\ DOMAIN definition' = DOMAIN Definitions
        /\ \A u \in DOMAIN Definitions \ {t} : definition'[u] = definition[u]
        /\ definition'[t] =
             [k \in 1 .. Cardinality((1 .. N) \ D) |->
                definition[t][CHOOSE n \in (1 .. N) \ D : Cardinality({m \in (1 .. N) \ D : m < n}) = k - 1]]
    BY <2>1, <2>2, <2>4, <2>5
  <2>8. /\ DOMAIN body' = DOMAIN body
        /\ \A f \in DOMAIN body : DOMAIN body'[f] = DOMAIN body[f]
        /\ \A f \in DOMAIN body : \A k \in DOMAIN body[f] :
             body'[f][k] = IF IsAccess(body[f][k])
                           THEN [body[f][k] EXCEPT !.field = Renumbered(t, <<f, k>>)] ELSE body[f][k]
    BY <2>1
  <2>9. ASSUME NEW f \in DOMAIN body, NEW k \in DOMAIN body[f] PROVE Recorded(f, k)'
    <3>1. CASE ~IsAccess(body[f][k])
      <4>1. body'[f][k] = body[f][k]
        BY <2>8, <3>1
      <4> QED
        BY <3>1, <4>1 DEF Recorded
    <3>2. CASE IsAccess(body[f][k])
      <4>1. PICK i, a : i = body[f][k] /\ a = <<f, k>>
        OBVIOUS
      <4>2. PICK u : u = TypeOf(i.object)
        OBVIOUS
      <4>3. PICK z : z = Renumbered(t, a)
        OBVIOUS
      <4>4. PICK j : j = [i EXCEPT !.field = z]
        OBVIOUS
      <4>5. /\ {"op", "object", "field", "meant"} \subseteq DOMAIN i /\ i.field \in Nat
            /\ u \in DOMAIN Definitions /\ u \in DOMAIN accesses /\ a \in DOMAIN accesses[u]
            /\ accesses[u][a] \in DOMAIN Definitions[u] /\ i.meant = Definitions[u][accesses[u][a]]
            /\ u \notin checked => i.field = accesses[u][a]
            /\ u \in checked => i.field \in DOMAIN definition[u] /\ definition[u][i.field] = i.meant
            /\ \A w \in DOMAIN accesses \ {u} : a \in DOMAIN accesses[w] => accesses[w][a] \notin DOMAIN Definitions[w]
        <5>1. Recorded(f, k)
          BY DEF FieldsInv
        <5> QED
          BY <3>2, <4>1, <4>2, <5>1 DEF Recorded
      <4>6. body'[f][k] = j
        BY <2>8, <3>2, <4>1, <4>3, <4>4
      <4>7. /\ DOMAIN j = DOMAIN i /\ j.op = i.op /\ j.object = i.object /\ j.meant = i.meant /\ j.field = z
        BY <4>4, <4>5
      <4>8. At(a).field = i.field /\ i.field \in Int
        BY <4>1, <4>5 DEF At
      <4>9. CASE u = t
        <5>1. PICK x : x = i.field
          OBVIOUS
        <5>2. x \in Int /\ x \in (1 .. N) \ D /\ accesses[t][a] = x /\ a \in DOMAIN accesses[t]
          <6>1. accesses[t][a] = x /\ x \in DOMAIN Definitions[t]
            BY <1>1, <4>5, <4>9, <5>1
          <6>2. x \in 1 .. N
            BY <2>2, <2>4, <6>1 DEF Fields
          <6> QED
            BY <2>6, <4>5, <4>8, <4>9, <5>1, <6>1, <6>2
        <5>3. z = x - Cardinality({m \in D : m < x})
          <6>1. Dead(t) \subseteq 1 .. N
            BY <2>5, <2>6
          <6> QED
            BY <2>3, <2>4, <2>5, <4>3, <4>8, <5>1, <5>2, <6>1, RenumberedIs
        <5>4. z \in 1 .. Cardinality((1 .. N) \ D)
              /\ (CHOOSE n \in (1 .. N) \ D : Cardinality({m \in (1 .. N) \ D : m < n}) = z - 1) = x
          BY <2>4, <2>6, <5>2, <5>3, RankIs
        <5>5. z \in DOMAIN definition'[t] /\ definition'[t][z] = definition[t][x] /\ z \in Nat
          <6>1. PICK A : A = (1 .. N) \ D
            OBVIOUS
          <6>2. z \in 1 .. Cardinality(A) /\ Cardinality(A) \in Nat
            BY <2>4, <5>4, <6>1, NumbersAreFinite
          <6>3. definition'[t] = [n \in 1 .. Cardinality(A) |->
                                   definition[t][CHOOSE l \in A : Cardinality({m \in A : m < l}) = n - 1]]
            BY <2>7, <6>1
          <6>4. definition'[t][z] = definition[t][CHOOSE l \in A : Cardinality({m \in A : m < l}) = z - 1]
            BY <6>2, <6>3
          <6>5. (CHOOSE l \in A : Cardinality({m \in A : m < l}) = z - 1) = x
            BY <5>4, <6>1
          <6>6. DOMAIN definition'[t] = 1 .. Cardinality(A)
            BY <6>3
          <6>7. z \in Nat
            BY <6>2
          <6>8. z \in DOMAIN definition'[t]
            BY <6>2, <6>6
          <6>9. definition'[t][z] = definition[t][x]
            BY <6>4, <6>5
          <6> QED
            BY <6>7, <6>8, <6>9
        <5>6. definition'[t][z] = i.meant
          BY <2>2, <4>5, <4>9, <5>2, <5>5
        <5>7. t \in checked'
          BY <2>1
        <5> QED
          BY <2>1, <4>1, <4>2, <4>5, <4>6, <4>7, <4>9, <5>5, <5>6, <5>7 DEF Recorded
      <4>10. CASE u # t
        <5>1. a \in DOMAIN accesses[t] => accesses[t][a] \notin 1 .. N
          BY <1>1, <2>2, <2>4, <4>5, <4>10 DEF Fields
        <5>2. z = i.field
          <6>1. Dead(t) \subseteq 1 .. N
            BY <2>5, <2>6
          <6> QED
            BY <2>3, <2>4, <4>3, <4>8, <5>1, <6>1, RenumberedIs
        <5>3. definition'[u] = definition[u] /\ (u \in checked' <=> u \in checked)
          BY <2>1, <2>7, <4>5, <4>10
        <5> QED
          BY <2>1, <4>1, <4>2, <4>5, <4>6, <4>7, <5>2, <5>3 DEF Recorded
      <4> QED
        BY <4>9, <4>10
    <3> QED
      BY <3>1, <3>2
  <2>10. DOMAIN accesses' \subseteq DOMAIN Definitions /\ checked' \subseteq DOMAIN accesses'
    BY <1>1, <2>1 DEF FieldsInv
  <2>11. \A u \in DOMAIN Definitions \ checked' : definition'[u] = Definitions[u]
    BY <2>1, <2>7 DEF FieldsInv
  <2> QED
    BY <2>1, <2>7, <2>8, <2>9, <2>10, <2>11 DEF FieldsInv
<1> QED
  BY <1>2, <1>3

KeepInv ==
  /\ phase \in {"analyze", "traverse", "order", "rewrite", "elided"} =>
       ElidingInv /\ definition = Definitions /\ checked = {}
  /\ phase = "fields" => FieldsInv
  /\ AccessesKeepField

LEMMA KeepStep ==
  ASSUME FieldsAreMeant
  PROVE  KeepInv /\ [FieldsNext]_<<vars, fieldVars>> => KeepInv'
<1> SUFFICES ASSUME KeepInv, [FieldsNext]_<<vars, fieldVars>> PROVE KeepInv'
  OBVIOUS
<1>1. CASE ElisionNext /\ UNCHANGED fieldVars
  <2>1. phase \in {"analyze", "traverse", "order", "rewrite", "elided"}
    BY <1>1 DEF ElisionNext, Analyze, SkipEdge, SeenEdge, VisitEdge, LeaveNode, EndTraverse,
       OrderArguments, Allocate, Rewrite, Cleanup
  <2>2. ElidingInv /\ definition' = Definitions /\ checked' = {}
    BY <1>1, <2>1 DEF KeepInv, fieldVars
  <2>3. ElidingInv'
    BY <1>1, <2>2, ElisionStep
  <2>4. phase' \in {"analyze", "traverse", "order", "rewrite", "elided", "aborted"}
    <3>1. \E P, rank, L : ElisionInv(P, rank, L)'
      BY <2>3 DEF ElidingInv
    <3> QED
      BY <3>1 DEF ElisionInv
  <2> QED
    BY <2>2, <2>3, <2>4 DEF KeepInv, AccessesKeepField
<1>2. CASE AnalyzeFields
  <2>1. phase = "elided" /\ phase' = "fields"
    BY <1>2 DEF AnalyzeFields
  <2>2. ElidingInv /\ definition = Definitions /\ checked = {}
    BY <2>1 DEF KeepInv
  <2>3. PICK P \in Programs : \E rank, L : ElisionInv(P, rank, L)
    BY <2>2 DEF ElidingInv
  <2>4. PICK rank, L : ElisionInv(P, rank, L)
    BY <2>3
  <2>5. Ranked(P, rank) /\ Elided(P, L)
    BY <2>1, <2>4 DEF ElisionInv
  <2>6. FieldsInv'
    BY <1>2, <2>2, <2>5, AnalyzeFieldsStep
  <2> QED
    BY <2>1, <2>6 DEF KeepInv, AccessesKeepField
<1>3. CASE RemoveFields
  <2>1. phase = "fields" /\ FieldsInv
    BY <1>3 DEF KeepInv, RemoveFields
  <2>2. phase' = "aborted" \/ (phase' = "fields" /\ FieldsInv')
    BY <1>3, <2>1, RemoveFieldsStep
  <2> QED
    BY <2>2 DEF KeepInv, AccessesKeepField
<1>4. CASE EndFields
  <2>1. /\ phase = "fields" /\ phase' = "done" /\ checked = DOMAIN accesses /\ FieldsInv
        /\ body' = body /\ definition' = definition
    BY <1>4 DEF KeepInv, EndFields, fieldVars
  <2>2. ASSUME NEW f \in DOMAIN body, NEW i \in Range(body[f]), IsAccess(i)
        PROVE  i.field \in DOMAIN definition[TypeOf(i.object)] /\ definition[TypeOf(i.object)][i.field] = i.meant
    <3>1. PICK k \in DOMAIN body[f] : i = body[f][k]
      BY <2>2 DEF Range
    <3>2. Recorded(f, k)
      BY <2>1 DEF FieldsInv
    <3> QED
      BY <2>1, <2>2, <3>1, <3>2 DEF Recorded
  <2>3. AccessesKeepField'
    BY <2>1, <2>2 DEF AccessesKeepField
  <2> QED
    BY <2>1, <2>3 DEF KeepInv
<1>5. CASE UNCHANGED <<vars, fieldVars>>
  <2>1. /\ UNCHANGED vars /\ UNCHANGED <<phase, body, definition, accesses, checked>>
    BY <1>5 DEF vars, fieldVars
  <2>2. ElidingInv => ElidingInv'
    BY <2>1, ElisionStep
  <2>3. FieldsInv => FieldsInv'
    BY <2>1 DEF FieldsInv, Recorded
  <2>4. AccessesKeepField'
    BY <2>1 DEF KeepInv, AccessesKeepField
  <2> QED
    BY <2>1, <2>2, <2>3, <2>4 DEF KeepInv
<1> QED
  BY <1>1, <1>2, <1>3, <1>4, <1>5 DEF FieldsNext

(***************************************************************************)
(* transform of DeadFieldElimination, after field elision: an access to a  *)
(* struct is to the field it was to before, in the definition as it is     *)
(* now, whatever fields were taken out and in whatever order of the types; *)
(* of modules where what is accessed does not escape and no struct is      *)
(* stored in a field whose number is a field of its own type.              *)
(***************************************************************************)
THEOREM FieldsAreKept ==
  ASSUME ProgramsAreElidable, FieldsAreMeant
  PROVE  FieldsSpec => []AccessesKeepField
<1>1. ElisionInit /\ FieldsInit => KeepInv
  BY ElisionStarts DEF FieldsInit, ElisionInit, KeepInv, AccessesKeepField
<1>2. KeepInv /\ [FieldsNext]_<<vars, fieldVars>> => KeepInv'
  BY KeepStep
<1>3. KeepInv => AccessesKeepField
  BY DEF KeepInv
<1> QED
  BY <1>1, <1>2, <1>3, PTL DEF FieldsSpec

-----------------------------------------------------------------------------
(* Types.cpp: the tables of types *)

Tables == INSTANCE TypeTables

\* What is no struct is made of types that are there already.
MadeOf(t, n) == t.code # "struct" => t.of \in Seq(1 .. n)

MadeBefore(types) == \A a \in DOMAIN types : MadeOf(types[a], a - 1)

\* get finds a type by its key.
ApartByKey(types) == \A a, b \in DOMAIN types : Tables!SameKey(types[a], types[b]) => a = b

\* Types that are made by calls of get and define, in this order.
IsMade(history) ==
  /\ Len(history) > 0 /\ history[1] = << >>
  /\ \A k \in 2 .. Len(history) :
       \E t : MadeOf(t, Len(history[k - 1])) /\ history[k] = Tables!Intern(history[k - 1], t).types

LEMMA KeyIsEquivalence ==
  ASSUME NEW s, NEW t
  PROVE  Tables!SameKey(s, s) /\ (Tables!SameKey(s, t) => Tables!SameKey(t, s))
BY DEF Tables!SameKey

LEMMA InternKeeps ==
  ASSUME NEW S, NEW types \in Seq(S), NEW t, Tables!Intern(types, t).types \in Seq(S),
         MadeBefore(types), ApartByKey(types), MadeOf(t, Len(types))
  PROVE  MadeBefore(Tables!Intern(types, t).types) /\ ApartByKey(Tables!Intern(types, t).types)
<1>1. CASE Tables!FoundType(types, t) # {}
  <2>1. Tables!Intern(types, t).types = types
    BY <1>1 DEF Tables!Intern
  <2> QED
    BY <2>1
<1>2. CASE Tables!FoundType(types, t) = {}
  <2>1. PICK n \in Nat : n = Len(types)
    BY LenProperties
  <2>2. PICK more : more = Tables!Intern(types, t).types
    OBVIOUS
  <2>3. more = Append(types, t)
    BY <1>2, <2>2 DEF Tables!Intern
  <2>4. DOMAIN types = 1 .. n
    BY <2>1, LenProperties
  <2>5. DOMAIN more = 1 .. n + 1 /\ more[n + 1] = t /\ \A a \in 1 .. n : more[a] = types[a]
    BY <2>1, <2>3 DEF Append
  <2>6. \A a \in 1 .. n : ~ Tables!SameKey(more[a], t)
    BY <1>2, <2>4, <2>5 DEF Tables!FoundType
  <2>7. MadeBefore(more)
    <3> SUFFICES ASSUME NEW a \in 1 .. n + 1 PROVE MadeOf(more[a], a - 1)
      BY <2>5 DEF MadeBefore
    <3>1. CASE a \in 1 .. n
      BY <2>4, <2>5, <3>1 DEF MadeBefore
    <3>2. CASE a = n + 1
      <4>1. a - 1 = n
        BY <3>2
      <4> QED
        BY <2>1, <2>5, <3>2, <4>1
    <3> QED
      BY <3>1, <3>2
  <2>8. ApartByKey(more)
    <3> SUFFICES ASSUME NEW a \in 1 .. n + 1, NEW b \in 1 .. n + 1, Tables!SameKey(more[a], more[b])
                 PROVE  a = b
      BY <2>5 DEF ApartByKey
    <3>1. Tables!SameKey(more[b], more[a])
      BY KeyIsEquivalence
    <3>2. CASE a \in 1 .. n /\ b \in 1 .. n
      BY <2>4, <2>5, <3>2 DEF ApartByKey
    <3>3. CASE a = n + 1 /\ b \in 1 .. n
      BY <2>5, <2>6, <3>1, <3>3
    <3>4. CASE b = n + 1 /\ a \in 1 .. n
      BY <2>5, <2>6, <3>4
    <3> QED
      BY <3>2, <3>3, <3>4
  <2> QED
    BY <2>2, <2>7, <2>8
<1> QED
  BY <1>1, <1>2

-----------------------------------------------------------------------------
(* What types are, after k rounds. *)

PartsIn(D, t) == \A i \in DOMAIN t.of : t.of[i] \in DOMAIN D
Meaning(D, t) == IF t.code = "struct" THEN <<"struct", t.what>>
                 ELSE <<t.code, [i \in DOMAIN t.of |-> D[t.of[i]]], t.what>>

Round(types, D) ==
  [a \in {b \in DOMAIN types : types[b].code = "struct" \/ PartsIn(D, types[b])} |-> Meaning(D, types[a])]

AreRounds(types, g) ==
  g = [k \in 0 .. Len(types) |-> IF k = 0 THEN << >> ELSE Round(types, g[k - 1])]

RoundsUpTo(types, m, g) ==
  DOMAIN g = 0 .. m /\ g[0] = << >> /\ \A k \in 1 .. m : g[k] = Round(types, g[k - 1])

LEMMA RoundsExist ==
  ASSUME NEW types, NEW n \in Nat
  PROVE  \E g : RoundsUpTo(types, n, g)
<1> DEFINE Q == {m \in 0 .. n : \E g : RoundsUpTo(types, m, g)}
<1>1. 0 \in Q
  <2>1. PICK g : g = [k \in 0 .. 0 |-> << >>]
    OBVIOUS
  <2>2. RoundsUpTo(types, 0, g)
    BY <2>1 DEF RoundsUpTo
  <2> QED
    BY <2>2
<1>2. ASSUME NEW m \in 1 .. n, m - 1 \in Q PROVE m \in Q
  <2>1. PICK h : RoundsUpTo(types, m - 1, h)
    BY <1>2
  <2>2. PICK g : g = [k \in 0 .. m |-> IF k = m THEN Round(types, h[m - 1]) ELSE h[k]]
    OBVIOUS
  <2>3. DOMAIN h = 0 .. m - 1 /\ h[0] = << >> /\ \A k \in 1 .. m - 1 : h[k] = Round(types, h[k - 1])
    BY <2>1 DEF RoundsUpTo
  <2>4. \A k \in 0 .. m - 1 : g[k] = h[k]
    BY <2>2
  <2>5. DOMAIN g = 0 .. m /\ g[m] = Round(types, g[m - 1]) /\ g[0] = << >>
    BY <2>2, <2>3, <2>4
  <2>6. ASSUME NEW k \in 1 .. m PROVE g[k] = Round(types, g[k - 1])
    <3>1. CASE k = m
      BY <2>5, <3>1
    <3>2. CASE k # m
      <4>1. k \in 1 .. m - 1 /\ k \in 0 .. m - 1 /\ k - 1 \in 0 .. m - 1
        BY <3>2
      <4> QED
        BY <2>3, <2>4, <4>1
    <3> QED
      BY <3>1, <3>2
  <2>7. RoundsUpTo(types, m, g)
    BY <2>5, <2>6 DEF RoundsUpTo
  <2> QED
    BY <2>7
<1> HIDE DEF Q
<1>3. \A k \in 0 .. n : k \in Q
  BY <1>1, <1>2, CountUp
<1>4. n \in Q
  BY <1>3
<1> QED
  BY <1>4 DEF Q

LEMMA DenotationIs ==
  ASSUME NEW S, NEW types \in Seq(S)
  PROVE  \E g : RoundsUpTo(types, Len(types), g) /\ Tables!Denotation(types) = g[Len(types)]
<1>1. PICK n \in Nat : n = Len(types)
  BY LenProperties
<1>2. PICK h : RoundsUpTo(types, n, h)
  BY RoundsExist
<1>3. PICK f : f = [k \in 0 .. n |-> h[k]]
  OBVIOUS
<1>4. AreRounds(types, f)
  <2>1. h[0] = << >> /\ \A k \in 1 .. n : h[k] = Round(types, h[k - 1])
    BY <1>2 DEF RoundsUpTo
  <2>2. \A k \in 0 .. n : k # 0 => k \in 1 .. n /\ k - 1 \in 0 .. n
    OBVIOUS
  <2>3. \A k \in 0 .. n : f[k] = IF k = 0 THEN << >> ELSE Round(types, f[k - 1])
    BY <1>3, <2>1, <2>2
  <2> QED
    BY <1>1, <1>3, <2>3 DEF AreRounds
<1>5. PICK g : g = CHOOSE e : AreRounds(types, e)
  OBVIOUS
<1>6. AreRounds(types, g)
  BY <1>4, <1>5
<1>7. g = [k \in 0 .. n |-> IF k = 0 THEN << >> ELSE Round(types, g[k - 1])]
  BY <1>1, <1>6 DEF AreRounds
<1>8. RoundsUpTo(types, n, g)
  <2>1. DOMAIN g = 0 .. n
    BY <1>7
  <2>2. 0 \in 0 .. n /\ \A k \in 1 .. n : k \in 0 .. n /\ k # 0
    OBVIOUS
  <2>3. g[0] = << >> /\ \A k \in 1 .. n : g[k] = Round(types, g[k - 1])
    BY <1>7, <2>2
  <2> QED
    BY <2>1, <2>3 DEF RoundsUpTo
<1>9. Tables!Denotation(types) = (CHOOSE e : AreRounds(types, e))[Len(types)]
  BY DEF Tables!Denotation, AreRounds, Round, PartsIn, Meaning
<1> QED
  BY <1>1, <1>5, <1>8, <1>9

\* After k rounds the first k types are known, and no two types mean the same.
LEMMA RoundsAreInjective ==
  ASSUME NEW S, NEW types \in Seq(S), MadeBefore(types), ApartByKey(types),
         NEW g, RoundsUpTo(types, Len(types), g)
  PROVE  \A k \in 0 .. Len(types) :
           /\ 1 .. k \subseteq DOMAIN g[k] /\ DOMAIN g[k] \subseteq DOMAIN types
           /\ \A a, b \in DOMAIN g[k] : g[k][a] = g[k][b] => a = b
<1>1. PICK n \in Nat : n = Len(types)
  BY LenProperties
<1>2. DOMAIN types = 1 .. n
  BY <1>1, LenProperties
<1> DEFINE Good(k, D) == /\ 1 .. k \subseteq DOMAIN D /\ DOMAIN D \subseteq DOMAIN types
                         /\ \A a, b \in DOMAIN D : D[a] = D[b] => a = b
           Q == {k \in 0 .. n : Good(k, g[k])}
<1>3. 0 \in Q
  <2>1. g[0] = << >>
    BY DEF RoundsUpTo
  <2>2. DOMAIN g[0] = {} /\ 1 .. 0 = {}
    BY <2>1
  <2> QED
    BY <2>2
<1>4. ASSUME NEW k \in 1 .. n, k - 1 \in Q PROVE k \in Q
  <2>1. PICK D : D = g[k - 1]
    OBVIOUS
  <2>2. Good(k - 1, D)
    BY <1>4, <2>1
  <2>3. PICK E : E = Round(types, D)
    OBVIOUS
  <2>4. g[k] = E
    BY <1>1, <2>1, <2>3 DEF RoundsUpTo
  <2>5. DOMAIN E = {b \in DOMAIN types : types[b].code = "struct" \/ PartsIn(D, types[b])}
    BY <2>3 DEF Round
  <2>6. \A a \in DOMAIN E : E[a] = Meaning(D, types[a])
    BY <2>3 DEF Round
  <2>7. ASSUME NEW a \in 1 .. k PROVE a \in DOMAIN E
    <3>1. a \in DOMAIN types /\ 1 .. (a - 1) \subseteq 1 .. k - 1
      BY <1>2
    <3>2. MadeOf(types[a], a - 1)
      BY <3>1 DEF MadeBefore
    <3>3. ASSUME types[a].code # "struct" PROVE PartsIn(D, types[a])
      <4>1. types[a].of \in Seq(1 .. (a - 1))
        BY <3>2, <3>3 DEF MadeOf
      <4>2. \A i \in DOMAIN types[a].of : types[a].of[i] \in 1 .. (a - 1)
        BY <4>1
      <4> QED
        BY <2>2, <3>1, <4>2 DEF PartsIn
    <3> QED
      BY <2>5, <3>1, <3>3
  <2>8. ASSUME NEW a \in DOMAIN E, NEW b \in DOMAIN E, E[a] = E[b] PROVE a = b
    <3>1. a \in DOMAIN types /\ b \in DOMAIN types /\ Meaning(D, types[a]) = Meaning(D, types[b])
      BY <2>5, <2>6, <2>8
    <3>2. PICK s : s = types[a]
      OBVIOUS
    <3>3. PICK t : t = types[b]
      OBVIOUS
    <3>4. Meaning(D, s) = Meaning(D, t)
      BY <3>1, <3>2, <3>3
    <3>5. Tables!SameKey(s, t)
      <4>1. CASE s.code = "struct"
        <5>1. t.code = "struct" /\ s.what = t.what
          BY <3>4, <4>1 DEF Meaning
        <5> QED
          BY <4>1, <5>1 DEF Tables!SameKey
      <4>2. CASE s.code # "struct"
        <5>1. t.code # "struct" /\ s.code = t.code /\ s.what = t.what
              /\ [i \in DOMAIN s.of |-> D[s.of[i]]] = [i \in DOMAIN t.of |-> D[t.of[i]]]
          BY <3>4, <4>2 DEF Meaning
        <5>2. PICK x : x = s.of
          OBVIOUS
        <5>3. PICK y : y = t.of
          OBVIOUS
        <5>4. DOMAIN x = DOMAIN y /\ \A i \in DOMAIN x : D[x[i]] = D[y[i]]
          BY <5>1, <5>2, <5>3
        <5>5. \A i \in DOMAIN x : x[i] \in DOMAIN D /\ y[i] \in DOMAIN D
          BY <2>5, <3>2, <3>3, <4>2, <5>1, <5>2, <5>3, <5>4 DEF PartsIn
        <5>6. \A i \in DOMAIN x : x[i] = y[i]
          BY <2>2, <5>4, <5>5
        <5>7. MadeOf(s, a - 1) /\ MadeOf(t, b - 1)
          BY <3>1, <3>2, <3>3 DEF MadeBefore
        <5>8. x \in Seq(1 .. (a - 1)) /\ y \in Seq(1 .. (b - 1))
          BY <4>2, <5>1, <5>2, <5>3, <5>7 DEF MadeOf
        <5>9. x = y
          BY <5>4, <5>6, <5>8
        <5> QED
          BY <4>2, <5>1, <5>2, <5>3, <5>9 DEF Tables!SameKey
      <4> QED
        BY <4>1, <4>2
    <3> QED
      BY <3>1, <3>2, <3>3, <3>5 DEF ApartByKey
  <2>9. Good(k, E)
    BY <2>5, <2>7, <2>8
  <2> QED
    BY <2>4, <2>9
<1> HIDE DEF Q
<1>5. \A k \in 0 .. n : k \in Q
  BY <1>3, <1>4, CountUp
<1> QED
  BY <1>1, <1>5 DEF Q

LEMMA ApartIsUnique ==
  ASSUME NEW S, NEW types \in Seq(S), MadeBefore(types), ApartByKey(types)
  PROVE  Tables!OneObjectPerType(types)
<1>1. PICK g : RoundsUpTo(types, Len(types), g) /\ Tables!Denotation(types) = g[Len(types)]
  BY DenotationIs
<1>2. PICK n \in Nat : n = Len(types) /\ DOMAIN types = 1 .. n
  BY LenProperties
<1>3. PICK D : D = g[n]
  OBVIOUS
<1>4. /\ 1 .. n \subseteq DOMAIN D /\ DOMAIN D \subseteq DOMAIN types
      /\ \A a, b \in DOMAIN D : D[a] = D[b] => a = b
  BY <1>1, <1>2, <1>3, RoundsAreInjective
<1> QED
  BY <1>1, <1>2, <1>3, <1>4 DEF Tables!OneObjectPerType

\* Types.cpp, get and define: whatever types are made, in whatever order, of types that were
\* there, no type has two objects, so that comparing addresses compares types.
THEOREM TypesAreInterned ==
  ASSUME NEW S, NEW history \in Seq(Seq(S)), IsMade(history)
  PROVE  \A k \in DOMAIN history : Tables!OneObjectPerType(history[k])
<1>1. PICK n \in Nat : n = Len(history) /\ DOMAIN history = 1 .. n
  BY LenProperties
<1> DEFINE Q == {k \in 0 .. n : k # 0 => MadeBefore(history[k]) /\ ApartByKey(history[k])}
<1>2. 0 \in Q
  OBVIOUS
<1>3. ASSUME NEW k \in 1 .. n, k - 1 \in Q PROVE k \in Q
  <2>1. CASE k = 1
    <3>1. PICK types : types = history[1]
      OBVIOUS
    <3>2. DOMAIN types = {}
      BY <3>1 DEF IsMade
    <3>3. MadeBefore(types) /\ ApartByKey(types)
      BY <3>2 DEF MadeBefore, ApartByKey
    <3> QED
      BY <2>1, <3>1, <3>3
  <2>2. CASE k # 1
    <3>1. PICK types \in Seq(S) : types = history[k - 1]
      BY <1>1, <2>2
    <3>2. PICK more \in Seq(S) : more = history[k]
      BY <1>1
    <3>3. k \in 2 .. Len(history)
      BY <1>1, <2>2
    <3>4. PICK t : MadeOf(t, Len(types)) /\ more = Tables!Intern(types, t).types
      BY <3>1, <3>2, <3>3 DEF IsMade
    <3>5. MadeBefore(types) /\ ApartByKey(types)
      BY <1>3, <2>2, <3>1
    <3>6. MadeBefore(more) /\ ApartByKey(more)
      BY <3>4, <3>5, InternKeeps
    <3> QED
      BY <3>2, <3>6
  <2> QED
    BY <2>1, <2>2
<1> HIDE DEF Q
<1>4. \A k \in 0 .. n : k \in Q
  BY <1>2, <1>3, CountUp
<1>5. ASSUME NEW k \in 1 .. n PROVE Tables!OneObjectPerType(history[k])
  <2>1. PICK types \in Seq(S) : types = history[k]
    BY <1>1
  <2>2. MadeBefore(types) /\ ApartByKey(types)
    BY <1>4, <2>1 DEF Q
  <2> QED
    BY <2>1, <2>2, ApartIsUnique
<1> QED
  BY <1>1, <1>5
=============================================================================
