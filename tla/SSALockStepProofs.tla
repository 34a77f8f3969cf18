------------------------- MODULE SSALockStepProofs -------------------------
(***************************************************************************)
(* The construction pass preserves meaning: along every path, for every    *)
(* set of faithful functions, the SSA program sees what the mutable        *)
(* program sees, until that uses a sequence it has freed.                  *)
(*                                                                         *)
(* First what the pass writes, on the latest versions of the operands;     *)
(* then what both programs know at a point (Sim), and that each            *)
(* instruction, each block and each edge keeps it.                         *)
(***************************************************************************)
EXTENDS SSALockStep, SSAConstructionProofs

-----------------------------------------------------------------------------
(* What the pass writes. *)

\* A sequence can be built up by appending one piece after another.
LEMMA PiecesExist ==
  ASSUME NEW m \in Nat, NEW G
  PROVE  \E w : w = [i \in 0 .. m |-> IF i = 0 THEN << >> ELSE w[i - 1] \o G[i]]
<1> DEFINE Grows(w, n) == w = [i \in 0 .. n |-> IF i = 0 THEN << >> ELSE w[i - 1] \o G[i]]
           Q == {n \in Nat : \E w : Grows(w, n)}
<1>1. 0 \in Q
  <2>1. Grows([i \in 0 .. 0 |-> << >>], 0)
    OBVIOUS
  <2> QED
    BY <2>1
<1>2. ASSUME NEW n \in 1 .. m, n - 1 \in Q PROVE n \in Q
  <2>1. PICK g : Grows(g, n - 1)
    BY <1>2
  <2> DEFINE f == [i \in 0 .. n |-> IF i = n THEN g[n - 1] \o G[n] ELSE g[i]]
  <2>2. \A i \in 0 .. n - 1 : g[i] = IF i = 0 THEN << >> ELSE g[i - 1] \o G[i]
    BY <2>1
  <2>3. f = [i \in 0 .. n |-> f[i]] /\ f[n] = g[n - 1] \o G[n] /\ \A i \in 0 .. n - 1 : f[i] = g[i]
    OBVIOUS
  <2> HIDE DEF f
  <2>4. \A i \in 0 .. n : i # n => i \in 0 .. n - 1 /\ (i # 0 => i - 1 \in 0 .. n - 1)
    OBVIOUS
  <2>5. ASSUME NEW i \in 0 .. n
        PROVE  f[i] = IF i = 0 THEN << >> ELSE f[i - 1] \o G[i]
    <3>1. CASE i = n
      <4>1. n - 1 \in 0 .. n - 1 /\ n # 0
        OBVIOUS
      <4> QED
        BY <2>3, <3>1, <4>1
    <3>2. CASE i # n
      BY <2>2, <2>3, <2>4, <3>2
    <3> QED
      BY <3>1, <3>2
  <2>6. Grows(f, n)
    BY <2>3, <2>5
  <2>7. n \in Nat
    OBVIOUS
  <2> QED
    BY <2>6, <2>7
<1> HIDE DEF Q
<1>3. m \in Q
  BY <1>1, <1>2, CountUp
<1> QED
  BY <1>3 DEF Q

LEMMA WrittenIs ==
  ASSUME NEW P, NEW dom, NEW pd, NEW b, Len(P.code[b]) \in Nat
  PROVE  /\ Written(P, dom, pd, b)[0] = << >>
         /\ \A i \in 1 .. Len(P.code[b]) :
              Written(P, dom, pd, b)[i] =
                Written(P, dom, pd, b)[i - 1] \o Rewritten(P, b, i, Operands(P, dom, pd, b, i))
<1> DEFINE m == Len(P.code[b])
           G == [i \in 1 .. m |-> Rewritten(P, b, i, Operands(P, dom, pd, b, i))]
           f == CHOOSE w : w = [i \in 0 .. m |->
                  IF i = 0 THEN << >>
                  ELSE w[i - 1] \o Rewritten(P, b, i, Operands(P, dom, pd, b, i))]
<1>1. \E w : w = [i \in 0 .. m |-> IF i = 0 THEN << >> ELSE w[i - 1] \o G[i]]
  BY PiecesExist
<1>2. PICK g : g = [i \in 0 .. m |-> IF i = 0 THEN << >> ELSE g[i - 1] \o G[i]]
  BY <1>1
<1>3. g = [i \in 0 .. m |->
             IF i = 0 THEN << >>
             ELSE g[i - 1] \o Rewritten(P, b, i, Operands(P, dom, pd, b, i))]
  <2>1. \A i \in 0 .. m : i # 0 => i \in 1 .. m
    OBVIOUS
  <2> QED
    BY <1>2, <2>1
<1>4. f = [i \in 0 .. m |->
             IF i = 0 THEN << >>
             ELSE f[i - 1] \o Rewritten(P, b, i, Operands(P, dom, pd, b, i))]
  BY <1>3
<1>5. Written(P, dom, pd, b) = f
  BY DEF Written
<1> HIDE DEF f
<1>6. \A i \in 1 .. m : i \in 0 .. m /\ i # 0
  OBVIOUS
<1>7. 0 \in 0 .. m
  OBVIOUS
<1> QED
  BY <1>4, <1>5, <1>6, <1>7

\* Cleanup takes a sequence one instruction at a time.
LEMMA CleanedSteps ==
  ASSUME NEW S, NEW s \in Seq(S), NEW x \in S
  PROVE  Cleaned(Append(s, x)) = IF x.marked THEN Cleaned(s) ELSE Append(Cleaned(s), x)
<1> DEFINE m == Len(s)
<1>1. PICK w : w = Append(s, x)
  OBVIOUS
<1>2. /\ m \in Nat /\ Len(w) = m + 1 /\ w[m + 1] = x /\ \A i \in 1 .. m : w[i] = s[i]
  BY <1>1
<1>3. PICK f : Leaving(f, s, m) /\ Cleaned(s) = f[m]
  BY <1>2, CleanedIs
<1>4. PICK g : Leaving(g, w, m + 1) /\ Cleaned(w) = g[m + 1]
  BY <1>2, CleanedIs
<1> HIDE DEF m
<1> DEFINE Q == {n \in 0 .. m : f[n] = g[n]}
<1>5. /\ \A i \in 0 .. m : i \in 0 .. m + 1
      /\ \A i \in 1 .. m : i \in 0 .. m /\ i # 0
      /\ m + 1 \in 0 .. m + 1 /\ m + 1 # 0 /\ (m + 1) - 1 = m /\ m \in 0 .. m /\ 0 \in 0 .. m
  BY <1>2
<1>6. 0 \in Q
  BY <1>3, <1>4, <1>5 DEF Leaving
<1>7. ASSUME NEW n \in 1 .. m, n - 1 \in Q PROVE n \in Q
  <2>1. f[n] = IF s[n].marked THEN f[n - 1] ELSE Append(f[n - 1], s[n])
    BY <1>3, <1>5 DEF Leaving
  <2>2. g[n] = IF w[n].marked THEN g[n - 1] ELSE Append(g[n - 1], w[n])
    BY <1>4, <1>5 DEF Leaving
  <2> QED
    BY <1>2, <1>5, <1>7, <2>1, <2>2
<1>8. \A n \in 0 .. m : n \in Q
  <2> HIDE DEF Q
  <2> QED
    BY <1>2, <1>6, <1>7, CountUp
<1>9. g[m + 1] = IF w[m + 1].marked THEN g[m] ELSE Append(g[m], w[m + 1])
  BY <1>4, <1>5 DEF Leaving
<1>10. f[m] = g[m]
  BY <1>5, <1>8
<1> QED
  BY <1>1, <1>2, <1>3, <1>4, <1>9, <1>10

LEMMA AppendedSingly ==
  ASSUME NEW S, NEW s \in Seq(S), NEW x \in S, NEW y \in S, NEW z \in S
  PROVE  /\ s \o <<x>> = Append(s, x) /\ s \o <<x, y>> = Append(Append(s, x), y)
         /\ s \o <<x, y, z>> = Append(Append(Append(s, x), y), z)
<1>1. s \o <<x>> = Append(s, x)
  BY AppendIsConcat
<1>2. ASSUME NEW t \in Seq(S), NEW e \in S
      PROVE  s \o Append(t, e) = Append(s \o t, e)
  <2>0. PICK w, m, n : w = Append(t, e) /\ m = Len(s) /\ n = Len(t)
    OBVIOUS
  <2>1. PICK u, v : u = s \o w /\ v = Append(s \o t, e)
    OBVIOUS
  <2>2. m \in Nat /\ n \in Nat
    BY <2>0
  <2>3. w \in Seq(S) /\ Len(w) = n + 1 /\ w[n + 1] = e /\ \A i \in 1 .. n : w[i] = t[i]
    BY <2>0, AppendProperties
  <2>4. /\ s \o t \in Seq(S) /\ Len(s \o t) = m + n
        /\ \A i \in 1 .. m + n : (s \o t)[i] = IF i <= m THEN s[i] ELSE t[i - m]
    BY <2>0, ConcatProperties
  <2>5. /\ u \in Seq(S) /\ Len(u) = m + (n + 1)
        /\ \A i \in 1 .. m + (n + 1) : u[i] = IF i <= m THEN s[i] ELSE w[i - m]
    <3>1. w \in Seq(S) /\ Len(w) = n + 1
      BY <2>3
    <3>2. /\ s \o w \in Seq(S) /\ Len(s \o w) = Len(s) + Len(w)
          /\ \A i \in 1 .. Len(s) + Len(w) : (s \o w)[i] = IF i <= Len(s) THEN s[i] ELSE w[i - Len(s)]
      BY <3>1, ConcatProperties
    <3>3. u = s \o w /\ Len(s) = m
      BY <2>0, <2>1
    <3> QED
      BY <3>1, <3>2, <3>3
  <2>6. /\ v \in Seq(S) /\ Len(v) = (m + n) + 1 /\ v[(m + n) + 1] = e
        /\ \A i \in 1 .. m + n : v[i] = (s \o t)[i]
    BY <2>0, <2>1, <2>4, AppendProperties
  <2>7. ASSUME NEW i \in 1 .. m + (n + 1) PROVE u[i] = v[i]
    <3>1. CASE i <= m
      <4>1. i \in 1 .. m + n
        BY <2>2, <3>1
      <4> QED
        BY <2>4, <2>5, <2>6, <3>1, <4>1
    <3>2. CASE ~(i <= m) /\ i <= m + n
      <4>1. i \in 1 .. m + n /\ i - m \in 1 .. n
        BY <2>2, <3>2
      <4> QED
        BY <2>3, <2>4, <2>5, <2>6, <3>2, <4>1
    <3>3. CASE i = (m + n) + 1
      <4>1. ~(i <= m) /\ i - m = n + 1
        BY <2>2, <3>3
      <4> QED
        BY <2>3, <2>5, <2>6, <3>3, <4>1
    <3> QED
      BY <2>2, <3>1, <3>2, <3>3
  <2>8. m + (n + 1) = (m + n) + 1
    BY <2>2
  <2>9. u = v
    BY <2>5, <2>6, <2>7, <2>8, SeqEqual
  <2> QED
    BY <2>0, <2>1, <2>9
<1>3. PICK a, d, f : a = <<x>> /\ d = <<x, y>> /\ f = <<x, y, z>>
  OBVIOUS
<1>4. a \in Seq(S) /\ d \in Seq(S)
  BY <1>3
<1>5. Append(a, y) = d /\ Append(d, z) = f
  <2>1. PICK u, v : u = Append(a, y) /\ v = Append(d, z)
    OBVIOUS
  <2>2. /\ u \in Seq(S) /\ Len(u) = 2 /\ u[1] = x /\ u[2] = y
        /\ v \in Seq(S) /\ Len(v) = 3 /\ v[1] = x /\ v[2] = y /\ v[3] = z
    BY <1>3, <1>4, <2>1
  <2>3. /\ d \in Seq(S) /\ Len(d) = 2 /\ d[1] = x /\ d[2] = y
        /\ f \in Seq(S) /\ Len(f) = 3 /\ f[1] = x /\ f[2] = y /\ f[3] = z
    BY <1>3, <2>1
  <2>4. u = d
    <3>1. \A i \in 1 .. 2 : u[i] = d[i]
      BY <2>2, <2>3
    <3> QED
      BY <2>2, <2>3, <3>1, SeqEqual
  <2>5. v = f
    <3>1. \A i \in 1 .. 3 : v[i] = f[i]
      BY <2>2, <2>3
    <3> QED
      BY <2>2, <2>3, <3>1, SeqEqual
  <2> QED
    BY <2>1, <2>4, <2>5
<1>6. s \o d = Append(s \o a, y)
  BY <1>2, <1>4, <1>5
<1>7. s \o f = Append(s \o d, z)
  BY <1>2, <1>4, <1>5
<1> QED
  BY <1>1, <1>3, <1>6, <1>7

-----------------------------------------------------------------------------
(* The steps of the pass write that. *)

Wrote == OperandsAreLatest /\ CodeIsWritten

LEMMA InitWrote == ASSUME Init, IInv PROVE Wrote
<1>1. WellFormed(fn.P)
  BY FnFacts
<1>2. \A b \in Blocks(fn.P) : Len(fn.P.code[b]) \in Nat
  BY <1>1 DEF WellFormed, WellTyped
<1>3. \A b \in Blocks(fn.P) : VisitedTo[b] = 1
  BY DEF VisitedTo, Init
<1>4. OperandsAreLatest
  BY <1>3 DEF OperandsAreLatest
<1>5. Cleaned(<< >>) = << >>
  <2>1. PICK s : s = << >>
    OBVIOUS
  <2>2. Len(s) \in Nat /\ Len(s) = 0
    BY <2>1
  <2>3. PICK f : Leaving(f, s, Len(s)) /\ Cleaned(s) = f[Len(s)]
    BY <2>2, CleanedIs
  <2>4. 0 \in 0 .. 0
    OBVIOUS
  <2> QED
    BY <2>1, <2>2, <2>3, <2>4 DEF Leaving
<1>6. CodeIsWritten
  <2>1. ASSUME NEW b \in Blocks(fn.P)
        PROVE  Written(fn.P, fn.dom, PHIDefs(phis), b)[VisitedTo[b] - 1] = << >>
    <3>1. VisitedTo[b] - 1 = 0
      BY <1>3
    <3> QED
      BY <1>2, <3>1, WrittenIs
  <2>2. stage # "done" /\ \A b \in Blocks(fn.P) : out[b] = << >>
    BY DEF Init
  <2> QED
    BY <1>5, <2>1, <2>2 DEF CodeIsWritten
<1> QED
  BY <1>4, <1>6 DEF Wrote

\* Nothing is written while no instruction is left behind.
LEMMA WroteKept ==
  ASSUME Wrote, fn' = fn, out' = out, VisitedTo' = VisitedTo, stage' = "done" <=> stage = "done",
         PHIDefs(phis') = PHIDefs(phis)
  PROVE  Wrote'
<1>1. PICK pd, l : pd = PHIDefs(phis) /\ l = VisitedTo
  OBVIOUS
<1>2. OperandsAreLatest'
  <2>1. \A b \in Blocks(fn.P) : \A i \in 1 .. l[b] - 1 :
          \A j \in DOMAIN Resolved(fn.P.code[b][i]) :
             Latest(fn.P, fn.dom, pd, Resolved(fn.P.code[b][i])[j], <<b, i>>,
                    Operands(fn.P, fn.dom, pd, b, i)[j])
    BY <1>1 DEF Wrote, OperandsAreLatest, LatestFor
  <2>2. fn' = fn /\ PHIDefs(phis)' = pd /\ VisitedTo' = l
    BY <1>1
  <2> QED
    BY <2>1, <2>2 DEF OperandsAreLatest, LatestFor
<1>3. CodeIsWritten'
  <2>1. \A b \in Blocks(fn.P) :
          (IF stage = "done" THEN out[b] ELSE Cleaned(out[b])) = Written(fn.P, fn.dom, pd, b)[l[b] - 1]
    BY <1>1 DEF Wrote, CodeIsWritten
  <2>2. fn' = fn /\ PHIDefs(phis)' = pd /\ VisitedTo' = l /\ out' = out
    BY <1>1
  <2> QED
    BY <2>1, <2>2 DEF CodeIsWritten
<1> QED
  BY <1>2, <1>3 DEF Wrote

\* The reaching definitions found are those that what is written is about.
LEMMA OperandsFound ==
  ASSUME IInv, Built, Tracked, AtInst, Len(vals) = Len(Resolved(inst))
  PROVE  /\ vals = Operands(fn.P, fn.dom, PHIDefs(phis), bb, idx)
         /\ \A j \in DOMAIN Resolved(inst) : LatestFor(Resolved(inst)[j], <<bb, idx>>, vals[j])
<1>1. /\ bb \in Blocks(fn.P) /\ idx \in 1 .. Len(fn.P.code[bb])
      /\ inst = fn.P.code[bb][idx] /\ Sought = Resolved(inst)
      /\ inst \in [op : STRING, def : Names(fn.P) \cup {NoName}, c : Seq(Names(fn.P))]
  BY AtInstFacts
<1>2. /\ vals \in Seq(Value) /\ stage = "inst" /\ Point = <<bb, idx>>
      /\ \A j \in 1 .. Len(vals) : vals[j].web = Sought[j] /\ vals[j].web \in Names(fn.P)
  BY DEF IInv, TypeOK, AtInst, InvVals, Point
<1>3. FoundIsLatest
  BY <1>2 DEF Tracked, InvChains
<1>4. Resolved(inst) \in Seq(Names(fn.P))
  <2>1. inst.c \in Seq(Names(fn.P)) /\ << >> \in Seq(Names(fn.P))
    BY <1>1
  <2> QED
    BY <2>1 DEF Resolved
<1>5. PICK m : m = Len(vals)
  OBVIOUS
<1>6. m \in Nat /\ DOMAIN vals = 1 .. m /\ DOMAIN Resolved(inst) = 1 .. m /\ Len(Resolved(inst)) = m
  BY <1>2, <1>4, <1>5
<1>7. ASSUME NEW j \in 1 .. m
      PROVE  /\ LatestFor(Resolved(inst)[j], <<bb, idx>>, vals[j])
             /\ vals[j] = LatestAt(fn.P, fn.dom, PHIDefs(phis), Resolved(inst)[j], <<bb, idx>>)
  <2>1. PICK n : n = Resolved(inst)[j]
    OBVIOUS
  <2>2. vals[j].web = n /\ n \in Names(fn.P)
    BY <1>1, <1>2, <1>6, <2>1
  <2>3. LatestFor(n, <<bb, idx>>, vals[j])
    BY <1>2, <1>3, <1>6, <2>2 DEF FoundIsLatest
  <2>4. vals[j] = LatestAt(fn.P, fn.dom, PHIDefs(phis), n, <<bb, idx>>)
    <3>1. Ground(fn.P, fn.dom, PHIDefs(phis))
      BY GroundHolds DEF Tracked
    <3>2. PICK z : z = vals[j]
      OBVIOUS
    <3>3. /\ Latest(fn.P, fn.dom, PHIDefs(phis), n, <<bb, idx>>, z)
          /\ z \in Versions(fn.P, PHIDefs(phis), n)
      BY <2>3, <3>2 DEF LatestFor, Latest
    <3>4. \A v : Latest(fn.P, fn.dom, PHIDefs(phis), n, <<bb, idx>>, v) => v = z
      BY <2>2, <3>1, <3>3, LatestIsUnique
    <3>5. LatestAt(fn.P, fn.dom, PHIDefs(phis), n, <<bb, idx>>) = z
      BY <3>3, <3>4 DEF LatestAt
    <3> QED
      BY <3>2, <3>5
  <2> QED
    BY <2>1, <2>3, <2>4
<1>8. vals = [j \in 1 .. m |->
                LatestAt(fn.P, fn.dom, PHIDefs(phis), Resolved(inst)[j], <<bb, idx>>)]
  <2>1. vals = [j \in 1 .. m |-> vals[j]]
    BY <1>2, <1>6
  <2> QED
    BY <1>7, <2>1
<1> QED
  BY <1>1, <1>6, <1>7, <1>8 DEF Operands

\* r is what is written for x, by its operation.
StandsFor(r, x, b, i, vs, results, source) ==
  /\ x.op = "MutStructWrite" => r = <<Stands(b, i, "StructWrite", << >>, << >>)>>
  /\ x.op \in WriteOps => r = <<Stands(b, i, EffectOf[x.op], <<Val("ssa", x.c[1], b, i)>>, <<vs[1]>>)>>
  /\ x.op = "MutSeqInsertSeq" =>
       r = <<Stands(b, i, "SeqInsertSeq", <<Val("ssa", x.c[1], b, i)>>, <<vs[1], vs[2]>>)>>
  /\ x.op = "MutSeqAppend" =>
       r = <<Stands(b, i, "End", << >>, << >>),
             Stands(b, i, "SeqInsertSeq", <<Val("ssa", x.c[1], b, i)>>, <<vs[1], vs[2]>>)>>
  /\ x.op = "MutSeqSwap" =>
       r = <<Stands(b, i, "SeqSwap", <<Val("ssa", x.c[1], b, i), Val("ssa", x.c[2], b, i)>>,
                    <<vs[1], vs[2]>>)>>
  /\ x.op = "MutSeqSplit" =>
       r = <<Stands(b, i, "SeqCopy", <<Val("copy", x.def, b, i)>>, <<vs[1]>>),
             Stands(b, i, "SeqRemove", <<Val("ssa", x.c[1], b, i)>>, <<vs[1]>>)>>
  /\ x.op = "AssocHas" /\ ~UsePHIs => r = <<Stands(b, i, "AssocHas", << >>, <<source>>)>>
  /\ UsePHIs /\ x.op \in ReadOps \cup {"AssocHas"} =>
       r = <<Stands(b, i, x.op, results, vs),
             Stands(b, i, "UsePHI", <<Val("use", x.c[1], b, i)>>, vs)>>
  /\ x.op \notin MutOps \cup {"AssocHas"} /\ ~(UsePHIs /\ x.op \in ReadOps) =>
       r = <<Stands(b, i, x.op, results, vs)>>

LEMMA RewrittenForms ==
  ASSUME NEW P, NEW b, NEW i, NEW vs
  PROVE  StandsFor(Rewritten(P, b, i, vs), P.code[b][i], b, i, vs,
                   IF P.code[b][i].def = NoName THEN << >> ELSE <<Src(P, P.code[b][i].def)>>,
                   Src(P, P.code[b][i].c[1]))
<1> DEFINE x == P.code[b][i]
           results == IF x.def = NoName THEN << >> ELSE <<Src(P, x.def)>>
           ssa1 == Val("ssa", x.c[1], b, i)
           ssa2 == Val("ssa", x.c[2], b, i)
           g1 == <<Stands(b, i, "StructWrite", << >>, << >>)>>
           g2 == <<Stands(b, i, EffectOf[x.op], <<ssa1>>, <<vs[1]>>)>>
           g3 == <<Stands(b, i, "SeqInsertSeq", <<ssa1>>, <<vs[1], vs[2]>>)>>
           g4 == <<Stands(b, i, "End", << >>, << >>),
                   Stands(b, i, "SeqInsertSeq", <<ssa1>>, <<vs[1], vs[2]>>)>>
           g5 == <<Stands(b, i, "SeqSwap", <<ssa1, ssa2>>, <<vs[1], vs[2]>>)>>
           g6 == <<Stands(b, i, "SeqCopy", <<Val("copy", x.def, b, i)>>, <<vs[1]>>),
                   Stands(b, i, "SeqRemove", <<ssa1>>, <<vs[1]>>)>>
           g7 == <<Stands(b, i, "AssocHas", << >>, <<Src(P, x.c[1])>>)>>
           g8 == <<Stands(b, i, x.op, results, vs),
                   Stands(b, i, "UsePHI", <<Val("use", x.c[1], b, i)>>, vs)>>
           g9 == <<Stands(b, i, x.op, results, vs)>>
           r == Rewritten(P, b, i, vs)
<1>1. r = CASE x.op = "MutStructWrite"  -> g1
            [] x.op \in WriteOps        -> g2
            [] x.op = "MutSeqInsertSeq" -> g3
            [] x.op = "MutSeqAppend"    -> g4
            [] x.op = "MutSeqSwap"      -> g5
            [] x.op = "MutSeqSplit"     -> g6
            [] x.op = "AssocHas" /\ ~UsePHIs -> g7
            [] UsePHIs /\ x.op \in ReadOps \cup {"AssocHas"} -> g8
            [] OTHER -> g9
  BY DEF Rewritten
<1> HIDE DEF g1, g2, g3, g4, g5, g6, g7, g8, g9, r
<1>2. /\ x.op = "MutStructWrite" => r = g1
      /\ x.op \in WriteOps => r = g2
      /\ x.op = "MutSeqInsertSeq" => r = g3
      /\ x.op = "MutSeqAppend" => r = g4
      /\ x.op = "MutSeqSwap" => r = g5
      /\ x.op = "MutSeqSplit" => r = g6
  BY <1>1 DEF WriteOps, ReadOps
<1>3. /\ x.op = "AssocHas" /\ ~UsePHIs => r = g7
      /\ UsePHIs /\ x.op \in ReadOps \cup {"AssocHas"} => r = g8
      /\ x.op \notin MutOps \cup {"AssocHas"} /\ ~(UsePHIs /\ x.op \in ReadOps) => r = g9
  BY <1>1 DEF WriteOps, ReadOps, MutOps, PairOps
<1> QED
  BY <1>2, <1>3, ZenonT(30) DEF g1, g2, g3, g4, g5, g6, g7, g8, g9, r, StandsFor

\* The visit of an instruction appends what stands for it.
LEMMA EmitWrote ==
  ASSUME IInv, Built, Tracked, Wrote, AtInst, Len(vals) = Len(Resolved(inst)), NEW new, Emit(new),
         Cleaned(out[bb] \o new) = Cleaned(out[bb]) \o Rewritten(fn.P, bb, idx, vals)
  PROVE  Wrote'
<1>1. /\ bb \in Blocks(fn.P) /\ bb \in seen /\ idx \in 1 .. Len(fn.P.code[bb])
      /\ inst = fn.P.code[bb][idx] /\ stage = "inst" /\ idx \in Nat /\ Len(fn.P.code[bb]) \in Nat
  BY AtInstFacts, FnFacts DEF IInv, TypeOK, AtInst, WellFormed, WellTyped
<1>2. /\ \A b \in Blocks(fn.P) : out'[b] = IF b = bb THEN out[bb] \o new ELSE out[b]
      /\ fn' = fn /\ stage' = "inst" /\ phis' = phis
  BY <1>1 DEF Emit, Built
<1>3. /\ \A b \in Blocks(fn.P) : VisitedTo'[b] = IF b = bb THEN idx + 1 ELSE VisitedTo[b]
      /\ VisitedTo[bb] = idx
  BY <1>1 DEF VisitedTo, Emit
<1>4. PICK pd : pd = PHIDefs(phis)
  OBVIOUS
<1>5. /\ vals = Operands(fn.P, fn.dom, pd, bb, idx)
      /\ \A j \in DOMAIN Resolved(inst) : LatestFor(Resolved(inst)[j], <<bb, idx>>, vals[j])
  BY <1>4, OperandsFound
<1>6. \A i \in 1 .. (idx + 1) - 1 : i = idx \/ i \in 1 .. idx - 1
  BY <1>1
<1>7. OperandsAreLatest'
  <2>1. ASSUME NEW b \in Blocks(fn.P), NEW i \in 1 .. VisitedTo'[b] - 1,
               NEW j \in DOMAIN Resolved(fn.P.code[b][i])
        PROVE  Latest(fn.P, fn.dom, pd, Resolved(fn.P.code[b][i])[j], <<b, i>>,
                      Operands(fn.P, fn.dom, pd, b, i)[j])
    <3>1. CASE b = bb /\ i = idx
      BY <1>1, <1>4, <1>5, <3>1 DEF LatestFor
    <3>2. CASE ~(b = bb /\ i = idx)
      <4>1. i \in 1 .. VisitedTo[b] - 1
        BY <1>3, <1>6, <3>2
      <4> QED
        BY <1>4, <4>1 DEF Wrote, OperandsAreLatest, LatestFor
    <3> QED
      BY <3>1, <3>2
  <2>2. fn' = fn /\ PHIDefs(phis)' = pd
    BY <1>2, <1>4
  <2> QED
    BY <2>1, <2>2 DEF OperandsAreLatest, LatestFor
<1>8. CodeIsWritten'
  <2>1. \A b \in Blocks(fn.P) : Cleaned(out[b]) = Written(fn.P, fn.dom, pd, b)[VisitedTo[b] - 1]
    BY <1>1, <1>4 DEF Wrote, CodeIsWritten
  <2>2. ASSUME NEW b \in Blocks(fn.P)
        PROVE  Cleaned(out'[b]) = Written(fn.P, fn.dom, pd, b)[VisitedTo'[b] - 1]
    <3>1. CASE b = bb
      <4>1. Written(fn.P, fn.dom, pd, bb)[idx] =
              Written(fn.P, fn.dom, pd, bb)[idx - 1] \o Rewritten(fn.P, bb, idx, vals)
        <5>1. Written(fn.P, fn.dom, pd, bb)[idx] =
                Written(fn.P, fn.dom, pd, bb)[idx - 1]
                  \o Rewritten(fn.P, bb, idx, Operands(fn.P, fn.dom, pd, bb, idx))
          <6>1. PICK P, dom, b0 : P = fn.P /\ dom = fn.dom /\ b0 = bb
            OBVIOUS
          <6>2. Len(P.code[b0]) \in Nat /\ idx \in 1 .. Len(P.code[b0])
            BY <1>1, <6>1
          <6>3. Written(P, dom, pd, b0)[idx] =
                  Written(P, dom, pd, b0)[idx - 1] \o Rewritten(P, b0, idx, Operands(P, dom, pd, b0, idx))
            BY <6>2, WrittenIs
          <6> QED
            BY <6>1, <6>3
        <5> QED
          BY <1>5, <5>1
      <4>2. (idx + 1) - 1 = idx
        BY <1>1
      <4>3. Cleaned(out[bb] \o new) = Written(fn.P, fn.dom, pd, bb)[idx]
        BY <1>1, <1>3, <2>1, <4>1
      <4> QED
        BY <1>2, <1>3, <3>1, <4>2, <4>3
    <3>2. CASE b # bb
      BY <1>2, <1>3, <2>1, <3>2
    <3> QED
      BY <3>1, <3>2
  <2>3. fn' = fn /\ PHIDefs(phis)' = pd /\ stage' # "done"
    BY <1>2, <1>4
  <2> QED
    BY <2>2, <2>3 DEF CodeIsWritten
<1> QED
  BY <1>7, <1>8 DEF Wrote

\* What cleanup leaves of what an instruction's visit appends.
LEMMA EmittedGroups ==
  ASSUME Built, bb \in Blocks(fn.P), NEW e, ~e.marked, NEW f, ~f.marked
  PROVE  /\ Cleaned(out[bb] \o <<e>>) = Cleaned(out[bb]) \o <<e>>
         /\ Cleaned(out[bb] \o <<e, Original>>) = Cleaned(out[bb]) \o <<e>>
         /\ Cleaned(out[bb] \o <<e, f>>) = Cleaned(out[bb]) \o <<e, f>>
         /\ Cleaned(out[bb] \o <<e, f, Original>>) = Cleaned(out[bb]) \o <<e, f>>
<1>a. PICK s, o : s = out[bb] /\ o = Original
  OBVIOUS
<1>b. /\ s \in Seq(Entries(s)) /\ Sorted(s) /\ \A i \in DOMAIN s : s[i].at[2] \in Nat
  BY <1>a DEF Built, CodeInOrder
<1>c. o.marked
  BY <1>a DEF Original
<1>0. s = out[bb] /\ o = Original /\ o.marked /\ s \in Seq(Entries(s))
  BY <1>a, <1>b, <1>c
<1>1. PICK c : c = Cleaned(s)
  OBVIOUS
<1>2. c \in Seq(Entries(s))
  BY <1>b, <1>1, Cleaning DEF LeftOf
<1>3. PICK S : S = Entries(s) \cup {e, f, o}
  OBVIOUS
<1>4. s \in Seq(S) /\ c \in Seq(S) /\ e \in S /\ f \in S /\ o \in S
  BY <1>b, <1>2, <1>3
<1>5. /\ s \o <<e>> = Append(s, e) /\ s \o <<e, o>> = Append(Append(s, e), o)
      /\ s \o <<e, f>> = Append(Append(s, e), f)
      /\ s \o <<e, f, o>> = Append(Append(Append(s, e), f), o)
      /\ c \o <<e>> = Append(c, e) /\ c \o <<e, f>> = Append(Append(c, e), f)
  <2>1. /\ s \o <<e>> = Append(s, e) /\ s \o <<e, f>> = Append(Append(s, e), f)
        /\ s \o <<e, f, o>> = Append(Append(Append(s, e), f), o)
    BY <1>4, AppendedSingly
  <2>2. s \o <<e, o>> = Append(Append(s, e), o)
    BY <1>4, AppendedSingly
  <2>3. c \o <<e>> = Append(c, e) /\ c \o <<e, f>> = Append(Append(c, e), f)
    BY <1>4, AppendedSingly
  <2> QED
    BY <2>1, <2>2, <2>3
<1>6. PICK se : se = Append(s, e)
  OBVIOUS
<1>7. PICK sf : sf = Append(se, f)
  OBVIOUS
<1>8. se \in Seq(S) /\ sf \in Seq(S)
  BY <1>4, <1>6, <1>7
<1>9. Cleaned(se) = Append(c, e)
  BY <1>0, <1>1, <1>4, <1>6, CleanedSteps
<1>10. Cleaned(sf) = Append(Append(c, e), f)
  BY <1>0, <1>4, <1>7, <1>8, <1>9, CleanedSteps
<1>11. Cleaned(Append(se, o)) = Append(c, e) /\ Cleaned(Append(sf, o)) = Append(Append(c, e), f)
  BY <1>0, <1>4, <1>8, <1>9, <1>10, CleanedSteps
<1> QED
  BY <1>0, <1>1, <1>5, <1>6, <1>7, <1>9, <1>10, <1>11

LEMMA RewrittenHere ==
  ASSUME IInv, AtInst
  PROVE  LET r == Rewritten(fn.P, bb, idx, vals)
             ssa1 == Version("ssa", inst.c[1])
             ssa2 == Version("ssa", inst.c[2])
         IN  /\ inst.op = "MutStructWrite" => r = <<Emitted("StructWrite", << >>, << >>)>>
             /\ inst.op \in WriteOps => r = <<Emitted(EffectOf[inst.op], <<ssa1>>, <<vals[1]>>)>>
             /\ inst.op = "MutSeqInsertSeq" => r = <<Emitted("SeqInsertSeq", <<ssa1>>, <<vals[1], vals[2]>>)>>
             /\ inst.op = "MutSeqAppend" =>
                  r = <<Emitted("End", << >>, << >>),
                        Emitted("SeqInsertSeq", <<ssa1>>, <<vals[1], vals[2]>>)>>
             /\ inst.op = "MutSeqSwap" => r = <<Emitted("SeqSwap", <<ssa1, ssa2>>, <<vals[1], vals[2]>>)>>
             /\ inst.op = "MutSeqSplit" =>
                  r = <<Emitted("SeqCopy", <<Version("copy", inst.def)>>, <<vals[1]>>),
                        Emitted("SeqRemove", <<ssa1>>, <<vals[1]>>)>>
             /\ inst.op = "AssocHas" /\ ~UsePHIs => r = <<Emitted("AssocHas", << >>, <<Orig(1)>>)>>
             /\ UsePHIs /\ inst.op \in ReadOps \cup {"AssocHas"} =>
                  r = <<Emitted(inst.op, Result, vals),
                        Emitted("UsePHI", <<Version("use", inst.c[1])>>, vals)>>
             /\ inst.op \notin MutOps \cup {"AssocHas"} /\ ~(UsePHIs /\ inst.op \in ReadOps) =>
                  r = <<Emitted(inst.op, Result, vals)>>
<1>1. inst = fn.P.code[bb][idx]
  BY AtInstFacts
<1>2. StandsFor(Rewritten(fn.P, bb, idx, vals), fn.P.code[bb][idx], bb, idx, vals,
                IF fn.P.code[bb][idx].def = NoName THEN << >> ELSE <<Src(fn.P, fn.P.code[bb][idx].def)>>,
                Src(fn.P, fn.P.code[bb][idx].c[1]))
  BY RewrittenForms
<1>3. StandsFor(Rewritten(fn.P, bb, idx, vals), inst, bb, idx, vals, Result, Orig(1))
  BY <1>2 DEF Result, Orig, inst
<1>4. \A op, defs, args : Emitted(op, defs, args) = Stands(bb, idx, op, defs, args)
  BY DEF Emitted, Stands
<1>5. \A k, n : Version(k, n) = Val(k, n, bb, idx)
  BY DEF Version
<1> HIDE DEF inst
<1> QED
  BY <1>3, <1>4, <1>5 DEF StandsFor

LEMMA WriteWrote ==
  ASSUME IInv, Built, Tracked, Wrote,
         \/ VisitMutIndexWrite \/ VisitMutAssocWrite \/ VisitMutSeqInsert
         \/ VisitMutSeqRemove \/ VisitMutSeqSwapWithin \/ VisitMutAssocInsert
         \/ VisitMutAssocRemove
  PROVE  Wrote'
<1>1. Ready(WriteOps) /\ NewVersion(EffectOf[inst.op])
  BY DEF VisitMutIndexWrite, VisitMutAssocWrite, VisitMutSeqInsert, VisitMutSeqRemove,
         VisitMutSeqSwapWithin, VisitMutAssocInsert, VisitMutAssocRemove, Ready, WriteOps, EffectOf
<1>2. AtInst /\ inst.op \in WriteOps /\ Len(vals) = Len(Resolved(inst))
  BY <1>1 DEF Ready
<1>3. PICK e : e = Emitted(EffectOf[inst.op], <<Version("ssa", inst.c[1])>>, <<vals[1]>>)
  OBVIOUS
<1>4. Emit(<<e, Original>>)
  BY <1>1, <1>3 DEF NewVersion
<1>5. bb \in Blocks(fn.P) /\ inst = fn.P.code[bb][idx]
  BY <1>2, AtInstFacts
<1>6. ~e.marked
  BY <1>3 DEF Emitted
<1>7. Rewritten(fn.P, bb, idx, vals) = <<e>>
  BY <1>2, <1>3, RewrittenHere
<1>8. Cleaned(out[bb] \o <<e, Original>>) = Cleaned(out[bb]) \o <<e>>
  BY <1>5, <1>6, EmittedGroups
<1> QED
  BY <1>2, <1>4, <1>7, <1>8, EmitWrote

LEMMA PairWrote ==
  ASSUME IInv, Built, Tracked, Wrote, VisitMutSeqInsertSeq \/ VisitMutSeqAppend \/ VisitMutSeqSwap
  PROVE  Wrote'
<1>1. Ready(PairOps) /\ inst.op \in {"MutSeqInsertSeq", "MutSeqAppend", "MutSeqSwap"}
  BY DEF VisitMutSeqInsertSeq, VisitMutSeqAppend, VisitMutSeqSwap, Ready, PairOps
<1>2. AtInst /\ Len(vals) = Len(Resolved(inst))
  BY <1>1 DEF Ready
<1>3. bb \in Blocks(fn.P) /\ inst = fn.P.code[bb][idx]
  BY <1>2, AtInstFacts
<1>4. PICK e, f, g : /\ e = Emitted("SeqInsertSeq", <<Version("ssa", inst.c[1])>>, <<vals[1], vals[2]>>)
                     /\ f = Emitted("End", << >>, << >>)
                     /\ g = Emitted("SeqSwap", <<Version("ssa", inst.c[1]), Version("ssa", inst.c[2])>>,
                                    <<vals[1], vals[2]>>)
  OBVIOUS
<1>5. ~e.marked /\ ~f.marked /\ ~g.marked
  BY <1>4 DEF Emitted
<1>6. CASE VisitMutSeqInsertSeq
  <2>1. inst.op = "MutSeqInsertSeq" /\ Emit(<<e, Original>>)
    BY <1>4, <1>6 DEF VisitMutSeqInsertSeq, Ready
  <2>2. Rewritten(fn.P, bb, idx, vals) = <<e>>
    BY <1>2, <1>4, <2>1, RewrittenHere
  <2>3. Cleaned(out[bb] \o <<e, Original>>) = Cleaned(out[bb]) \o <<e>>
    BY <1>3, <1>5, EmittedGroups
  <2> QED
    BY <1>2, <2>1, <2>2, <2>3, EmitWrote
<1>7. CASE VisitMutSeqAppend
  <2>1. inst.op = "MutSeqAppend" /\ Emit(<<f, e, Original>>)
    BY <1>4, <1>7 DEF VisitMutSeqAppend, Ready
  <2>2. Rewritten(fn.P, bb, idx, vals) = <<f, e>>
    BY <1>2, <1>4, <2>1, RewrittenHere
  <2>3. Cleaned(out[bb] \o <<f, e, Original>>) = Cleaned(out[bb]) \o <<f, e>>
    BY <1>3, <1>5, EmittedGroups
  <2> QED
    BY <1>2, <2>1, <2>2, <2>3, EmitWrote
<1>8. CASE VisitMutSeqSwap
  <2>1. inst.op = "MutSeqSwap" /\ Emit(<<g, Original>>)
    BY <1>4, <1>8 DEF VisitMutSeqSwap, Ready
  <2>2. Rewritten(fn.P, bb, idx, vals) = <<g>>
    BY <1>2, <1>4, <2>1, RewrittenHere
  <2>3. Cleaned(out[bb] \o <<g, Original>>) = Cleaned(out[bb]) \o <<g>>
    BY <1>3, <1>5, EmittedGroups
  <2> QED
    BY <1>2, <2>1, <2>2, <2>3, EmitWrote
<1> QED
  BY <1>6, <1>7, <1>8

LEMMA SplitWrote ==
  ASSUME IInv, Built, Tracked, Wrote, VisitMutSeqSplit \/ VisitMutStructWrite
  PROVE  Wrote'
<1>1. AtInst /\ Len(vals) = Len(Resolved(inst))
  BY DEF VisitMutSeqSplit, VisitMutStructWrite, Ready
<1>2. bb \in Blocks(fn.P) /\ inst = fn.P.code[bb][idx]
  BY <1>1, AtInstFacts
<1>3. PICK e, f, g : /\ e = Emitted("SeqCopy", <<Version("copy", inst.def)>>, <<vals[1]>>)
                     /\ f = Emitted("SeqRemove", <<Version("ssa", inst.c[1])>>, <<vals[1]>>)
                     /\ g = Emitted("StructWrite", << >>, << >>)
  OBVIOUS
<1>4. ~e.marked /\ ~f.marked /\ ~g.marked
  BY <1>3 DEF Emitted
<1>5. CASE VisitMutSeqSplit
  <2>1. inst.op = "MutSeqSplit" /\ Emit(<<e, f, Original>>)
    BY <1>3, <1>5 DEF VisitMutSeqSplit, Ready
  <2>2. Rewritten(fn.P, bb, idx, vals) = <<e, f>>
    BY <1>1, <1>3, <2>1, RewrittenHere
  <2>3. Cleaned(out[bb] \o <<e, f, Original>>) = Cleaned(out[bb]) \o <<e, f>>
    BY <1>2, <1>4, EmittedGroups
  <2> QED
    BY <1>1, <2>1, <2>2, <2>3, EmitWrote
<1>6. CASE VisitMutStructWrite
  <2>1. inst.op = "MutStructWrite" /\ Emit(<<g, Original>>)
    BY <1>3, <1>6 DEF VisitMutStructWrite, Ready
  <2>2. Rewritten(fn.P, bb, idx, vals) = <<g>>
    BY <1>1, <1>3, <2>1, RewrittenHere
  <2>3. Cleaned(out[bb] \o <<g, Original>>) = Cleaned(out[bb]) \o <<g>>
    BY <1>2, <1>4, EmittedGroups
  <2> QED
    BY <1>1, <2>1, <2>2, <2>3, EmitWrote
<1> QED
  BY <1>5, <1>6

LEMMA ReadWrote ==
  ASSUME IInv, Built, Tracked, Wrote, VisitRead \/ VisitAssocHas \/ VisitInstruction
  PROVE  Wrote'
<1>1. AtInst /\ Len(vals) = Len(Resolved(inst))
  BY DEF VisitRead, VisitAssocHas, VisitInstruction, Ready
<1>2. bb \in Blocks(fn.P)
  BY <1>1, AtInstFacts
<1>3. PICK e, f, g : /\ e = Emitted(inst.op, Result, vals)
                     /\ f = Emitted("UsePHI", <<Version("use", inst.c[1])>>, vals)
                     /\ g = Emitted("AssocHas", << >>, <<Orig(1)>>)
  OBVIOUS
<1>4. ~e.marked /\ ~f.marked /\ ~g.marked
  BY <1>3 DEF Emitted
<1>5. ASSUME Emit(<<e, f>>), UsePHIs, inst.op \in ReadOps \cup {"AssocHas"}
      PROVE  Wrote'
  <2>1. Rewritten(fn.P, bb, idx, vals) = <<e, f>>
    BY <1>1, <1>3, <1>5, RewrittenHere
  <2>2. Cleaned(out[bb] \o <<e, f>>) = Cleaned(out[bb]) \o <<e, f>>
    BY <1>2, <1>4, EmittedGroups
  <2> QED
    BY <1>1, <1>5, <2>1, <2>2, EmitWrote
<1>6. ASSUME Emit(<<e>>), inst.op \notin MutOps \cup {"AssocHas"}, ~(UsePHIs /\ inst.op \in ReadOps)
      PROVE  Wrote'
  <2>1. Rewritten(fn.P, bb, idx, vals) = <<e>>
    BY <1>1, <1>3, <1>6, RewrittenHere
  <2>2. Cleaned(out[bb] \o <<e>>) = Cleaned(out[bb]) \o <<e>>
    BY <1>2, <1>4, EmittedGroups
  <2> QED
    BY <1>1, <1>6, <2>1, <2>2, EmitWrote
<1>7. CASE VisitRead
  <2>1. inst.op \in ReadOps /\ Emit(IF UsePHIs THEN <<e, f>> ELSE <<e>>)
    BY <1>3, <1>7 DEF VisitRead, Ready
  <2>2. inst.op \notin MutOps \cup {"AssocHas"}
    BY <2>1 DEF ReadOps, MutOps, WriteOps, PairOps
  <2>3. CASE UsePHIs
    BY <1>5, <2>1, <2>3
  <2>4. CASE ~UsePHIs
    BY <1>6, <2>1, <2>2, <2>4
  <2> QED
    BY <2>3, <2>4
<1>8. CASE VisitAssocHas
  <2>1. inst.op = "AssocHas"
    BY <1>8 DEF VisitAssocHas, Ready
  <2>2. Result = << >>
    BY <1>1, <2>1, SignedHere DEF Result
  <2>3. CASE UsePHIs
    <3>1. Emit(<<e, f>>)
      BY <1>3, <1>8, <2>1, <2>2, <2>3 DEF VisitAssocHas
    <3> QED
      BY <1>5, <2>1, <2>3, <3>1
  <2>4. CASE ~UsePHIs
    <3>1. Emit(<<g>>)
      BY <1>3, <1>8, <2>4 DEF VisitAssocHas
    <3>2. Rewritten(fn.P, bb, idx, vals) = <<g>>
      BY <1>1, <1>3, <2>1, <2>4, RewrittenHere
    <3>3. Cleaned(out[bb] \o <<g>>) = Cleaned(out[bb]) \o <<g>>
      BY <1>2, <1>4, EmittedGroups
    <3> QED
      BY <1>1, <3>1, <3>2, <3>3, EmitWrote
  <2> QED
    BY <2>3, <2>4
<1>9. CASE VisitInstruction
  <2>1. inst.op \notin MutOps \cup ReadOps \cup {"AssocHas"}
    BY <1>9 DEF VisitInstruction
  <2>2. Emit(<<e>>)
    BY <1>3, <1>9 DEF VisitInstruction, Result
  <2> QED
    BY <1>6, <2>1, <2>2
<1> QED
  BY <1>7, <1>8, <1>9

\* The other steps: none writes, but the last erases what is marked.
LEMMA NamesWrote ==
  ASSUME IInv, Built, Wrote, (\E n \in names_left : StartName(n)) \/ (\E b \in worklist : InsertPHIs(b))
  PROVE  Wrote'
<1>1. /\ stage = "names" /\ stage' = "names" /\ UNCHANGED <<fn, bb, seen, idx, out>>
  BY DEF StartName, InsertPHIs, visitVars
<1>2. seen = {1} /\ bb = 1
  BY <1>1 DEF Built, Traversal
<1>3. \A b \in Blocks(fn.P) : VisitedTo[b] = 1 /\ VisitedTo'[b] = 1
  BY <1>1, <1>2 DEF VisitedTo
<1>4. \A b \in Blocks(fn.P) : Len(fn.P.code[b]) \in Nat
  BY FnFacts DEF WellFormed, WellTyped
<1>5. \A b \in Blocks(fn.P) : \A pd : Written(fn.P, fn.dom, pd, b)[0] = << >>
  BY <1>4, WrittenIs
<1>6. VisitedTo[1] - 1 = 0 => \A b \in Blocks(fn.P) : VisitedTo[b] - 1 = 0 /\ VisitedTo'[b] - 1 = 0
  BY <1>3
<1>7. \A b \in Blocks(fn.P) : Cleaned(out[b]) = << >>
  <2>1. \A b \in Blocks(fn.P) : VisitedTo[b] - 1 = 0
    BY <1>3
  <2> QED
    BY <1>1, <1>5, <2>1 DEF Wrote, CodeIsWritten
<1>8. CodeIsWritten'
  <2>1. \A b \in Blocks(fn.P) : VisitedTo'[b] - 1 = 0
    BY <1>3
  <2>2. \A b \in Blocks(fn.P) : Written(fn.P, fn.dom, PHIDefs(phis'), b)[VisitedTo'[b] - 1] = << >>
    BY <1>5, <2>1
  <2>3. fn' = fn /\ out' = out /\ stage' # "done" /\ PHIDefs(phis)' = PHIDefs(phis')
    BY <1>1 DEF PHIDefs
  <2> QED
    BY <1>7, <2>2, <2>3 DEF CodeIsWritten
<1>9. OperandsAreLatest'
  <2>1. \A b \in Blocks(fn.P) : 1 .. VisitedTo'[b] - 1 = {}
    BY <1>3
  <2>2. fn' = fn
    BY <1>1
  <2> QED
    BY <2>1, <2>2 DEF OperandsAreLatest
<1> QED
  BY <1>8, <1>9 DEF Wrote

LEMMA CleanupWrote ==
  ASSUME IInv, Built, Wrote, Cleanup
  PROVE  Wrote'
<1>1. /\ stage = "cleanup" /\ stage' = "done" /\ UNCHANGED <<fn, phis, bb, seen, idx>>
      /\ \A b \in Blocks(fn.P) : out'[b] = Cleaned(out[b])
  BY DEF Cleanup, Built, visitVars
<1>2. VisitedTo' = VisitedTo
  BY <1>1 DEF VisitedTo
<1>3. PICK pd, l : pd = PHIDefs(phis) /\ l = VisitedTo
  OBVIOUS
<1>4. fn' = fn /\ PHIDefs(phis)' = pd /\ VisitedTo' = l
  BY <1>1, <1>2, <1>3
<1>5. OperandsAreLatest'
  <2>1. \A b \in Blocks(fn.P) : \A i \in 1 .. l[b] - 1 :
          \A j \in DOMAIN Resolved(fn.P.code[b][i]) :
             Latest(fn.P, fn.dom, pd, Resolved(fn.P.code[b][i])[j], <<b, i>>,
                    Operands(fn.P, fn.dom, pd, b, i)[j])
    BY <1>3 DEF Wrote, OperandsAreLatest, LatestFor
  <2> QED
    BY <1>4, <2>1 DEF OperandsAreLatest, LatestFor
<1>6. CodeIsWritten'
  <2>1. \A b \in Blocks(fn.P) : Cleaned(out[b]) = Written(fn.P, fn.dom, pd, b)[l[b] - 1]
    BY <1>1, <1>3 DEF Wrote, CodeIsWritten
  <2> QED
    BY <1>1, <1>4, <2>1 DEF CodeIsWritten
<1> QED
  BY <1>5, <1>6 DEF Wrote

\* While no instruction is visited VisitedTo stays.
LEMMA VisitedStays ==
  ASSUME IInv, Built, Tracked, Wrote, fn' = fn, out' = out,
         \/ BeginRename \/ FollowChain \/ EndChain \/ PHIStep \/ SeekOperand \/ EndInstructions
         \/ EdgeStep \/ UNCHANGED vars
  PROVE  VisitedTo' = VisitedTo /\ (stage' = "done" <=> stage = "done")
<1>1. CASE BeginRename
  BY <1>1 DEF BeginRename, VisitedTo
<1>2. CASE FollowChain \/ EndChain \/ SeekOperand \/ UNCHANGED vars
  BY <1>2 DEF FollowChain, EndChain, SeekOperand, VisitedTo, visitVars, vars
<1>3. CASE PHIStep
  <2>1. CASE EndPHIs
    BY <2>1 DEF EndPHIs, VisitedTo
  <2>2. CASE ~EndPHIs
    BY <1>3, <2>2 DEF PHIStep, VisitSourcePHI, SeekPHI, VisitInsertedPHI, VisitedTo
  <2> QED
    BY <2>1, <2>2
<1>4. CASE EndInstructions
  <2>1. Len(fn.P.code[bb]) \in Nat /\ idx \in Nat
    BY FnFacts DEF WellFormed, WellTyped, IInv, TypeOK
  <2>2. idx <= Len(fn.P.code[bb]) + 1 /\ idx > Len(fn.P.code[bb])
    BY <1>4 DEF EndInstructions, Built, Traversal
  <2>3. idx = Len(fn.P.code[bb]) + 1
    BY <2>1, <2>2
  <2> QED
    BY <1>4, <2>3 DEF VisitedTo, EndInstructions
<1>5. CASE EdgeStep
  <2>1. CASE NextBlock
    <3>1. PICK b \in NextInPreorder(fn.P, fn.dom, seen, bb) : bb' = b /\ seen' = seen \cup {b}
      BY <2>1 DEF NextBlock
    <3>2. b \in Blocks(fn.P) \ seen /\ bb \in seen
      BY <3>1 DEF NextInPreorder, IInv, TypeOK
    <3> QED
      BY <2>1, <3>1, <3>2 DEF NextBlock, VisitedTo
  <2>2. CASE EndTraversal
    BY <2>2 DEF EndTraversal, VisitedTo, visitVars
  <2>3. CASE SetIncoming \/ \E slot \in todo : SeekIncoming(slot)
    BY <2>3 DEF SetIncoming, SeekIncoming, VisitedTo
  <2> QED
    BY <1>5, <2>1, <2>2, <2>3 DEF EdgeStep
<1> QED
  BY <1>1, <1>2, <1>3, <1>4, <1>5

\* Filling in a slot leaves what PHIs define.
LEMMA SetIncomingDefs ==
  ASSUME IInv, SetIncoming
  PROVE  PHIDefs(phis') = PHIDefs(phis)
<1> DEFINE Put(q) == IF q.def = focus[2] THEN [q EXCEPT !.in[bb] = vals[1]] ELSE q
<1>1. DOMAIN phis = Blocks(fn.P) /\ \A b \in Blocks(fn.P) : phis[b] \subseteq PHI(b)
  BY DEF IInv, TypeOK
<1>2. /\ DOMAIN phis' = DOMAIN phis
      /\ \A b \in DOMAIN phis : phis'[b] = IF b = focus[1] THEN {Put(q) : q \in phis[b]} ELSE phis[b]
  BY DEF SetIncoming
<1>3. ASSUME NEW b \in Blocks(fn.P), NEW q \in phis[b] PROVE Put(q).def = q.def
  BY <1>1 DEF PHI
<1> HIDE DEF Put
<1>4. ASSUME NEW b \in Blocks(fn.P) PROVE {q.def : q \in phis'[b]} = {q.def : q \in phis[b]}
  <2>1. CASE b = focus[1]
    <3>1. {q.def : q \in {Put(r) : r \in phis[b]}} = {Put(r).def : r \in phis[b]}
      OBVIOUS
    <3>2. {Put(r).def : r \in phis[b]} = {r.def : r \in phis[b]}
      BY <1>3
    <3> QED
      BY <1>1, <1>2, <2>1, <3>1, <3>2
  <2>2. CASE b # focus[1]
    BY <1>1, <1>2, <2>2
  <2> QED
    BY <2>1, <2>2
<1> QED
  BY <1>1, <1>2, <1>4 DEF PHIDefs

LEMMA OtherWrote ==
  ASSUME IInv, Built, Tracked, Wrote,
         \/ BeginRename \/ FollowChain \/ EndChain \/ PHIStep \/ SeekOperand \/ EndInstructions
         \/ EdgeStep \/ UNCHANGED vars
  PROVE  Wrote'
<1>1. fn' = fn /\ out' = out
  <2>1. CASE BeginRename \/ FollowChain \/ EndChain \/ SeekOperand \/ EndInstructions \/ UNCHANGED vars
    BY <2>1 DEF BeginRename, FollowChain, EndChain, SeekOperand, EndInstructions, vars
  <2>2. CASE PHIStep
    BY <2>2 DEF PHIStep, VisitSourcePHI, SeekPHI, VisitInsertedPHI, EndPHIs
  <2>3. CASE EdgeStep
    BY <2>3 DEF EdgeStep, SeekIncoming, SetIncoming, NextBlock, EndTraversal
  <2> QED
    BY <2>1, <2>2, <2>3
<1>2. PHIDefs(phis') = PHIDefs(phis)
  <2>1. CASE SetIncoming
    BY <2>1, SetIncomingDefs
  <2>2. CASE ~SetIncoming
    <3>1. phis' = phis
      <4>1. CASE BeginRename \/ FollowChain \/ EndChain \/ SeekOperand \/ EndInstructions \/ UNCHANGED vars
        BY <4>1 DEF BeginRename, FollowChain, EndChain, SeekOperand, EndInstructions, vars
      <4>2. CASE PHIStep
        BY <4>2 DEF PHIStep, VisitSourcePHI, SeekPHI, VisitInsertedPHI, EndPHIs
      <4>3. CASE EdgeStep
        BY <2>2, <4>3 DEF EdgeStep, SeekIncoming, NextBlock, EndTraversal
      <4> QED
        BY <4>1, <4>2, <4>3
    <3> QED
      BY <3>1
  <2> QED
    BY <2>1, <2>2
<1>3. VisitedTo' = VisitedTo /\ (stage' = "done" <=> stage = "done")
  BY <1>1, VisitedStays
<1> QED
  BY <1>1, <1>2, <1>3, WroteKept

LEMMA NextWrote == IInv /\ Built /\ Tracked /\ Wrote /\ [Next]_vars => Wrote'
<1> SUFFICES ASSUME IInv, Built, Tracked, Wrote, [Next]_vars PROVE Wrote'
  OBVIOUS
<1>1. CASE \/ BeginRename \/ FollowChain \/ EndChain \/ PHIStep \/ SeekOperand \/ EndInstructions
           \/ EdgeStep \/ UNCHANGED vars \/ Terminating
  BY <1>1, OtherWrote DEF Terminating
<1>2. CASE (\E n \in names_left : StartName(n)) \/ \E b \in worklist : InsertPHIs(b)
  BY <1>2, NamesWrote
<1>3. CASE VisitSequence
  BY <1>3, WriteWrote, PairWrote, SplitWrote DEF VisitSequence
<1>4. CASE VisitAssoc
  BY <1>4, WriteWrote, ReadWrote DEF VisitAssoc
<1>5. CASE VisitAccess
  BY <1>5, WriteWrote, SplitWrote, ReadWrote DEF VisitAccess
<1>6. CASE VisitInstruction
  BY <1>6, ReadWrote
<1>7. CASE Cleanup
  BY <1>7, CleanupWrote
<1> QED
  BY <1>1, <1>2, <1>3, <1>4, <1>5, <1>6, <1>7 DEF Next, Pass

-----------------------------------------------------------------------------
(* Running code. *)

\* The states that code leads to from s, instruction by instruction, exist.
SSARuns(w, m, s, code) ==
  w = [i \in 0 .. m |-> IF i = 0 THEN s ELSE SSAInst(w[i - 1], code[i])]

LEMMA SSARunExists ==
  ASSUME NEW m \in Nat, NEW s, NEW code
  PROVE  \E w : SSARuns(w, m, s, code)
<1> DEFINE Runs(w, n) == w = [i \in 0 .. n |-> IF i = 0 THEN s ELSE SSAInst(w[i - 1], code[i])]
           Q == {n \in Nat : \E w : Runs(w, n)}
<1>1. 0 \in Q
  <2>1. Runs([i \in 0 .. 0 |-> s], 0)
    OBVIOUS
  <2> QED
    BY <2>1
<1>2. ASSUME NEW n \in 1 .. m, n - 1 \in Q PROVE n \in Q
  <2>1. PICK g : Runs(g, n - 1)
    BY <1>2
  <2> DEFINE f == [i \in 0 .. n |-> IF i = n THEN SSAInst(g[n - 1], code[n]) ELSE g[i]]
  <2>2. \A i \in 0 .. n - 1 : g[i] = IF i = 0 THEN s ELSE SSAInst(g[i - 1], code[i])
    BY <2>1
  <2>3. /\ f = [i \in 0 .. n |-> f[i]] /\ f[n] = SSAInst(g[n - 1], code[n])
        /\ \A i \in 0 .. n - 1 : f[i] = g[i]
    OBVIOUS
  <2> HIDE DEF f
  <2>4. \A i \in 0 .. n : i # n => i \in 0 .. n - 1 /\ (i # 0 => i - 1 \in 0 .. n - 1)
    OBVIOUS
  <2>5. ASSUME NEW i \in 0 .. n
        PROVE  f[i] = IF i = 0 THEN s ELSE SSAInst(f[i - 1], code[i])
    <3>1. CASE i = n
      <4>1. n - 1 \in 0 .. n - 1 /\ n # 0
        OBVIOUS
      <4> QED
        BY <2>3, <3>1, <4>1
    <3>2. CASE i # n
      BY <2>2, <2>3, <2>4, <3>2
    <3> QED
      BY <3>1, <3>2
  <2>6. Runs(f, n)
    BY <2>3, <2>5
  <2>7. n \in Nat
    OBVIOUS
  <2> QED
    BY <2>6, <2>7
<1> HIDE DEF Q
<1>3. m \in Q
  BY <1>1, <1>2, CountUp
<1> QED
  BY <1>3 DEF Q, SSARuns

\* f are the states.
SSASteps(f, m, s, code) ==
  f[0] = s /\ \A i \in 1 .. m : f[i] = SSAInst(f[i - 1], code[i])

LEMMA SSACodeIs ==
  ASSUME NEW s, NEW code, NEW m \in Nat, m = Len(code)
  PROVE  \E f : SSACode(s, code) = f[m] /\ SSASteps(f, m, s, code)
<1> DEFINE f == CHOOSE w : w = [i \in 0 .. Len(code) |->
                              IF i = 0 THEN s ELSE SSAInst(w[i - 1], code[i])]
<1>1. \E w : w = [i \in 0 .. m |-> IF i = 0 THEN s ELSE SSAInst(w[i - 1], code[i])]
  <2>1. \E w : SSARuns(w, m, s, code)
    BY SSARunExists
  <2> QED
    BY <2>1 DEF SSARuns
<1>2. f = [i \in 0 .. m |-> IF i = 0 THEN s ELSE SSAInst(f[i - 1], code[i])]
  BY <1>1
<1>3. SSACode(s, code) = f[m]
  BY DEF SSACode
<1> HIDE DEF f
<1>4. /\ 0 \in 0 .. m /\ \A i \in 1 .. m : i \in 0 .. m /\ i # 0
  OBVIOUS
<1>5. SSASteps(f, m, s, code)
  BY <1>2, <1>4 DEF SSASteps
<1> QED
  BY <1>3, <1>5

LEMMA SSACodeSteps ==
  ASSUME NEW S, NEW s, NEW c \in Seq(S), NEW x \in S
  PROVE  SSACode(s, Append(c, x)) = SSAInst(SSACode(s, c), x)
<1>1. PICK w, m : w = Append(c, x) /\ m = Len(c)
  OBVIOUS
<1>2. m \in Nat /\ m + 1 \in Nat /\ Len(w) = m + 1 /\ w[m + 1] = x /\ \A i \in 1 .. m : w[i] = c[i]
  BY <1>1
<1>3. PICK f : /\ SSACode(s, c) = f[m] /\ f[0] = s
               /\ \A i \in 1 .. m : f[i] = SSAInst(f[i - 1], c[i])
  <2>1. \E f : SSACode(s, c) = f[m] /\ SSASteps(f, m, s, c)
    BY <1>1, <1>2, SSACodeIs
  <2> QED
    BY <2>1 DEF SSASteps
<1>4. PICK g : /\ SSACode(s, w) = g[m + 1] /\ g[0] = s
               /\ \A i \in 1 .. m + 1 : g[i] = SSAInst(g[i - 1], w[i])
  <2>1. PICK k : k = m + 1
    OBVIOUS
  <2>2. k \in Nat /\ k = Len(w)
    BY <1>2, <2>1
  <2>3. \E g : SSACode(s, w) = g[k] /\ SSASteps(g, k, s, w)
    BY <2>2, SSACodeIs
  <2> QED
    BY <2>1, <2>3 DEF SSASteps
<1> DEFINE Q == {n \in 0 .. m : f[n] = g[n]}
<1>5. /\ \A i \in 1 .. m : i \in 1 .. m + 1 /\ i \in 0 .. m
      /\ m + 1 \in 1 .. m + 1 /\ (m + 1) - 1 = m /\ m \in 0 .. m /\ 0 \in 0 .. m
  BY <1>2
<1>6. 0 \in Q
  BY <1>3, <1>4, <1>5
<1>7. ASSUME NEW n \in 1 .. m, n - 1 \in Q PROVE n \in Q
  <2>1. f[n] = SSAInst(f[n - 1], c[n])
    BY <1>3
  <2>2. g[n] = SSAInst(g[n - 1], w[n])
    BY <1>4, <1>5
  <2>3. w[n] = c[n] /\ f[n - 1] = g[n - 1]
    BY <1>2, <1>7
  <2> QED
    BY <1>5, <2>1, <2>2, <2>3
<1>8. \A n \in 0 .. m : n \in Q
  <2> HIDE DEF Q
  <2> QED
    BY <1>2, <1>6, <1>7, CountUp
<1>9. g[m + 1] = SSAInst(g[m], x)
  <2>1. g[m + 1] = SSAInst(g[(m + 1) - 1], w[m + 1])
    BY <1>4, <1>5
  <2> QED
    BY <1>2, <1>5, <2>1
<1>10. f[m] = g[m]
  BY <1>5, <1>8
<1> QED
  BY <1>1, <1>3, <1>4, <1>9, <1>10

LEMMA SSACodeEmpty ==
  ASSUME NEW s PROVE SSACode(s, << >>) = s
<1>1. PICK c, m : c = << >> /\ m = 0
  OBVIOUS
<1>2. m \in Nat /\ m = Len(c)
  BY <1>1
<1>3. PICK f : SSACode(s, c) = f[m] /\ SSASteps(f, m, s, c)
  BY <1>2, SSACodeIs
<1> QED
  BY <1>1, <1>3 DEF SSASteps

\* The code that stands for one instruction: one piece or two.
LEMMA SSACodeGroup ==
  ASSUME NEW S, NEW s, NEW c \in Seq(S), NEW x \in S, NEW y \in S
  PROVE  /\ SSACode(s, c \o <<x>>) = SSAInst(SSACode(s, c), x)
         /\ SSACode(s, c \o <<x, y>>) = SSAInst(SSAInst(SSACode(s, c), x), y)
<1>1. c \o <<x>> = Append(c, x) /\ c \o <<x, y>> = Append(Append(c, x), y)
  BY AppendedSingly
<1>2. Append(c, x) \in Seq(S)
  OBVIOUS
<1>3. SSACode(s, Append(c, x)) = SSAInst(SSACode(s, c), x)
  BY SSACodeSteps
<1>4. SSACode(s, Append(Append(c, x), y)) = SSAInst(SSACode(s, Append(c, x)), y)
  <2>1. PICK d : d = Append(c, x)
    OBVIOUS
  <2>2. d \in Seq(S)
    BY <1>2, <2>1
  <2>3. SSACode(s, Append(d, y)) = SSAInst(SSACode(s, d), y)
    BY <2>2, SSACodeSteps
  <2> QED
    BY <2>1, <2>3
<1> QED
  BY <1>1, <1>3, <1>4

\* The mutable program's states in a block, before and after each instruction.
MutRuns(f, s, b) ==
  /\ f[0] = s
  /\ \A i \in 1 .. Len(fn.P.code[b]) : f[i] = MutInst(f[i - 1], fn.P.code[b][i], <<b, i>>)

MutStates(w, m, s, b) ==
  w = [i \in 0 .. m |-> IF i = 0 THEN s ELSE MutInst(w[i - 1], fn.P.code[b][i], <<b, i>>)]

LEMMA MutRunExists ==
  ASSUME NEW m \in Nat, NEW s, NEW b
  PROVE  \E w : MutStates(w, m, s, b)
<1> DEFINE Step(s0, i) == MutInst(s0, fn.P.code[b][i], <<b, i>>)
           Runs(w, n) == w = [i \in 0 .. n |-> IF i = 0 THEN s ELSE Step(w[i - 1], i)]
           Q == {n \in Nat : \E w : Runs(w, n)}
<1> HIDE DEF Step
<1>1. 0 \in Q
  <2>1. Runs([i \in 0 .. 0 |-> s], 0)
    OBVIOUS
  <2> QED
    BY <2>1
<1>2. ASSUME NEW n \in 1 .. m, n - 1 \in Q PROVE n \in Q
  <2>1. PICK g : Runs(g, n - 1)
    BY <1>2
  <2> DEFINE f == [i \in 0 .. n |-> IF i = n THEN Step(g[n - 1], n) ELSE g[i]]
  <2>2. \A i \in 0 .. n - 1 : g[i] = IF i = 0 THEN s ELSE Step(g[i - 1], i)
    BY <2>1
  <2>3. f = [i \in 0 .. n |-> f[i]] /\ f[n] = Step(g[n - 1], n) /\ \A i \in 0 .. n - 1 : f[i] = g[i]
    OBVIOUS
  <2> HIDE DEF f
  <2>4. \A i \in 0 .. n : i # n => i \in 0 .. n - 1 /\ (i # 0 => i - 1 \in 0 .. n - 1)
    OBVIOUS
  <2>5. ASSUME NEW i \in 0 .. n
        PROVE  f[i] = IF i = 0 THEN s ELSE Step(f[i - 1], i)
    <3>1. CASE i = n
      <4>1. n - 1 \in 0 .. n - 1 /\ n # 0
        OBVIOUS
      <4> QED
        BY <2>3, <3>1, <4>1
    <3>2. CASE i # n
      BY <2>2, <2>3, <2>4, <3>2
    <3> QED
      BY <3>1, <3>2
  <2>6. Runs(f, n)
    BY <2>3, <2>5
  <2>7. n \in Nat
    OBVIOUS
  <2> QED
    BY <2>6, <2>7
<1> HIDE DEF Q
<1>3. m \in Q
  BY <1>1, <1>2, CountUp
<1> QED
  BY <1>3 DEF Q, Step, MutStates

LEMMA MutBlockIs ==
  ASSUME NEW s, NEW b, NEW p, Len(fn.P.code[b]) \in Nat
  PROVE  \E f : /\ MutRuns(f, IF p = 0 THEN s ELSE MutPHIs(s, b, p), b)
                /\ MutBlock(s, b, p) = f[Len(fn.P.code[b])]
<1> DEFINE m == Len(fn.P.code[b])
           s0 == IF p = 0 THEN s ELSE MutPHIs(s, b, p)
           f == CHOOSE w : w = [i \in 0 .. m |->
                  IF i = 0 THEN IF p = 0 THEN s ELSE MutPHIs(s, b, p)
                  ELSE MutInst(w[i - 1], fn.P.code[b][i], <<b, i>>)]
<1>1. \E w : w = [i \in 0 .. m |->
                    IF i = 0 THEN s0 ELSE MutInst(w[i - 1], fn.P.code[b][i], <<b, i>>)]
  <2> HIDE DEF s0
  <2>1. \E w : MutStates(w, m, s0, b)
    BY MutRunExists
  <2> QED
    BY <2>1 DEF MutStates
<1>2. f = [i \in 0 .. m |->
             IF i = 0 THEN IF p = 0 THEN s ELSE MutPHIs(s, b, p)
             ELSE MutInst(f[i - 1], fn.P.code[b][i], <<b, i>>)]
  BY <1>1
<1>3. MutBlock(s, b, p) = f[m]
  BY DEF MutBlock
<1> HIDE DEF f
<1>4. 0 \in 0 .. m /\ \A i \in 1 .. m : i \in 0 .. m /\ i # 0
  OBVIOUS
<1>5. f[0] = s0
  BY <1>2, <1>4
<1>6. \A i \in 1 .. m : f[i] = MutInst(f[i - 1], fn.P.code[b][i], <<b, i>>)
  BY <1>2, <1>4
<1> QED
  BY <1>3, <1>5, <1>6 DEF MutRuns

-----------------------------------------------------------------------------
(* What both programs know at a point. *)

HereOf(v, b, i) == v.blk = b /\ v.idx = i

\* Behind instruction i the latest version is what i made, or what it was before.
LEMMA LatestAfter ==
  ASSUME NEW P, NEW dom, NEW pd, Ground(P, dom, pd), NEW n \in Names(P),
         NEW b \in Blocks(P), NEW i \in Nat, NEW v, Latest(P, dom, pd, n, <<b, i + 1>>, v)
  PROVE  /\ \A w \in Versions(P, pd, n) : HereOf(w, b, i) => v = w
         /\ HereOf(v, b, i) \/ Latest(P, dom, pd, n, <<b, i>>, v)
<1>1. /\ WellShaped(P) /\ dom = Dominators(P) /\ b \in Nat /\ b # 0
      /\ v \in Versions(P, pd, n) /\ ReachesAt(dom, v, <<b, i + 1>>)
      /\ \A e \in Versions(P, pd, n) : ReachesAt(dom, e, <<b, i + 1>>) => UpTo(dom, e, v)
  BY DEF Ground, WellFormed, Latest, Blocks
<1>2. \A e \in Versions(P, pd, n) : Located(P, e)
  BY VersionFacts
<1>3. ASSUME NEW w \in Versions(P, pd, n), HereOf(w, b, i)
      PROVE  v = w
  <2>1. ReachesAt(dom, w, <<b, i + 1>>)
    BY <1>2, <1>3 DEF ReachesAt, Dominates, HereOf, Located
  <2>2. UpTo(dom, w, v)
    BY <1>1, <2>1
  <2>3. ASSUME Above(dom, w, v) PROVE FALSE
    <3>1. v.blk # 0 /\ ReachesAt(dom, w, <<v.blk, v.idx>>) /\ v.blk \in Blocks(P) /\ v.idx \in Nat
      BY <1>1, <1>2, <2>3 DEF Above, Located
    <3>2. ~IsArgument(v) /\ ~IsArgument(w)
      BY <1>1, <1>2, <1>3, <3>1 DEF Located, HereOf
    <3>3. v.blk = b => v.idx < i + 1 /\ i < v.idx
      BY <1>1, <1>3, <3>1, <3>2 DEF ReachesAt, Dominates, HereOf
    <3>4. v.blk # b => v.blk \in dom[b] /\ b \in dom[v.blk]
      BY <1>1, <1>3, <3>1, <3>2 DEF ReachesAt, Dominates, HereOf
    <3>5. v.blk = b
      BY <1>1, <3>1, <3>4, DominatorsOrdered
    <3> QED
      BY <3>1, <3>3, <3>5
  <2> QED
    BY <2>2, <2>3 DEF UpTo
<1>4. ASSUME ~HereOf(v, b, i)
      PROVE  Latest(P, dom, pd, n, <<b, i>>, v)
  <2>1. ReachesAt(dom, v, <<b, i>>)
    <3>1. v.idx \in Nat
      BY <1>1, <1>2 DEF Located
    <3> QED
      BY <1>1, <1>4, <3>1 DEF ReachesAt, Dominates, HereOf
  <2>2. ASSUME NEW e \in Versions(P, pd, n), ReachesAt(dom, e, <<b, i>>)
        PROVE  UpTo(dom, e, v)
    <3>1. e.idx \in Nat
      BY <1>2 DEF Located
    <3>2. ReachesAt(dom, e, <<b, i + 1>>)
      BY <2>2, <3>1 DEF ReachesAt, Dominates
    <3> QED
      BY <1>1, <3>2
  <2> QED
    BY <1>1, <2>1, <2>2 DEF Latest
<1> QED
  BY <1>3, <1>4

\* Both programs may use n at or behind the point.
Lively(P, dom, b, i, n) ==
  n \in Names(P) /\ b \in Wanted(P, n) /\ ReachesAt(dom, Src(P, n), <<b, i>>)

\* The values that stand for n at the point are bound to t.
Carries(P, dom, pd, env, b, i, n, t) ==
  /\ \A v : Latest(P, dom, pd, n, <<b, i>>, v) => Bound(env, v) = t
  /\ n \notin Splits(P) /\ AsDefined(P, n, b, i) => Bound(env, Src(P, n)) = t

\* The mutable state m and the immutable state s agree before instruction i of block b.
Sim(P, dom, pd, m, s, b, i) ==
  \/ m.ub
  \/ /\ m.obs = s.obs /\ \E k \in Nat : DOMAIN m.heap = 1 .. k
     /\ \A n : Lively(P, dom, b, i, n) =>
          n \in DOMAIN m.env /\ m.env[n] \in DOMAIN m.heap
     /\ \A n, l : Lively(P, dom, b, i, n) /\ Lively(P, dom, b, i, l) =>
          (m.env[n] = m.env[l] => n = l)
     /\ \A n : Lively(P, dom, b, i, n) =>
          \/ m.heap[m.env[n]] = Freed
          \/ Carries(P, dom, pd, s.env, b, i, n, m.heap[m.env[n]])

\* What is lively behind an instruction was lively before, or the instruction defines it.
LEMMA LivelyBefore ==
  ASSUME NEW P, NEW dom, NEW pd, Ground(P, dom, pd), NEW b \in Blocks(P),
         NEW i \in 1 .. Len(P.code[b]), NEW n, Lively(P, dom, b, i + 1, n)
  PROVE  /\ P.code[b][i].def = n \/ Lively(P, dom, b, i, n)
         /\ P.code[b][i].def = n => Src(P, n).blk = b /\ Src(P, n).idx = i
         /\ P.code[b][i].def # n => ~HereOf(Src(P, n), b, i)
<1>1. /\ WellFormed(P) /\ b \in Nat /\ b # 0 /\ i \in Nat /\ i # 0
      /\ n \in Names(P) /\ b \in Wanted(P, n) /\ ReachesAt(dom, Src(P, n), <<b, i + 1>>)
  BY DEF Ground, Blocks, Lively
<1>2. Src(P, n).blk = DefPos(P, n)[1] /\ Src(P, n).idx = DefPos(P, n)[2] /\ Src(P, n).idx \in Nat
  BY <1>1, SrcFields
<1>3. ASSUME P.code[b][i].def = n
      PROVE  Src(P, n).blk = b /\ Src(P, n).idx = i
  <2>1. n # NoName
    BY <1>1 DEF Names
  <2>2. DefPos(P, n) = <<b, i>>
    BY <1>1, <1>3, <2>1 DEF WellFormed, SingleDefs
  <2> QED
    BY <1>2, <2>2
<1>4. ASSUME P.code[b][i].def # n
      PROVE  ~HereOf(Src(P, n), b, i)
  BY <1>1, <1>4, SourceIs DEF HereOf
<1>5. ASSUME P.code[b][i].def # n
      PROVE  Lively(P, dom, b, i, n)
  BY <1>1, <1>2, <1>4, <1>5 DEF Lively, ReachesAt, Dominates, HereOf
<1> QED
  BY <1>3, <1>4, <1>5

\* What an instruction uses is lively before it.
LEMMA UsedIsLively ==
  ASSUME NEW P, NEW dom, NEW pd, Ground(P, dom, pd), NEW b \in Blocks(P),
         NEW i \in 1 .. Len(P.code[b]), NEW j \in 1 .. Len(P.code[b][i].c)
  PROVE  Lively(P, dom, b, i, P.code[b][i].c[j])
<1>1. WellFormed(P) /\ dom = Dominators(P)
  BY DEF Ground
<1>2. StrictUse(P, dom, P.code[b][i].c[j], <<b, i>>)
  BY <1>1 DEF WellFormed, Strict
<1>3. j \in DOMAIN P.code[b][i].c
  <2>1. P.code[b][i] \in [op : STRING, def : Names(P) \cup {NoName}, c : Seq(Names(P))]
    BY <1>1, InstType
  <2>2. P.code[b][i].c \in Seq(Names(P))
    BY <2>1
  <2> QED
    BY <2>2
<1>4. b \in Wanted(P, P.code[b][i].c[j])
  BY <1>3 DEF Wanted, HoldsUses, UsesName
<1> QED
  BY <1>2, <1>4 DEF Lively, StrictUse, ReachesAt

\* Instruction i turns m and s into m2 and s2: what it binds belongs to its own place.
Moved(P, dom, m, s, m2, s2, b, i) ==
  LET x == P.code[b][i]
      fresh == Cardinality(DOMAIN m.heap) + 1
  IN  /\ m2.obs = s2.obs
      /\ IF x.def = NoName THEN m2.env = m.env /\ DOMAIN m2.heap = DOMAIN m.heap
         ELSE /\ m2.env = Extend(m.env, x.def, fresh)
              /\ DOMAIN m2.heap = DOMAIN m.heap \cup {fresh}
              /\ Bound(s2.env, Renamed(P, x.def, b, i)) = m2.heap[fresh]
      /\ \A v : ~HereOf(v, b, i) => Bound(s2.env, v) = Bound(s.env, v)
      /\ \A n : Lively(P, dom, b, i, n) /\ n # x.def =>
           \/ m2.heap[m.env[n]] = Freed
           \/ /\ Mutates(P, b, i, n) /\ Redefines(x, n)
              /\ Bound(s2.env, Renamed(P, n, b, i)) = m2.heap[m.env[n]]
           \/ /\ m2.heap[m.env[n]] = m.heap[m.env[n]]
              /\ Redefines(x, n) => Bound(s2.env, Renamed(P, n, b, i)) = m2.heap[m.env[n]]

LEMMA VersionMade ==
  ASSUME NEW P, NEW dom, NEW pd, Ground(P, dom, pd), NEW n \in Names(P), NEW b \in Blocks(P),
         NEW i \in 1 .. Len(P.code[b]), Redefines(P.code[b][i], n)
  PROVE  Renamed(P, n, b, i) \in Versions(P, pd, n) /\ HereOf(Renamed(P, n, b, i), b, i)
<1>1. Renamed(P, n, b, i) \in Versions(P, pd, n)
  BY DEF Versions
<1>2. PICK v : v = Renamed(P, n, b, i)
  OBVIOUS
<1>3. WellFormed(P)
  BY DEF Ground
<1>4. v.blk = b /\ v.idx = i
  BY <1>2, <1>3, RenamedFields
<1> QED
  BY <1>1, <1>2, <1>4 DEF HereOf

\* What stands for the next point, of a name that the instruction does not define.
LEMMA CarriesOn ==
  ASSUME NEW P, NEW dom, NEW pd, Ground(P, dom, pd), NEW n \in Names(P), NEW b \in Blocks(P),
         NEW i \in 1 .. Len(P.code[b]), P.code[b][i].def # n, NEW env, NEW env2, NEW t, NEW t2,
         \A v : ~HereOf(v, b, i) => Bound(env2, v) = Bound(env, v),
         ~HereOf(Src(P, n), b, i),
         \/ Mutates(P, b, i, n) /\ Redefines(P.code[b][i], n)
         \/ t2 = t /\ Carries(P, dom, pd, env, b, i, n, t),
         Redefines(P.code[b][i], n) => Bound(env2, Renamed(P, n, b, i)) = t2
  PROVE  Carries(P, dom, pd, env2, b, i + 1, n, t2)
<1>0. i \in Nat
  OBVIOUS
<1>1. ASSUME NEW v, Latest(P, dom, pd, n, <<b, i + 1>>, v)
      PROVE  Bound(env2, v) = t2
  <2>1. v \in Versions(P, pd, n)
    BY <1>1 DEF Latest
  <2>2. /\ \A w \in Versions(P, pd, n) : HereOf(w, b, i) => v = w
        /\ HereOf(v, b, i) \/ Latest(P, dom, pd, n, <<b, i>>, v)
    BY <1>0, <1>1, LatestAfter
  <2>3. CASE Redefines(P.code[b][i], n)
    <3>1. v = Renamed(P, n, b, i)
      BY <2>2, <2>3, VersionMade
    <3> QED
      BY <2>3, <3>1
  <2>4. CASE ~Redefines(P.code[b][i], n)
    <3>1. ~HereOf(v, b, i)
      <4>1. b # 0 /\ i # 0
        BY DEF Blocks
      <4> QED
        BY <2>1, <2>4, <4>1, VersionFacts DEF HereOf
    <3> QED
      BY <2>2, <2>4, <3>1 DEF Carries
  <2> QED
    BY <2>3, <2>4
<1>2. ASSUME n \notin Splits(P), AsDefined(P, n, b, i + 1)
      PROVE  Bound(env2, Src(P, n)) = t2
  <2>1. AsDefined(P, n, b, i) /\ ~Mutates(P, b, i, n)
    <3>1. i \in 1 .. (i + 1) - 1 /\ \A k \in 1 .. i - 1 : k \in 1 .. (i + 1) - 1
      BY <1>0
    <3> QED
      BY <1>2, <3>1 DEF AsDefined
  <2> QED
    BY <1>2, <2>1 DEF Carries
<1> QED
  BY <1>1, <1>2 DEF Carries

LEMMA SimParts ==
  ASSUME NEW P, NEW dom, NEW pd, NEW m, NEW s, NEW b, NEW i,
         m.obs = s.obs, \E k \in Nat : DOMAIN m.heap = 1 .. k,
         \A n : Lively(P, dom, b, i, n) => n \in DOMAIN m.env /\ m.env[n] \in DOMAIN m.heap,
         \A n, l : Lively(P, dom, b, i, n) /\ Lively(P, dom, b, i, l) /\ m.env[n] = m.env[l] => n = l,
         \A n : Lively(P, dom, b, i, n) =>
           \/ m.heap[m.env[n]] = Freed
           \/ Carries(P, dom, pd, s.env, b, i, n, m.heap[m.env[n]])
  PROVE  Sim(P, dom, pd, m, s, b, i)
  BY DEF Sim

LEMMA SimStep ==
  ASSUME NEW P, NEW dom, NEW pd, Ground(P, dom, pd), NEW b \in Blocks(P),
         NEW i \in 1 .. Len(P.code[b]), NEW m, NEW s, Sim(P, dom, pd, m, s, b, i), ~m.ub,
         NEW m2, NEW s2, Moved(P, dom, m, s, m2, s2, b, i)
  PROVE  Sim(P, dom, pd, m2, s2, b, i + 1)
<1> DEFINE x == P.code[b][i]
           fresh == Cardinality(DOMAIN m.heap) + 1
           L(n)  == Lively(P, dom, b, i, n)
           L2(n) == Lively(P, dom, b, i + 1, n)
<1>1. PICK k \in Nat : DOMAIN m.heap = 1 .. k
  BY DEF Sim
<1>2. fresh = k + 1 /\ fresh \notin DOMAIN m.heap /\ 1 .. k \cup {k + 1} = 1 .. k + 1
  <2>1. Cardinality(1 .. k) = k
    <3>1. Cardinality(1 .. k) = IF 1 > k THEN 0 ELSE k - 1 + 1
      BY FS_Interval
    <3> QED
      BY <3>1
  <2> QED
    BY <1>1, <2>1
<1>3. \E l \in Nat : DOMAIN m2.heap = 1 .. l
  <2>1. DOMAIN m2.heap = DOMAIN m.heap \/ DOMAIN m2.heap = DOMAIN m.heap \cup {fresh}
    BY DEF Moved
  <2>2. k + 1 \in Nat /\ DOMAIN m.heap \cup {fresh} = 1 .. k + 1
    BY <1>1, <1>2
  <2> HIDE DEF fresh
  <2> QED
    BY <1>1, <2>1, <2>2
<1>4. /\ \A n : L(n) => n \in DOMAIN m.env /\ m.env[n] \in DOMAIN m.heap
      /\ \A n, l : L(n) /\ L(l) /\ m.env[n] = m.env[l] => n = l
      /\ \A n : L(n) => \/ m.heap[m.env[n]] = Freed
                        \/ Carries(P, dom, pd, s.env, b, i, n, m.heap[m.env[n]])
  BY DEF Sim
<1>5. ASSUME NEW n, L2(n)
      PROVE  /\ n \in Names(P) /\ n # NoName
             /\ x.def = n \/ L(n)
             /\ x.def # n => ~HereOf(Src(P, n), b, i)
  <2>1. n \in Names(P)
    BY <1>5 DEF Lively
  <2> QED
    BY <1>5, <2>1, LivelyBefore, NoNameIsNoName
<1>6. ASSUME NEW n, L2(n), x.def # n
      PROVE  /\ L(n) /\ n \in DOMAIN m2.env /\ m2.env[n] = m.env[n] /\ m2.env[n] \in DOMAIN m.heap
             /\ m2.env[n] \in DOMAIN m2.heap
  BY <1>4, <1>5, <1>6 DEF Moved, Extend
<1>7. ASSUME NEW n, L2(n), x.def = n
      PROVE  n \in DOMAIN m2.env /\ m2.env[n] = fresh /\ fresh \in DOMAIN m2.heap
  BY <1>5, <1>7 DEF Moved, Extend
<1>8. ASSUME NEW n, L2(n)
      PROVE  \/ m2.heap[m2.env[n]] = Freed
             \/ Carries(P, dom, pd, s2.env, b, i + 1, n, m2.heap[m2.env[n]])
  <2>0. n \in Names(P) /\ n # NoName
    BY <1>5, <1>8
  <2>1. CASE x.def = n
    <3>1. PICK w : w = Renamed(P, n, b, i)
      OBVIOUS
    <3>2. Redefines(x, n)
      BY <2>1 DEF Redefines
    <3>3. w \in Versions(P, pd, n) /\ HereOf(w, b, i)
      BY <2>0, <3>1, <3>2, VersionMade
    <3>4. Bound(s2.env, w) = m2.heap[fresh] /\ m2.env[n] = fresh
      BY <1>7, <1>8, <2>0, <2>1, <3>1 DEF Moved
    <3>5. ASSUME NEW v, Latest(P, dom, pd, n, <<b, i + 1>>, v)
          PROVE  v = w
      <4>1. i \in Nat
        OBVIOUS
      <4>2. /\ \A y \in Versions(P, pd, n) : HereOf(y, b, i) => v = y
            /\ HereOf(v, b, i) \/ Latest(P, dom, pd, n, <<b, i>>, v)
        BY <2>0, <3>5, <4>1, LatestAfter
      <4> QED
        BY <3>3, <4>2
    <3>6. ASSUME n \notin Splits(P)
          PROVE  Src(P, n) = w
      <4>1. x.op # "MutSeqSplit"
        BY <2>1, <3>6 DEF Splits
      <4> QED
        BY <2>1, <3>1, <4>1 DEF Renamed
    <3> QED
      BY <3>4, <3>5, <3>6 DEF Carries
  <2>2. CASE x.def # n
    <3>0. PICK t, t2 : t = m.heap[m.env[n]] /\ t2 = m2.heap[m.env[n]]
      OBVIOUS
    <3>1. L(n) /\ m2.env[n] = m.env[n] /\ ~HereOf(Src(P, n), b, i)
      BY <1>5, <1>6, <1>8, <2>2
    <3>2. \/ t2 = Freed
          \/ Mutates(P, b, i, n) /\ Redefines(x, n) /\ Bound(s2.env, Renamed(P, n, b, i)) = t2
          \/ t2 = t /\ (Redefines(x, n) => Bound(s2.env, Renamed(P, n, b, i)) = t2)
      BY <2>2, <3>0, <3>1 DEF Moved
    <3>3. t = Freed \/ Carries(P, dom, pd, s.env, b, i, n, t)
      BY <1>4, <3>0, <3>1
    <3>4. \A v : ~HereOf(v, b, i) => Bound(s2.env, v) = Bound(s.env, v)
      BY DEF Moved
    <3>5. ASSUME t2 # Freed
          PROVE  Carries(P, dom, pd, s2.env, b, i + 1, n, t2)
      <4>1. /\ \/ Mutates(P, b, i, n) /\ Redefines(x, n)
               \/ t2 = t /\ Carries(P, dom, pd, s.env, b, i, n, t)
            /\ Redefines(x, n) => Bound(s2.env, Renamed(P, n, b, i)) = t2
        BY <3>2, <3>3, <3>5
      <4> QED
        BY <2>0, <2>2, <3>1, <3>4, <4>1, CarriesOn
    <3> QED
      BY <3>0, <3>1, <3>5
  <2> QED
    BY <2>1, <2>2
<1>9. ASSUME NEW n, NEW l, L2(n), L2(l), m2.env[n] = m2.env[l]
      PROVE  n = l
  BY <1>2, <1>4, <1>6, <1>7, <1>9
<1>10. m2.obs = s2.obs
  BY DEF Moved
<1>11. \A n : L2(n) => n \in DOMAIN m2.env /\ m2.env[n] \in DOMAIN m2.heap
  BY <1>6, <1>7
<1>12. \A n : L2(n) => \/ m2.heap[m2.env[n]] = Freed
                        \/ Carries(P, dom, pd, s2.env, b, i + 1, n, m2.heap[m2.env[n]])
  BY <1>8
<1>13. \A n, l : L2(n) /\ L2(l) /\ m2.env[n] = m2.env[l] => n = l
  BY <1>9
<1> QED
  BY <1>3, <1>10, <1>11, <1>12, <1>13, SimParts

-----------------------------------------------------------------------------
(* What the instructions do. *)

MutShape(m) == m = [env |-> m.env, heap |-> m.heap, obs |-> m.obs, ub |-> m.ub]
SSAShape(s) == s = [env |-> s.env, obs |-> s.obs]

\* r is m with these parts.
IsMut(r, m, env, heap, obs) ==
  MutShape(r) /\ r.env = env /\ r.heap = heap /\ r.obs = obs /\ r.ub = m.ub
IsSSA(r, env, obs) == SSAShape(r) /\ r.env = env /\ r.obs = obs

\* r is what instruction x at pos makes of m, whose operands have the contents old.
MutMakes(r, m, x, pos, old) ==
  LET ptr(j) == m.env[x.c[j]]
      effect == <<EffectOf[x.op], pos>> \o old
      fresh  == Cardinality(DOMAIN m.heap) + 1
      seen2  == Append(m.obs, <<pos, old>>)
  IN  /\ x.op \in WriteOps \cup {"MutSeqInsertSeq"} =>
           IsMut(r, m, m.env, [m.heap EXCEPT ![ptr(1)] = effect], m.obs)
      /\ x.op = "MutSeqAppend" =>
           IsMut(r, m, m.env, [m.heap EXCEPT ![ptr(1)] = effect, ![ptr(2)] = Freed], m.obs)
      /\ x.op = "MutSeqSwap" =>
           IsMut(r, m, m.env, [m.heap EXCEPT ![ptr(1)] = <<"From", pos>> \o old,
                                             ![ptr(2)] = <<"To", pos>> \o old], m.obs)
      /\ x.op = "MutSeqSplit" =>
           IsMut(r, m, Extend(m.env, x.def, fresh),
                 Extend([m.heap EXCEPT ![ptr(1)] = effect], fresh, <<"SeqCopy", pos>> \o old), m.obs)
      /\ x.op \notin MutOps /\ x.def # NoName =>
           IsMut(r, m, Extend(m.env, x.def, fresh),
                 Extend(m.heap, fresh, <<x.op, pos>> \o old), seen2)
      /\ x.op = "MutStructWrite" \/ (x.op \notin MutOps /\ x.def = NoName) =>
           IsMut(r, m, m.env, m.heap, seen2)

LEMMA MutChanged ==
  ASSUME NEW m, MutShape(m), NEW e, NEW h, NEW o
  PROVE  /\ IsMut([m EXCEPT !.heap = h], m, m.env, h, m.obs)
         /\ IsMut([m EXCEPT !.env = e, !.heap = h], m, e, h, m.obs)
         /\ IsMut([m EXCEPT !.obs = o], m, m.env, m.heap, o)
         /\ MutShape([m EXCEPT !.ub = TRUE]) /\ [m EXCEPT !.ub = TRUE].ub
<1>1. DOMAIN m = {"env", "heap", "obs", "ub"}
  BY DEF MutShape
<1>2. IsMut([m EXCEPT !.heap = h], m, m.env, h, m.obs)
  BY <1>1 DEF MutShape, IsMut
<1>3. IsMut([m EXCEPT !.env = e, !.heap = h], m, e, h, m.obs)
  <2>1. PICK q : q = [m EXCEPT !.env = e, !.heap = h]
    OBVIOUS
  <2>2. q.env = e /\ q.heap = h /\ q.obs = m.obs /\ q.ub = m.ub
    BY <1>1, <2>1
  <2>3. q = [f \in {"env", "heap", "obs", "ub"} |-> q[f]]
    BY <1>1, <2>1
  <2>4. q = [env |-> q.env, heap |-> q.heap, obs |-> q.obs, ub |-> q.ub]
    BY <2>3
  <2> QED
    BY <2>1, <2>2, <2>4 DEF MutShape, IsMut
<1>4. IsMut([m EXCEPT !.obs = o], m, m.env, m.heap, o)
  BY <1>1 DEF MutShape, IsMut
<1>5. MutShape([m EXCEPT !.ub = TRUE]) /\ [m EXCEPT !.ub = TRUE].ub
  <2>1. PICK q : q = [m EXCEPT !.ub = TRUE]
    OBVIOUS
  <2>2. q.ub = TRUE
    BY <1>1, <2>1
  <2>3. q = [f \in {"env", "heap", "obs", "ub"} |-> q[f]]
    BY <1>1, <2>1
  <2>4. q = [env |-> q.env, heap |-> q.heap, obs |-> q.obs, ub |-> q.ub]
    BY <2>3
  <2> QED
    BY <2>1, <2>2, <2>4 DEF MutShape
<1> QED
  BY <1>2, <1>3, <1>4, <1>5

LEMMA MutInstForms ==
  ASSUME NEW m, MutShape(m), NEW x, NEW pos, NEW old,
         old = [j \in 1 .. Len(x.c) |-> m.heap[m.env[x.c[j]]]]
  PROVE  LET r == MutInst(m, x, pos)
         IN  IF m.ub THEN r = m
             ELSE IF \E j \in DOMAIN old : old[j] = Freed THEN MutShape(r) /\ r.ub
             ELSE MutMakes(r, m, x, pos, old)
<1> DEFINE ptr(j) == m.env[x.c[j]]
           effect == <<EffectOf[x.op], pos>> \o old
           fresh  == Cardinality(DOMAIN m.heap) + 1
           Alloc(h, t) == [m EXCEPT !.env = Extend(@, x.def, fresh), !.heap = Extend(h, fresh, t)]
           Observe(q)  == [q EXCEPT !.obs = Append(@, <<pos, old>>)]
           a1 == [m EXCEPT !.heap[ptr(1)] = effect]
           a2 == [m EXCEPT !.heap = [@ EXCEPT ![ptr(1)] = effect, ![ptr(2)] = Freed]]
           a3 == [m EXCEPT !.heap = [@ EXCEPT ![ptr(1)] = <<"From", pos>> \o old,
                                              ![ptr(2)] = <<"To", pos>> \o old]]
           a4 == Alloc([m.heap EXCEPT ![ptr(1)] = effect], <<"SeqCopy", pos>> \o old)
           a5 == Observe(Alloc(m.heap, <<x.op, pos>> \o old))
           a6 == Observe(m)
           a0 == [m EXCEPT !.ub = TRUE]
           r  == MutInst(m, x, pos)
<1>1. r = IF m.ub THEN m
          ELSE IF \E j \in DOMAIN old : old[j] = Freed THEN a0
          ELSE CASE x.op \in WriteOps \cup {"MutSeqInsertSeq"} -> a1
                 [] x.op = "MutSeqAppend" -> a2
                 [] x.op = "MutSeqSwap" -> a3
                 [] x.op = "MutSeqSplit" -> a4
                 [] x.op \notin MutOps /\ x.def # NoName -> a5
                 [] OTHER -> a6
  BY DEF MutInst
<1>2. MutShape(a0) /\ a0.ub
  BY MutChanged
<1>3. IsMut(a1, m, m.env, [m.heap EXCEPT ![ptr(1)] = effect], m.obs)
  <2> HIDE DEF effect, ptr
  <2> QED
    BY DEF MutShape, IsMut
<1>4. IsMut(a2, m, m.env, [m.heap EXCEPT ![ptr(1)] = effect, ![ptr(2)] = Freed], m.obs)
  <2> HIDE DEF effect, ptr
  <2> QED
    BY DEF MutShape, IsMut
<1>5. IsMut(a3, m, m.env, [m.heap EXCEPT ![ptr(1)] = <<"From", pos>> \o old,
                                         ![ptr(2)] = <<"To", pos>> \o old], m.obs)
  <2>1. PICK h : h = [m.heap EXCEPT ![ptr(1)] = <<"From", pos>> \o old,
                                    ![ptr(2)] = <<"To", pos>> \o old]
    OBVIOUS
  <2>2. a3 = [m EXCEPT !.heap = h]
    BY <2>1
  <2>3. IsMut([m EXCEPT !.heap = h], m, m.env, h, m.obs)
    BY MutChanged
  <2> HIDE DEF a3, ptr
  <2> QED
    BY <2>1, <2>2, <2>3
<1>6. IsMut(a4, m, Extend(m.env, x.def, fresh),
            Extend([m.heap EXCEPT ![ptr(1)] = effect], fresh, <<"SeqCopy", pos>> \o old), m.obs)
  <2>1. PICK e : e = Extend(m.env, x.def, fresh)
    OBVIOUS
  <2>2. PICK h : h = Extend([m.heap EXCEPT ![ptr(1)] = effect], fresh, <<"SeqCopy", pos>> \o old)
    OBVIOUS
  <2>3. a4 = [m EXCEPT !.env = e, !.heap = h]
    BY <2>1, <2>2
  <2>4. IsMut([m EXCEPT !.env = e, !.heap = h], m, e, h, m.obs)
    BY MutChanged
  <2> HIDE DEF a4, ptr, fresh, effect
  <2> QED
    BY <2>1, <2>2, <2>3, <2>4
<1>7. IsMut(a5, m, Extend(m.env, x.def, fresh), Extend(m.heap, fresh, <<x.op, pos>> \o old),
            Append(m.obs, <<pos, old>>))
  <2>1. PICK e : e = Extend(m.env, x.def, fresh)
    OBVIOUS
  <2>2. PICK h : h = Extend(m.heap, fresh, <<x.op, pos>> \o old)
    OBVIOUS
  <2>3. PICK q : q = [m EXCEPT !.env = e, !.heap = h]
    OBVIOUS
  <2>4. PICK o : o = Append(q.obs, <<pos, old>>)
    OBVIOUS
  <2>5. a5 = [q EXCEPT !.obs = o]
    BY <2>1, <2>2, <2>3, <2>4
  <2>6. IsMut(q, m, e, h, m.obs)
    BY <2>3, MutChanged
  <2>7. IsMut([q EXCEPT !.obs = o], q, q.env, q.heap, o)
    <3>1. MutShape(q)
      BY <2>6 DEF IsMut
    <3> QED
      BY <3>1, MutChanged
  <2> HIDE DEF a5, fresh
  <2> QED
    BY <2>1, <2>2, <2>4, <2>5, <2>6, <2>7 DEF IsMut
<1>8. IsMut(a6, m, m.env, m.heap, Append(m.obs, <<pos, old>>))
  <2>1. PICK o : o = Append(m.obs, <<pos, old>>)
    OBVIOUS
  <2>2. a6 = [m EXCEPT !.obs = o]
    BY <2>1
  <2> HIDE DEF a6
  <2> QED
    BY <2>1, <2>2, MutChanged
<1> HIDE DEF a0, a1, a2, a3, a4, a5, a6, r
<1>9. CASE m.ub
  BY <1>1, <1>9 DEF r
<1>10. CASE ~m.ub /\ \E j \in DOMAIN old : old[j] = Freed
  BY <1>1, <1>2, <1>10 DEF r
<1>11. CASE ~m.ub /\ ~\E j \in DOMAIN old : old[j] = Freed
  <2>1. r = CASE x.op \in WriteOps \cup {"MutSeqInsertSeq"} -> a1
              [] x.op = "MutSeqAppend" -> a2
              [] x.op = "MutSeqSwap" -> a3
              [] x.op = "MutSeqSplit" -> a4
              [] x.op \notin MutOps /\ x.def # NoName -> a5
              [] OTHER -> a6
    BY <1>1, <1>11
  <2>2. /\ x.op \in WriteOps \cup {"MutSeqInsertSeq"} => r = a1
        /\ x.op = "MutSeqAppend" => r = a2
        /\ x.op = "MutSeqSwap" => r = a3
        /\ x.op = "MutSeqSplit" => r = a4
        /\ x.op \notin MutOps /\ x.def # NoName => r = a5
        /\ x.op = "MutStructWrite" \/ (x.op \notin MutOps /\ x.def = NoName) => r = a6
    BY <2>1 DEF MutOps, PairOps, WriteOps
  <2>3. MutMakes(r, m, x, pos, old)
    <3> HIDE DEF effect, ptr, fresh
    <3> QED
      BY <1>3, <1>4, <1>5, <1>6, <1>7, <1>8, <2>2 DEF MutMakes, effect, ptr, fresh
  <2> QED
    BY <1>11, <2>3 DEF r
<1> QED
  BY <1>9, <1>10, <1>11

\* r is what the SSA instruction y makes of s, where its operands are bound to in.
SSAMakes(r, s, y, in) ==
  LET seen2 == Append(s.obs, <<y.at, in>>)
  IN  /\ y.op = "End" => r = s
      /\ y.op = "UsePHI" => IsSSA(r, Extend(s.env, y.defs[1], in[1]), s.obs)
      /\ y.op = "SeqSwap" =>
           IsSSA(r, Extend(Extend(s.env, y.defs[1], <<"From", y.at>> \o in),
                           y.defs[2], <<"To", y.at>> \o in), s.obs)
      /\ y.op \notin {"End", "UsePHI", "SeqSwap"} /\ y.defs = << >> => IsSSA(r, s.env, seen2)
      /\ y.op \notin {"End", "UsePHI", "SeqSwap"} /\ y.defs # << >> =>
           IsSSA(r, Extend(s.env, y.defs[1], <<y.op, y.at>> \o in),
                 IF y.defs[1].kind = "src" THEN seen2 ELSE s.obs)

LEMMA SSAInstForms ==
  ASSUME NEW s, SSAShape(s), NEW y, y.op \in {"UsePHI", "SeqSwap"} => y.defs # << >>, NEW in,
         in = [j \in 1 .. Len(y.args) |-> Bound(s.env, y.args[j])]
  PROVE  SSAMakes(SSAInst(s, y), s, y, in)
<1> DEFINE Bind(d, t) == [s EXCEPT !.env = Extend(@, d, t)]
           Observe(q) == [q EXCEPT !.obs = Append(@, <<y.at, in>>)]
           a1 == Bind(y.defs[1], in[1])
           a2 == [s EXCEPT !.env = Extend(Extend(@, y.defs[1], <<"From", y.at>> \o in),
                                          y.defs[2], <<"To", y.at>> \o in)]
           a3 == Observe(s)
           a4 == Bind(y.defs[1], <<y.op, y.at>> \o in)
           a5 == IF y.defs[1].kind = "src" THEN Observe(a4) ELSE a4
           r  == SSAInst(s, y)
<1>1. r = CASE y.op = "End"    -> s
            [] y.op = "UsePHI" -> a1
            [] y.op = "SeqSwap" -> a2
            [] y.op # "End" /\ y.defs = << >> -> a3
            [] OTHER -> a5
  BY DEF SSAInst
<1>2. /\ IsSSA(a1, Extend(s.env, y.defs[1], in[1]), s.obs)
      /\ IsSSA(a2, Extend(Extend(s.env, y.defs[1], <<"From", y.at>> \o in),
                          y.defs[2], <<"To", y.at>> \o in), s.obs)
      /\ IsSSA(a3, s.env, Append(s.obs, <<y.at, in>>))
  <2>1. ASSUME NEW e, NEW o
        PROVE  IsSSA([s EXCEPT !.env = e], e, s.obs) /\ IsSSA([s EXCEPT !.obs = o], s.env, o)
    BY DEF SSAShape, IsSSA
  <2>2. IsSSA(a1, Extend(s.env, y.defs[1], in[1]), s.obs)
    BY <2>1
  <2>3. IsSSA(a2, Extend(Extend(s.env, y.defs[1], <<"From", y.at>> \o in),
                         y.defs[2], <<"To", y.at>> \o in), s.obs)
    BY <2>1
  <2>4. IsSSA(a3, s.env, Append(s.obs, <<y.at, in>>))
    BY <2>1
  <2> QED
    BY <2>2, <2>3, <2>4
<1>3. IsSSA(a5, Extend(s.env, y.defs[1], <<y.op, y.at>> \o in),
            IF y.defs[1].kind = "src" THEN Append(s.obs, <<y.at, in>>) ELSE s.obs)
  BY DEF SSAShape, IsSSA
<1> HIDE DEF a1, a2, a3, a4, a5, r
<1>4. /\ y.op = "End" => r = s
      /\ y.op = "UsePHI" => r = a1
      /\ y.op = "SeqSwap" => r = a2
      /\ y.op \notin {"End", "UsePHI", "SeqSwap"} /\ y.defs = << >> => r = a3
      /\ y.op \notin {"End", "UsePHI", "SeqSwap"} /\ y.defs # << >> => r = a5
  BY <1>1
<1>5. SSAMakes(r, s, y, in)
  BY <1>2, <1>3, <1>4 DEF SSAMakes
<1> QED
  BY <1>5 DEF r

-----------------------------------------------------------------------------
(* One instruction on both sides. *)

LEMMA ExtendIs ==
  ASSUME NEW f, NEW x, NEW y
  PROVE  /\ DOMAIN Extend(f, x, y) = DOMAIN f \cup {x} /\ Extend(f, x, y)[x] = y
         /\ \A z \in DOMAIN f : z # x => Extend(f, x, y)[z] = f[z]
  BY DEF Extend

LEMMA BoundExtend ==
  ASSUME NEW f, NEW x, NEW y, NEW v
  PROVE  Bound(Extend(f, x, y), v) = IF v = x THEN y ELSE Bound(f, v)
<1>1. PICK g : g = Extend(f, x, y)
  OBVIOUS
<1>2. /\ DOMAIN g = DOMAIN f \cup {x} /\ g[x] = y
      /\ \A z \in DOMAIN f : z # x => g[z] = f[z]
  BY <1>1 DEF Extend
<1>3. Bound(g, v) = IF v = x THEN y ELSE Bound(f, v)
  BY <1>2 DEF Bound
<1> QED
  BY <1>1, <1>3

\* Under env the operands args see the contents in.
Sees(env, args, in) == in = [j \in 1 .. Len(args) |-> Bound(env, args[j])]

\* m and s agree before instruction i of block b, which uses nothing that is freed, and the
\* values vs are bound to the contents of its operands.
Running(P, dom, pd, b, i, m, s, vs) ==
  /\ Ground(P, dom, pd) /\ b \in Blocks(P) /\ i \in 1 .. Len(P.code[b])
  /\ Sim(P, dom, pd, m, s, b, i) /\ ~m.ub /\ MutShape(m) /\ SSAShape(s)
  /\ \A j \in 1 .. Len(P.code[b][i].c) :
       /\ m.heap[m.env[P.code[b][i].c[j]]] # Freed
       /\ Bound(s.env, vs[j]) = m.heap[m.env[P.code[b][i].c[j]]]
       /\ ~HereOf(vs[j], b, i)

Contents(P, b, i, m) == [j \in 1 .. Len(P.code[b][i].c) |-> m.heap[m.env[P.code[b][i].c[j]]]]

\* The operands are in the heap, and names for different collections point to different places.
LEMMA RunningFacts ==
  ASSUME NEW P, NEW dom, NEW pd, NEW b, NEW i, NEW m, NEW s, NEW vs,
         Running(P, dom, pd, b, i, m, s, vs)
  PROVE  /\ P.code[b][i] \in [op : STRING, def : Names(P) \cup {NoName}, c : Seq(Names(P))]
         /\ WellFormed(P) /\ Signatures(P) /\ b # 0 /\ i # 0 /\ m.obs = s.obs
         /\ Cardinality(DOMAIN m.heap) + 1 \notin DOMAIN m.heap
         /\ \A n : Lively(P, dom, b, i, n) =>
              n \in Names(P) /\ n # NoName /\ m.env[n] \in DOMAIN m.heap
         /\ \A n, l : Lively(P, dom, b, i, n) /\ Lively(P, dom, b, i, l) =>
              (m.env[n] = m.env[l] => n = l)
         /\ \A j \in 1 .. Len(P.code[b][i].c) :
              /\ Lively(P, dom, b, i, P.code[b][i].c[j])
              /\ P.code[b][i].c[j] \in Names(P) /\ P.code[b][i].c[j] # P.code[b][i].def
<1>1. /\ WellFormed(P) /\ Signatures(P) /\ b \in Blocks(P) /\ i \in 1 .. Len(P.code[b])
      /\ Ground(P, dom, pd) /\ Sim(P, dom, pd, m, s, b, i) /\ ~m.ub
  BY DEF Running, Ground
<1>2. P.code[b][i] \in [op : STRING, def : Names(P) \cup {NoName}, c : Seq(Names(P))]
  BY <1>1, InstType
<1>3. /\ \A n : Lively(P, dom, b, i, n) => m.env[n] \in DOMAIN m.heap
      /\ \A n, l : Lively(P, dom, b, i, n) /\ Lively(P, dom, b, i, l) =>
           (m.env[n] = m.env[l] => n = l)
  BY <1>1 DEF Sim
<1>4. \A n : Lively(P, dom, b, i, n) => n \in Names(P) /\ n # NoName
  BY NoNameIsNoName DEF Lively
<1>5. ASSUME NEW j \in 1 .. Len(P.code[b][i].c)
      PROVE  /\ Lively(P, dom, b, i, P.code[b][i].c[j])
             /\ P.code[b][i].c[j] \in Names(P) /\ P.code[b][i].c[j] # P.code[b][i].def
  <2>1. PICK n : n = P.code[b][i].c[j]
    OBVIOUS
  <2>2. Lively(P, dom, b, i, n) /\ n \in Names(P) /\ n # NoName
    BY <1>1, <1>4, <2>1, UsedIsLively
  <2>3. ASSUME P.code[b][i].def = n PROVE FALSE
    <3>1. DefPos(P, n) = <<b, i>>
      BY <1>1, <2>2, <2>3 DEF WellFormed, SingleDefs
    <3>2. Src(P, n).blk = b /\ Src(P, n).idx = i /\ b # 0 /\ i \in Nat
      BY <1>1, <2>2, <3>1, SrcFields DEF Blocks
    <3> QED
      BY <2>2, <3>2 DEF Lively, ReachesAt, IsArgument, Dominates
  <2> QED
    BY <2>1, <2>2, <2>3
<1>6. b # 0 /\ i # 0
  BY <1>1 DEF Blocks
<1>7. m.obs = s.obs /\ \E k \in Nat : DOMAIN m.heap = 1 .. k
  BY <1>1 DEF Sim
<1>8. Cardinality(DOMAIN m.heap) + 1 \notin DOMAIN m.heap
  <2>1. PICK k \in Nat : DOMAIN m.heap = 1 .. k
    BY <1>7
  <2>2. Cardinality(1 .. k) = k
    <3>1. Cardinality(1 .. k) = IF 1 > k THEN 0 ELSE k - 1 + 1
      BY FS_Interval
    <3> QED
      BY <3>1
  <2> QED
    BY <2>1, <2>2
<1> QED
  BY <1>1, <1>2, <1>3, <1>4, <1>5, <1>6, <1>7, <1>8

\* A mutator of one collection: a second one keeps its content or is freed.
LEMMA OneChanged ==
  ASSUME NEW P, NEW dom, NEW pd, NEW b, NEW i, NEW m, NEW s, NEW vs,
         Running(P, dom, pd, b, i, m, s, vs),
         P.code[b][i].op \in MutOps \ {"MutStructWrite", "MutSeqSwap", "MutSeqSplit"},
         1 \in 1 .. Len(P.code[b][i].c), NEW m2, NEW s2, NEW t,
         m2.env = m.env, m2.obs = m.obs, s2.obs = s.obs, DOMAIN m2.heap = DOMAIN m.heap,
         \A z \in DOMAIN m.heap :
           m2.heap[z] = Freed \/ m2.heap[z] = IF z = m.env[P.code[b][i].c[1]] THEN t ELSE m.heap[z],
         \A v : Bound(s2.env, v) =
           IF v = Val("ssa", P.code[b][i].c[1], b, i) THEN t ELSE Bound(s.env, v)
  PROVE  Moved(P, dom, m, s, m2, s2, b, i)
<1>1. PICK x, c1, new : x = P.code[b][i] /\ c1 = x.c[1] /\ new = Val("ssa", c1, b, i)
  OBVIOUS
<1>2. /\ x.def = NoName /\ x.op \in MutOps
      /\ x.op \notin {"MutStructWrite", "MutSeqSwap", "MutSeqSplit"} \cup ReadOps
  <2>1. Signatures(P) /\ b \in Blocks(P) /\ i \in 1 .. Len(P.code[b])
    BY DEF Running, Ground
  <2> QED
    BY <1>1, <2>1 DEF Signatures, MutOps, WriteOps, PairOps, ReadOps
<1>3. /\ Lively(P, dom, b, i, c1) /\ c1 \in Names(P) /\ c1 # NoName /\ 1 \in DOMAIN x.c
      /\ \A n : Lively(P, dom, b, i, n) =>
           n \in Names(P) /\ n # NoName /\ m.env[n] \in DOMAIN m.heap
      /\ \A n : Lively(P, dom, b, i, n) /\ m.env[n] = m.env[c1] => n = c1
  <2>1. x.c \in Seq(Names(P))
    BY <1>1, RunningFacts
  <2>2. /\ \A n : Lively(P, dom, b, i, n) =>
             n \in Names(P) /\ n # NoName /\ m.env[n] \in DOMAIN m.heap
        /\ \A n, l : Lively(P, dom, b, i, n) /\ Lively(P, dom, b, i, l) =>
             (m.env[n] = m.env[l] => n = l)
        /\ \A j \in 1 .. Len(P.code[b][i].c) : Lively(P, dom, b, i, P.code[b][i].c[j])
    BY RunningFacts
  <2>3. Lively(P, dom, b, i, c1) /\ 1 \in DOMAIN x.c
    BY <1>1, <2>1, <2>2
  <2> QED
    BY <2>2, <2>3
<1>4. HereOf(new, b, i)
  BY <1>1 DEF HereOf, Val
<1>5. Renamed(P, c1, b, i) = new /\ Redefines(x, c1) /\ Mutates(P, b, i, c1)
  BY <1>1, <1>2, <1>3 DEF Renamed, Redefines, Mutates
<1>6. ASSUME NEW n, Lively(P, dom, b, i, n)
      PROVE  \/ m2.heap[m.env[n]] = Freed
             \/ /\ Mutates(P, b, i, n) /\ Redefines(x, n)
                /\ Bound(s2.env, Renamed(P, n, b, i)) = m2.heap[m.env[n]]
             \/ /\ m2.heap[m.env[n]] = m.heap[m.env[n]]
                /\ Redefines(x, n) => Bound(s2.env, Renamed(P, n, b, i)) = m2.heap[m.env[n]]
  <2>1. CASE n = c1
    BY <1>1, <1>3, <1>5, <2>1
  <2>2. CASE n # c1
    <3>1. ~Redefines(x, n)
      BY <1>1, <1>2, <1>3, <1>6, <2>2 DEF Redefines
    <3>2. m2.heap[m.env[n]] = Freed \/ m2.heap[m.env[n]] = m.heap[m.env[n]]
      BY <1>1, <1>3, <1>6, <2>2
    <3> QED
      BY <3>1, <3>2
  <2> QED
    BY <2>1, <2>2
<1>7. \A v : ~HereOf(v, b, i) => Bound(s2.env, v) = Bound(s.env, v)
  BY <1>1, <1>4
<1>8. m.obs = s.obs
  BY RunningFacts
<1> QED
  BY <1>1, <1>2, <1>6, <1>7, <1>8 DEF Moved

\* What the instructions that stand for one at <<b, i>> do, by their operation.
StandsDo(s, b, i, args, in, d, e) ==
  /\ SSAInst(s, Stands(b, i, "End", << >>, << >>)) = s
  /\ IsSSA(SSAInst(s, Stands(b, i, "UsePHI", <<d>>, args)), Extend(s.env, d, in[1]), s.obs)
  /\ IsSSA(SSAInst(s, Stands(b, i, "SeqSwap", <<d, e>>, args)),
           Extend(Extend(s.env, d, <<"From", <<b, i>>>> \o in), e, <<"To", <<b, i>>>> \o in), s.obs)
  /\ \A op : op \notin {"End", "UsePHI", "SeqSwap"} =>
       /\ IsSSA(SSAInst(s, Stands(b, i, op, << >>, args)), s.env, Append(s.obs, <<<<b, i>>, in>>))
       /\ IsSSA(SSAInst(s, Stands(b, i, op, <<d>>, args)), Extend(s.env, d, <<op, <<b, i>>>> \o in),
                IF d.kind = "src" THEN Append(s.obs, <<<<b, i>>, in>>) ELSE s.obs)

LEMMA SSAStands ==
  ASSUME NEW s, SSAShape(s), NEW b, NEW i, NEW args, NEW in, NEW d, NEW e, Sees(s.env, args, in)
  PROVE  StandsDo(s, b, i, args, in, d, e)
<1>0. in = [j \in 1 .. Len(args) |-> Bound(s.env, args[j])]
  BY DEF Sees
<1>1. ASSUME NEW op, NEW defs, NEW as, NEW y, y = Stands(b, i, op, defs, as)
      PROVE  y.op = op /\ y.defs = defs /\ y.args = as /\ y.at = <<b, i>>
  BY <1>1 DEF Stands
<1>2. SSAInst(s, Stands(b, i, "End", << >>, << >>)) = s
  <2>1. PICK y : y = Stands(b, i, "End", << >>, << >>)
    OBVIOUS
  <2>2. PICK n : n = [j \in 1 .. Len(y.args) |-> Bound(s.env, y.args[j])]
    OBVIOUS
  <2>3. y.op = "End"
    BY <1>1, <2>1
  <2>4. SSAMakes(SSAInst(s, y), s, y, n)
    BY <2>2, <2>3, SSAInstForms
  <2> QED
    BY <2>1, <2>3, <2>4 DEF SSAMakes
<1>3. IsSSA(SSAInst(s, Stands(b, i, "UsePHI", <<d>>, args)), Extend(s.env, d, in[1]), s.obs)
  <2>1. PICK y : y = Stands(b, i, "UsePHI", <<d>>, args)
    OBVIOUS
  <2>2. y.op = "UsePHI" /\ y.defs = <<d>> /\ y.args = args
    BY <1>1, <2>1
  <2>3. y.defs[1] = d /\ y.defs # << >>
    BY <2>2
  <2>4. SSAMakes(SSAInst(s, y), s, y, in)
    BY <1>0, <2>2, <2>3, SSAInstForms
  <2> QED
    BY <2>1, <2>2, <2>3, <2>4 DEF SSAMakes
<1>4. IsSSA(SSAInst(s, Stands(b, i, "SeqSwap", <<d, e>>, args)),
            Extend(Extend(s.env, d, <<"From", <<b, i>>>> \o in), e, <<"To", <<b, i>>>> \o in), s.obs)
  <2>1. PICK y : y = Stands(b, i, "SeqSwap", <<d, e>>, args)
    OBVIOUS
  <2>2. y.op = "SeqSwap" /\ y.defs = <<d, e>> /\ y.args = args /\ y.at = <<b, i>>
    BY <1>1, <2>1
  <2>3. y.defs[1] = d /\ y.defs[2] = e /\ y.defs # << >>
    BY <2>2
  <2>4. SSAMakes(SSAInst(s, y), s, y, in)
    BY <1>0, <2>2, <2>3, SSAInstForms
  <2> QED
    BY <2>1, <2>2, <2>3, <2>4 DEF SSAMakes
<1>5. ASSUME NEW op, op \notin {"End", "UsePHI", "SeqSwap"}
      PROVE  /\ IsSSA(SSAInst(s, Stands(b, i, op, << >>, args)),
                      s.env, Append(s.obs, <<<<b, i>>, in>>))
             /\ IsSSA(SSAInst(s, Stands(b, i, op, <<d>>, args)),
                      Extend(s.env, d, <<op, <<b, i>>>> \o in),
                      IF d.kind = "src" THEN Append(s.obs, <<<<b, i>>, in>>) ELSE s.obs)
  <2>1. PICK y, z : y = Stands(b, i, op, << >>, args) /\ z = Stands(b, i, op, <<d>>, args)
    OBVIOUS
  <2>2. /\ y.op = op /\ y.defs = << >> /\ y.args = args /\ y.at = <<b, i>>
        /\ z.op = op /\ z.defs = <<d>> /\ z.args = args /\ z.at = <<b, i>>
    BY <1>1, <2>1
  <2>3. z.defs[1] = d /\ z.defs # << >>
    BY <2>2
  <2>4. SSAMakes(SSAInst(s, y), s, y, in) /\ SSAMakes(SSAInst(s, z), s, z, in)
    BY <1>0, <1>5, <2>2, SSAInstForms
  <2>5. IsSSA(SSAInst(s, y), s.env, Append(s.obs, <<<<b, i>>, in>>))
    BY <1>5, <2>2, <2>4 DEF SSAMakes
  <2>6. IsSSA(SSAInst(s, z), Extend(s.env, d, <<op, <<b, i>>>> \o in),
              IF d.kind = "src" THEN Append(s.obs, <<<<b, i>>, in>>) ELSE s.obs)
    BY <1>5, <2>2, <2>3, <2>4 DEF SSAMakes
  <2> QED
    BY <2>1, <2>5, <2>6
<1> QED
  BY <1>2, <1>3, <1>4, <1>5 DEF StandsDo

\* What the mutable instruction does when none of its operands is freed.
LEMMA MutInstHere ==
  ASSUME NEW P, NEW dom, NEW pd, NEW b, NEW i, NEW m, NEW s, NEW vs,
         Running(P, dom, pd, b, i, m, s, vs)
  PROVE  MutMakes(MutInst(m, P.code[b][i], <<b, i>>), m, P.code[b][i], <<b, i>>, Contents(P, b, i, m))
<1>1. PICK x, pos, old : x = P.code[b][i] /\ pos = <<b, i>> /\ old = Contents(P, b, i, m)
  OBVIOUS
<1>2. MutShape(m) /\ ~m.ub /\ old = [j \in 1 .. Len(x.c) |-> m.heap[m.env[x.c[j]]]]
  BY <1>1 DEF Running, Contents
<1>3. ~\E j \in DOMAIN old : old[j] = Freed
  <2>1. \A j \in 1 .. Len(x.c) : m.heap[m.env[x.c[j]]] # Freed
    BY <1>1 DEF Running
  <2> QED
    BY <1>2, <2>1
<1>4. MutMakes(MutInst(m, x, pos), m, x, pos, old)
  BY <1>2, <1>3, MutInstForms
<1> QED
  BY <1>1, <1>4

\* Operands that are bound as they were see the contents.
LEMMA OperandsIn ==
  ASSUME NEW P, NEW dom, NEW pd, NEW b, NEW i, NEW m, NEW s, NEW vs,
         Running(P, dom, pd, b, i, m, s, vs), NEW env, NEW args, Len(args) = Len(P.code[b][i].c),
         \A j \in 1 .. Len(P.code[b][i].c) : args[j] = vs[j],
         \A v : ~HereOf(v, b, i) => Bound(env, v) = Bound(s.env, v)
  PROVE  Sees(env, args, Contents(P, b, i, m))
<1>1. ASSUME NEW j \in 1 .. Len(P.code[b][i].c)
      PROVE  Bound(env, args[j]) = m.heap[m.env[P.code[b][i].c[j]]]
  BY DEF Running
<1> QED
  BY <1>1 DEF Contents, Sees

Follows(P, dom, m, s, m2, s2, b, i) ==
  MutShape(m2) /\ SSAShape(s2) /\ Moved(P, dom, m, s, m2, s2, b, i)

\* A sequence or an array is written: its next version is bound to its new content.
LEMMA WriteMoves ==
  ASSUME NEW P, NEW dom, NEW pd, NEW b, NEW i, NEW m, NEW s, NEW vs,
         Running(P, dom, pd, b, i, m, s, vs), P.code[b][i].op \in WriteOps
  PROVE  Follows(P, dom, m, s, MutInst(m, P.code[b][i], <<b, i>>),
                 SSAInst(s, Stands(b, i, EffectOf[P.code[b][i].op],
                                   <<Val("ssa", P.code[b][i].c[1], b, i)>>, <<vs[1]>>)), b, i)
<1>1. PICK x, pos, old, new : /\ x = P.code[b][i] /\ pos = <<b, i>> /\ old = Contents(P, b, i, m)
                              /\ new = Val("ssa", x.c[1], b, i)
  OBVIOUS
<1>2. PICK op, args, t : op = EffectOf[x.op] /\ args = <<vs[1]>> /\ t = <<op, pos>> \o old
  OBVIOUS
<1>3. PICK m2, s2 : m2 = MutInst(m, x, pos) /\ s2 = SSAInst(s, Stands(b, i, op, <<new>>, args))
  OBVIOUS
<1>4. Len(x.c) = 1 /\ b \in Blocks(P) /\ i \in 1 .. Len(P.code[b]) /\ SSAShape(s)
  BY <1>1 DEF Running, Ground, WellFormed, WellTyped
<1>5. op \notin {"End", "UsePHI", "SeqSwap"} /\ new.kind # "src"
  BY <1>1, <1>2 DEF EffectOf, WriteOps, Val
<1>6. Sees(s.env, args, old)
  <2>1. Len(args) = 1 /\ args[1] = vs[1]
    BY <1>2
  <2>2. Len(args) = Len(P.code[b][i].c) /\ \A j \in 1 .. Len(P.code[b][i].c) : args[j] = vs[j]
    BY <1>1, <1>4, <2>1
  <2>3. \A v : ~HereOf(v, b, i) => Bound(s.env, v) = Bound(s.env, v)
    OBVIOUS
  <2> QED
    BY <1>1, <2>2, <2>3, OperandsIn
<1>7. IsMut(m2, m, m.env, [m.heap EXCEPT ![m.env[x.c[1]]] = t], m.obs)
  <2>1. MutMakes(m2, m, x, pos, old)
    BY <1>1, <1>3, MutInstHere
  <2> QED
    BY <1>1, <1>2, <2>1 DEF MutMakes
<1>8. IsSSA(s2, Extend(s.env, new, t), s.obs)
  <2>1. StandsDo(s, b, i, args, old, new, new)
    BY <1>4, <1>6, SSAStands
  <2> QED
    BY <1>1, <1>2, <1>3, <1>5, <2>1 DEF StandsDo
<1>9. m.env[x.c[1]] \in DOMAIN m.heap
  <2>1. 1 \in 1 .. Len(x.c)
    BY <1>4
  <2> QED
    BY <1>1, <2>1, RunningFacts
<1>10. Moved(P, dom, m, s, m2, s2, b, i)
  <2>1. /\ m2.env = m.env /\ m2.obs = m.obs /\ s2.obs = s.obs /\ DOMAIN m2.heap = DOMAIN m.heap
        /\ \A z \in DOMAIN m.heap :
             m2.heap[z] = Freed \/ m2.heap[z] = IF z = m.env[x.c[1]] THEN t ELSE m.heap[z]
    BY <1>7, <1>8, <1>9 DEF IsMut, IsSSA
  <2>2. \A v : Bound(s2.env, v) = IF v = new THEN t ELSE Bound(s.env, v)
    <3>1. \A v : Bound(Extend(s.env, new, t), v) = IF v = new THEN t ELSE Bound(s.env, v)
      BY BoundExtend
    <3> QED
      BY <1>8, <3>1 DEF IsSSA
  <2>3. x.op \in MutOps \ {"MutStructWrite", "MutSeqSwap", "MutSeqSplit"} /\ 1 \in 1 .. Len(x.c)
    BY <1>1, <1>4 DEF MutOps, WriteOps
  <2> QED
    BY <1>1, <2>1, <2>2, <2>3, OneChanged
<1> QED
  BY <1>1, <1>2, <1>3, <1>7, <1>8, <1>10 DEF Follows, IsMut, IsSSA

\* A sequence is inserted into another one, and freed when it was appended.
LEMMA InsertSeqMoves ==
  ASSUME NEW P, NEW dom, NEW pd, NEW b, NEW i, NEW m, NEW s, NEW vs,
         Running(P, dom, pd, b, i, m, s, vs),
         P.code[b][i].op \in {"MutSeqInsertSeq", "MutSeqAppend"}
  PROVE  Follows(P, dom, m, s, MutInst(m, P.code[b][i], <<b, i>>),
                 SSAInst(s, Stands(b, i, "SeqInsertSeq",
                                   <<Val("ssa", P.code[b][i].c[1], b, i)>>, <<vs[1], vs[2]>>)), b, i)
<1>1. PICK x, pos, old, new : /\ x = P.code[b][i] /\ pos = <<b, i>> /\ old = Contents(P, b, i, m)
                              /\ new = Val("ssa", x.c[1], b, i)
  OBVIOUS
<1>2. PICK op, args, t : /\ op = "SeqInsertSeq" /\ args = <<vs[1], vs[2]>>
                         /\ t = <<op, pos>> \o old
  OBVIOUS
<1>3. PICK m2, s2 : m2 = MutInst(m, x, pos) /\ s2 = SSAInst(s, Stands(b, i, op, <<new>>, args))
  OBVIOUS
<1>4. Len(x.c) = 2 /\ b \in Blocks(P) /\ i \in 1 .. Len(P.code[b]) /\ SSAShape(s)
  BY <1>1 DEF Running, Ground, WellFormed, WellTyped, PairOps
<1>5. op \notin {"End", "UsePHI", "SeqSwap"} /\ new.kind # "src" /\ EffectOf[x.op] = op
  BY <1>1, <1>2 DEF EffectOf, Val
<1>6. Sees(s.env, args, old)
  <2>1. Len(args) = 2 /\ args[1] = vs[1] /\ args[2] = vs[2]
    BY <1>2
  <2>2. Len(args) = Len(P.code[b][i].c) /\ \A j \in 1 .. Len(P.code[b][i].c) : args[j] = vs[j]
    BY <1>1, <1>4, <2>1
  <2>3. \A v : ~HereOf(v, b, i) => Bound(s.env, v) = Bound(s.env, v)
    OBVIOUS
  <2> QED
    BY <1>1, <2>2, <2>3, OperandsIn
<1>7. \/ IsMut(m2, m, m.env, [m.heap EXCEPT ![m.env[x.c[1]]] = t], m.obs)
      \/ IsMut(m2, m, m.env, [m.heap EXCEPT ![m.env[x.c[1]]] = t, ![m.env[x.c[2]]] = Freed], m.obs)
  <2>1. MutMakes(m2, m, x, pos, old)
    BY <1>1, <1>3, MutInstHere
  <2> QED
    BY <1>1, <1>2, <1>5, <2>1 DEF MutMakes
<1>8. IsSSA(s2, Extend(s.env, new, t), s.obs)
  <2>1. StandsDo(s, b, i, args, old, new, new)
    BY <1>4, <1>6, SSAStands
  <2> QED
    BY <1>1, <1>2, <1>3, <1>5, <2>1 DEF StandsDo
<1>9. m.env[x.c[1]] \in DOMAIN m.heap
  <2>1. 1 \in 1 .. Len(x.c)
    BY <1>4
  <2> QED
    BY <1>1, <2>1, RunningFacts
<1>10. Moved(P, dom, m, s, m2, s2, b, i)
  <2>1. /\ m2.env = m.env /\ m2.obs = m.obs /\ s2.obs = s.obs /\ DOMAIN m2.heap = DOMAIN m.heap
        /\ \A z \in DOMAIN m.heap :
             m2.heap[z] = Freed \/ m2.heap[z] = IF z = m.env[x.c[1]] THEN t ELSE m.heap[z]
    BY <1>7, <1>8, <1>9 DEF IsMut, IsSSA
  <2>2. \A v : Bound(s2.env, v) = IF v = new THEN t ELSE Bound(s.env, v)
    <3>1. \A v : Bound(Extend(s.env, new, t), v) = IF v = new THEN t ELSE Bound(s.env, v)
      BY BoundExtend
    <3> QED
      BY <1>8, <3>1 DEF IsSSA
  <2>3. x.op \in MutOps \ {"MutStructWrite", "MutSeqSwap", "MutSeqSplit"} /\ 1 \in 1 .. Len(x.c)
    BY <1>1, <1>4 DEF MutOps, PairOps
  <2> QED
    BY <1>1, <2>1, <2>2, <2>3, OneChanged
<1> QED
  BY <1>1, <1>2, <1>3, <1>7, <1>8, <1>10 DEF Follows, IsMut, IsSSA

LEMMA SwapMoves ==
  ASSUME NEW P, NEW dom, NEW pd, NEW b, NEW i, NEW m, NEW s, NEW vs,
         Running(P, dom, pd, b, i, m, s, vs), P.code[b][i].op = "MutSeqSwap"
  PROVE  Follows(P, dom, m, s, MutInst(m, P.code[b][i], <<b, i>>),
                 SSAInst(s, Stands(b, i, "SeqSwap",
                                   <<Val("ssa", P.code[b][i].c[1], b, i),
                                     Val("ssa", P.code[b][i].c[2], b, i)>>, <<vs[1], vs[2]>>)), b, i)
<1>1. PICK x, pos, old, c1, c2 : /\ x = P.code[b][i] /\ pos = <<b, i>> /\ old = Contents(P, b, i, m)
                                 /\ c1 = x.c[1] /\ c2 = x.c[2]
  OBVIOUS
<1>2. PICK new1, new2 : new1 = Val("ssa", c1, b, i) /\ new2 = Val("ssa", c2, b, i)
  OBVIOUS
<1>3. PICK args, t1, t2 : /\ args = <<vs[1], vs[2]>>
                          /\ t1 = <<"From", pos>> \o old /\ t2 = <<"To", pos>> \o old
  OBVIOUS
<1>4. PICK m2, s2 : /\ m2 = MutInst(m, x, pos)
                    /\ s2 = SSAInst(s, Stands(b, i, "SeqSwap", <<new1, new2>>, args))
  OBVIOUS
<1>5. /\ Len(x.c) = 2 /\ b \in Blocks(P) /\ i \in 1 .. Len(P.code[b]) /\ SSAShape(s)
      /\ x.def = NoName
  BY <1>1 DEF Running, Ground, WellFormed, WellTyped, PairOps, Signatures, MutOps
<1>6. Sees(s.env, args, old)
  <2>1. Len(args) = 2 /\ args[1] = vs[1] /\ args[2] = vs[2]
    BY <1>3
  <2>2. Len(args) = Len(P.code[b][i].c) /\ \A j \in 1 .. Len(P.code[b][i].c) : args[j] = vs[j]
    BY <1>1, <1>5, <2>1
  <2>3. \A v : ~HereOf(v, b, i) => Bound(s.env, v) = Bound(s.env, v)
    OBVIOUS
  <2> QED
    BY <1>1, <2>2, <2>3, OperandsIn
<1>7. IsMut(m2, m, m.env, [m.heap EXCEPT ![m.env[c1]] = t1, ![m.env[c2]] = t2], m.obs)
  <2>1. MutMakes(m2, m, x, pos, old)
    BY <1>1, <1>4, MutInstHere
  <2> QED
    BY <1>1, <1>3, <2>1 DEF MutMakes
<1>8. IsSSA(s2, Extend(Extend(s.env, new1, t1), new2, t2), s.obs)
  <2>1. StandsDo(s, b, i, args, old, new1, new2)
    BY <1>5, <1>6, SSAStands
  <2> QED
    BY <1>1, <1>3, <1>4, <2>1 DEF StandsDo
<1>9. /\ Lively(P, dom, b, i, c1) /\ Lively(P, dom, b, i, c2) /\ c1 \in Names(P) /\ c2 \in Names(P)
      /\ 1 \in DOMAIN x.c /\ 2 \in DOMAIN x.c
  <2>1. 1 \in 1 .. Len(x.c) /\ 2 \in 1 .. Len(x.c)
    BY <1>5
  <2>2. x.c \in Seq(Names(P))
    BY <1>1, RunningFacts
  <2>3. \A j \in 1 .. Len(P.code[b][i].c) :
          Lively(P, dom, b, i, P.code[b][i].c[j]) /\ P.code[b][i].c[j] \in Names(P)
    BY RunningFacts
  <2> QED
    BY <1>1, <2>1, <2>2, <2>3
<1>10. /\ \A n : Lively(P, dom, b, i, n) =>
            n \in Names(P) /\ n # NoName /\ m.env[n] \in DOMAIN m.heap
       /\ \A n, l : Lively(P, dom, b, i, n) /\ Lively(P, dom, b, i, l) =>
            (m.env[n] = m.env[l] => n = l)
  BY RunningFacts
<1>11. \A v : Bound(s2.env, v) = IF v = new2 THEN t2 ELSE IF v = new1 THEN t1 ELSE Bound(s.env, v)
  <2>1. PICK e : e = Extend(s.env, new1, t1)
    OBVIOUS
  <2>2. \A v : Bound(Extend(e, new2, t2), v) = IF v = new2 THEN t2 ELSE Bound(e, v)
    BY BoundExtend
  <2>3. \A v : Bound(Extend(s.env, new1, t1), v) = IF v = new1 THEN t1 ELSE Bound(s.env, v)
    BY BoundExtend
  <2>4. s2.env = Extend(e, new2, t2)
    BY <1>8, <2>1 DEF IsSSA
  <2> QED
    BY <2>1, <2>2, <2>3, <2>4
<1>12. /\ m2.env = m.env /\ m2.obs = m.obs /\ s2.obs = s.obs /\ DOMAIN m2.heap = DOMAIN m.heap
       /\ \A z \in DOMAIN m.heap :
            m2.heap[z] = IF z = m.env[c2] THEN t2 ELSE IF z = m.env[c1] THEN t1 ELSE m.heap[z]
  BY <1>7, <1>8, <1>9, <1>10 DEF IsMut, IsSSA
<1>13. /\ HereOf(new1, b, i) /\ HereOf(new2, b, i) /\ new1.web = c1 /\ new2.web = c2
       /\ Renamed(P, c1, b, i) = new1 /\ Renamed(P, c2, b, i) = new2
       /\ Mutates(P, b, i, c1) /\ Mutates(P, b, i, c2)
       /\ Redefines(x, c1) /\ Redefines(x, c2)
  <2>1. HereOf(new1, b, i) /\ HereOf(new2, b, i) /\ new1.web = c1 /\ new2.web = c2
    BY <1>2 DEF HereOf, Val
  <2>2. c1 # NoName /\ c2 # NoName /\ x.op \in MutOps /\ x.op = "MutSeqSwap"
    BY <1>1, <1>9, <1>10 DEF MutOps, PairOps
  <2>3. Renamed(P, c1, b, i) = new1 /\ Renamed(P, c2, b, i) = new2
    BY <1>1, <1>2, <1>5, <2>2 DEF Renamed
  <2>4. Mutates(P, b, i, c1) /\ Mutates(P, b, i, c2) /\ Redefines(x, c1) /\ Redefines(x, c2)
    BY <1>1, <1>9, <2>2 DEF Mutates, Redefines
  <2> QED
    BY <2>1, <2>3, <2>4
<1>14. ASSUME NEW n, Lively(P, dom, b, i, n)
       PROVE  \/ /\ Mutates(P, b, i, n) /\ Redefines(x, n)
                 /\ Bound(s2.env, Renamed(P, n, b, i)) = m2.heap[m.env[n]]
              \/ m2.heap[m.env[n]] = m.heap[m.env[n]] /\ ~Redefines(x, n)
  <2>1. CASE n = c2
    BY <1>10, <1>11, <1>12, <1>13, <1>14, <2>1
  <2>2. CASE n = c1 /\ c1 # c2
    <3>1. m.env[c1] # m.env[c2] /\ new1 # new2 /\ m.env[c1] \in DOMAIN m.heap
      BY <1>9, <1>10, <1>13, <2>2
    <3> QED
      BY <1>11, <1>12, <1>13, <2>2, <3>1
  <2>3. CASE n # c1 /\ n # c2
    <3>1. m.env[n] # m.env[c1] /\ m.env[n] # m.env[c2] /\ m.env[n] \in DOMAIN m.heap /\ n # NoName
      BY <1>9, <1>10, <1>14, <2>3
    <3>2. ~Redefines(x, n)
      BY <1>1, <1>5, <2>3, <3>1 DEF Redefines, ReadOps
    <3> QED
      BY <1>12, <3>1, <3>2
  <2> QED
    BY <2>1, <2>2, <2>3
<1>15. Moved(P, dom, m, s, m2, s2, b, i)
  <2>1. \A v : ~HereOf(v, b, i) => Bound(s2.env, v) = Bound(s.env, v)
    BY <1>11, <1>13
  <2>2. m.obs = s.obs
    BY RunningFacts
  <2> QED
    BY <1>1, <1>5, <1>12, <1>14, <2>1, <2>2 DEF Moved
<1> QED
  BY <1>1, <1>2, <1>3, <1>4, <1>7, <1>8, <1>15 DEF Follows, IsMut, IsSSA

\* The part that is split off is a collection of its own.
LEMMA SplitMoves ==
  ASSUME NEW P, NEW dom, NEW pd, NEW b, NEW i, NEW m, NEW s, NEW vs,
         Running(P, dom, pd, b, i, m, s, vs), P.code[b][i].op = "MutSeqSplit"
  PROVE  Follows(P, dom, m, s, MutInst(m, P.code[b][i], <<b, i>>),
                 SSAInst(SSAInst(s, Stands(b, i, "SeqCopy",
                                           <<Val("copy", P.code[b][i].def, b, i)>>, <<vs[1]>>)),
                         Stands(b, i, "SeqRemove",
                                <<Val("ssa", P.code[b][i].c[1], b, i)>>, <<vs[1]>>)), b, i)
<1>1. PICK x, pos, old, c1, d : /\ x = P.code[b][i] /\ pos = <<b, i>> /\ old = Contents(P, b, i, m)
                                /\ c1 = x.c[1] /\ d = x.def
  OBVIOUS
<1>2. PICK copy, rest : copy = Val("copy", d, b, i) /\ rest = Val("ssa", c1, b, i)
  OBVIOUS
<1>3. PICK args, t1, t2 : /\ args = <<vs[1]>>
                          /\ t1 = <<"SeqCopy", pos>> \o old /\ t2 = <<"SeqRemove", pos>> \o old
  OBVIOUS
<1>4. PICK m2, s1, s2 : /\ m2 = MutInst(m, x, pos)
                        /\ s1 = SSAInst(s, Stands(b, i, "SeqCopy", <<copy>>, args))
                        /\ s2 = SSAInst(s1, Stands(b, i, "SeqRemove", <<rest>>, args))
  OBVIOUS
<1>5. /\ Len(x.c) = 1 /\ b \in Blocks(P) /\ i \in 1 .. Len(P.code[b]) /\ SSAShape(s)
      /\ d # NoName
  BY <1>1 DEF Running, Ground, WellFormed, WellTyped
<1>6. /\ HereOf(copy, b, i) /\ HereOf(rest, b, i) /\ copy # rest
      /\ copy.kind # "src" /\ rest.kind # "src"
  BY <1>2 DEF HereOf, Val
<1>7. ASSUME NEW env, \A v : ~HereOf(v, b, i) => Bound(env, v) = Bound(s.env, v)
      PROVE  Sees(env, args, old)
  <2>1. Len(args) = 1 /\ args[1] = vs[1]
    BY <1>3
  <2>2. Len(args) = Len(P.code[b][i].c) /\ \A j \in 1 .. Len(P.code[b][i].c) : args[j] = vs[j]
    BY <1>1, <1>5, <2>1
  <2> QED
    BY <1>1, <1>7, <2>2, OperandsIn
<1>8. IsSSA(s1, Extend(s.env, copy, t1), s.obs)
  <2>1. Sees(s.env, args, old)
    BY <1>7
  <2>2. StandsDo(s, b, i, args, old, copy, copy)
    BY <1>5, <2>1, SSAStands
  <2> QED
    BY <1>1, <1>3, <1>4, <1>6, <2>2 DEF StandsDo
<1>9. \A v : Bound(s1.env, v) = IF v = copy THEN t1 ELSE Bound(s.env, v)
  <2>1. \A v : Bound(Extend(s.env, copy, t1), v) = IF v = copy THEN t1 ELSE Bound(s.env, v)
    BY BoundExtend
  <2> QED
    BY <1>8, <2>1 DEF IsSSA
<1>10. IsSSA(s2, Extend(s1.env, rest, t2), s.obs)
  <2>1. Sees(s1.env, args, old)
    BY <1>6, <1>7, <1>9
  <2>2. SSAShape(s1) /\ s1.obs = s.obs
    BY <1>8 DEF IsSSA
  <2>3. StandsDo(s1, b, i, args, old, rest, rest)
    BY <2>1, <2>2, SSAStands
  <2> QED
    BY <1>1, <1>3, <1>4, <1>6, <2>2, <2>3 DEF StandsDo
<1>11. \A v : Bound(s2.env, v) = IF v = rest THEN t2 ELSE IF v = copy THEN t1 ELSE Bound(s.env, v)
  <2>1. \A v : Bound(Extend(s1.env, rest, t2), v) = IF v = rest THEN t2 ELSE Bound(s1.env, v)
    BY BoundExtend
  <2> QED
    BY <1>9, <1>10, <2>1 DEF IsSSA
<1>12. PICK fresh : fresh = Cardinality(DOMAIN m.heap) + 1
  OBVIOUS
<1>13. PICK h : h = [m.heap EXCEPT ![m.env[c1]] = t2]
  OBVIOUS
<1>14. IsMut(m2, m, Extend(m.env, d, fresh), Extend(h, fresh, t1), m.obs)
  <2>1. MutMakes(m2, m, x, pos, old)
    BY <1>1, <1>4, MutInstHere
  <2>2. EffectOf[x.op] = "SeqRemove"
    BY <1>1 DEF EffectOf
  <2> QED
    BY <1>1, <1>3, <1>12, <1>13, <2>1, <2>2 DEF MutMakes
<1>15. /\ Lively(P, dom, b, i, c1) /\ c1 \in Names(P) /\ 1 \in DOMAIN x.c /\ c1 # d
  <2>1. 1 \in 1 .. Len(x.c)
    BY <1>5
  <2>2. x.c \in Seq(Names(P))
    BY <1>1, RunningFacts
  <2>3. \A j \in 1 .. Len(P.code[b][i].c) :
          /\ Lively(P, dom, b, i, P.code[b][i].c[j]) /\ P.code[b][i].c[j] \in Names(P)
          /\ P.code[b][i].c[j] # P.code[b][i].def
    BY RunningFacts
  <2> QED
    BY <1>1, <2>1, <2>2, <2>3
<1>16. /\ \A n : Lively(P, dom, b, i, n) =>
            n \in Names(P) /\ n # NoName /\ m.env[n] \in DOMAIN m.heap
       /\ \A n, l : Lively(P, dom, b, i, n) /\ Lively(P, dom, b, i, l) =>
            (m.env[n] = m.env[l] => n = l)
       /\ m.obs = s.obs /\ fresh \notin DOMAIN m.heap
  BY <1>12, RunningFacts
<1>17. /\ DOMAIN m2.heap = DOMAIN m.heap \cup {fresh} /\ m2.heap[fresh] = t1
       /\ \A z \in DOMAIN m.heap : m2.heap[z] = IF z = m.env[c1] THEN t2 ELSE m.heap[z]
  <2>1. DOMAIN h = DOMAIN m.heap /\ \A z \in DOMAIN m.heap : h[z] = IF z = m.env[c1] THEN t2 ELSE m.heap[z]
    BY <1>13
  <2>2. PICK g : g = Extend(h, fresh, t1)
    OBVIOUS
  <2>3. DOMAIN g = DOMAIN h \cup {fresh} /\ g[fresh] = t1 /\ \A z \in DOMAIN h : z # fresh => g[z] = h[z]
    BY <2>2 DEF Extend
  <2> QED
    BY <1>14, <1>16, <2>1, <2>2, <2>3 DEF IsMut
<1>18. /\ Renamed(P, d, b, i) = copy /\ Renamed(P, c1, b, i) = rest
       /\ Mutates(P, b, i, c1) /\ Redefines(x, c1)
  <2>1. c1 # NoName /\ x.op \in MutOps /\ x.op = "MutSeqSplit"
    BY <1>1, <1>15, <1>16 DEF MutOps
  <2>2. Renamed(P, d, b, i) = copy /\ Renamed(P, c1, b, i) = rest
    BY <1>1, <1>2, <1>15, <2>1 DEF Renamed
  <2>3. Mutates(P, b, i, c1) /\ Redefines(x, c1)
    BY <1>1, <1>15, <2>1 DEF Mutates, Redefines
  <2> QED
    BY <2>2, <2>3
<1>19. ASSUME NEW n, Lively(P, dom, b, i, n), n # d
       PROVE  \/ /\ Mutates(P, b, i, n) /\ Redefines(x, n)
                 /\ Bound(s2.env, Renamed(P, n, b, i)) = m2.heap[m.env[n]]
              \/ m2.heap[m.env[n]] = m.heap[m.env[n]] /\ ~Redefines(x, n)
  <2>1. CASE n = c1
    BY <1>11, <1>16, <1>17, <1>18, <1>19, <2>1
  <2>2. CASE n # c1
    <3>1. m.env[n] # m.env[c1] /\ m.env[n] \in DOMAIN m.heap
      BY <1>15, <1>16, <1>19, <2>2
    <3>2. ~Redefines(x, n)
      BY <1>1, <1>19, <2>2 DEF Redefines, ReadOps
    <3> QED
      BY <1>17, <3>1, <3>2
  <2> QED
    BY <2>1, <2>2
<1>20. Moved(P, dom, m, s, m2, s2, b, i)
  <2>1. \A v : ~HereOf(v, b, i) => Bound(s2.env, v) = Bound(s.env, v)
    BY <1>6, <1>11
  <2>2. Bound(s2.env, Renamed(P, d, b, i)) = m2.heap[fresh]
    BY <1>6, <1>11, <1>17, <1>18
  <2>3. m2.obs = s2.obs /\ m2.env = Extend(m.env, d, fresh)
    BY <1>10, <1>14, <1>16 DEF IsMut, IsSSA
  <2> QED
    BY <1>1, <1>5, <1>12, <1>17, <1>19, <2>1, <2>2, <2>3 DEF Moved
<1> QED
  BY <1>1, <1>2, <1>3, <1>4, <1>10, <1>14, <1>20 DEF Follows, IsMut, IsSSA

\* An instruction that mutates nothing: what it defines is bound on both sides.
LEMMA Observed ==
  ASSUME NEW P, NEW dom, NEW pd, NEW b, NEW i, NEW m, NEW s, NEW vs,
         Running(P, dom, pd, b, i, m, s, vs),
         P.code[b][i].op \notin MutOps \/ P.code[b][i].op = "MutStructWrite",
         NEW s2, SSAShape(s2), s2.obs = Append(s.obs, <<<<b, i>>, Contents(P, b, i, m)>>),
         \A v : ~HereOf(v, b, i) => Bound(s2.env, v) = Bound(s.env, v),
         P.code[b][i].def # NoName =>
           Bound(s2.env, Src(P, P.code[b][i].def))
             = <<P.code[b][i].op, <<b, i>>>> \o Contents(P, b, i, m),
         \A n : Lively(P, dom, b, i, n) /\ n # P.code[b][i].def /\ Redefines(P.code[b][i], n) =>
           Bound(s2.env, Renamed(P, n, b, i)) = m.heap[m.env[n]]
  PROVE  Follows(P, dom, m, s, MutInst(m, P.code[b][i], <<b, i>>), s2, b, i)
<1>1. PICK x, pos, old, d : /\ x = P.code[b][i] /\ pos = <<b, i>> /\ old = Contents(P, b, i, m)
                            /\ d = x.def
  OBVIOUS
<1>2. PICK m2, t, fresh : /\ m2 = MutInst(m, x, pos) /\ t = <<x.op, pos>> \o old
                          /\ fresh = Cardinality(DOMAIN m.heap) + 1
  OBVIOUS
<1>3. MutMakes(m2, m, x, pos, old)
  BY <1>1, <1>2, MutInstHere
<1>4. /\ \A n : Lively(P, dom, b, i, n) => m.env[n] \in DOMAIN m.heap
      /\ m.obs = s.obs /\ fresh \notin DOMAIN m.heap
  BY <1>2, RunningFacts
<1>5. x.op = "MutStructWrite" => d = NoName
  BY <1>1 DEF Running, Ground, Signatures, MutOps
<1>6. CASE d = NoName
  <2>1. IsMut(m2, m, m.env, m.heap, Append(m.obs, <<pos, old>>))
    BY <1>1, <1>3, <1>6 DEF MutMakes
  <2>2. Moved(P, dom, m, s, m2, s2, b, i)
    BY <1>1, <1>4, <1>6, <2>1 DEF Moved, IsMut
  <2> QED
    BY <1>1, <1>2, <2>1, <2>2 DEF Follows, IsMut
<1>7. CASE d # NoName
  <2>1. IsMut(m2, m, Extend(m.env, d, fresh), Extend(m.heap, fresh, t), Append(m.obs, <<pos, old>>))
    BY <1>1, <1>2, <1>3, <1>5, <1>7 DEF MutMakes
  <2>2. PICK g : g = Extend(m.heap, fresh, t)
    OBVIOUS
  <2>3. /\ DOMAIN g = DOMAIN m.heap \cup {fresh} /\ g[fresh] = t
        /\ \A z \in DOMAIN m.heap : z # fresh => g[z] = m.heap[z]
    BY <2>2 DEF Extend
  <2>4. Renamed(P, d, b, i) = Src(P, d)
    BY <1>1, <1>5, <1>7 DEF Renamed, MutOps
  <2>5. Moved(P, dom, m, s, m2, s2, b, i)
    <3>1. m2.obs = s2.obs /\ m2.env = Extend(m.env, d, fresh) /\ m2.heap = g
      BY <1>1, <1>4, <2>1, <2>2 DEF IsMut
    <3>2. Bound(s2.env, Renamed(P, d, b, i)) = m2.heap[fresh]
      BY <1>1, <1>2, <1>7, <2>3, <2>4, <3>1
    <3>3. \A n : Lively(P, dom, b, i, n) /\ n # d =>
            /\ m2.heap[m.env[n]] = m.heap[m.env[n]]
            /\ Redefines(x, n) => Bound(s2.env, Renamed(P, n, b, i)) = m2.heap[m.env[n]]
      BY <1>1, <1>4, <2>3, <3>1
    <3> QED
      BY <1>1, <1>2, <1>7, <2>3, <3>1, <3>2, <3>3 DEF Moved
  <2> QED
    BY <1>1, <1>2, <2>1, <2>5 DEF Follows, IsMut
<1> QED
  BY <1>6, <1>7

\* What an instruction defines is defined there.
LEMMA ResultHere ==
  ASSUME NEW P, WellFormed(P), NEW b \in Blocks(P), NEW i \in 1 .. Len(P.code[b]),
         P.code[b][i].def # NoName
  PROVE  /\ HereOf(Src(P, P.code[b][i].def), b, i) /\ Src(P, P.code[b][i].def).kind = "src"
<1>1. PICK d : d = P.code[b][i].def
  OBVIOUS
<1>2. DefPos(P, d) = <<b, i>>
  BY <1>1 DEF WellFormed, SingleDefs
<1> QED
  BY <1>1, <1>2 DEF Src, Val, HereOf

ResultsOf(P, b, i) ==
  IF P.code[b][i].def = NoName THEN << >> ELSE <<Src(P, P.code[b][i].def)>>

\* The instruction, run as op on s, has observed old, bound its result and nothing else.
Stayed(P, s, s2, b, i, op, old) ==
  /\ SSAShape(s2) /\ s2.obs = Append(s.obs, <<<<b, i>>, old>>)
  /\ \A v : ~HereOf(v, b, i) => Bound(s2.env, v) = Bound(s.env, v)
  /\ P.code[b][i].def # NoName =>
       Bound(s2.env, Src(P, P.code[b][i].def)) = <<op, <<b, i>>>> \o old

\* The instruction as it stays, on the versions args of its operands.
LEMMA StaysPut ==
  ASSUME NEW P, NEW dom, NEW pd, NEW b, NEW i, NEW m, NEW s, NEW vs,
         Running(P, dom, pd, b, i, m, s, vs),
         NEW args, Len(args) = Len(P.code[b][i].c), \A j \in 1 .. Len(P.code[b][i].c) : args[j] = vs[j],
         NEW op, op \notin {"End", "UsePHI", "SeqSwap"}
  PROVE  Stayed(P, s, SSAInst(s, Stands(b, i, op, ResultsOf(P, b, i), args)), b, i, op,
                Contents(P, b, i, m))
<1>0. PICK results, s2 : /\ results = IF P.code[b][i].def = NoName THEN << >> ELSE <<Src(P, P.code[b][i].def)>>
                         /\ s2 = SSAInst(s, Stands(b, i, op, results, args))
  OBVIOUS
<1>1. PICK x, pos, old, d : /\ x = P.code[b][i] /\ pos = <<b, i>> /\ old = Contents(P, b, i, m)
                            /\ d = x.def
  OBVIOUS
<1>2. PICK v0, t : v0 = Src(P, d) /\ t = <<op, pos>> \o old
  OBVIOUS
<1>3. SSAShape(s) /\ b \in Blocks(P) /\ i \in 1 .. Len(P.code[b]) /\ WellFormed(P)
  BY DEF Running, Ground
<1>4. Sees(s.env, args, old)
  <2>1. \A v : ~HereOf(v, b, i) => Bound(s.env, v) = Bound(s.env, v)
    OBVIOUS
  <2> QED
    BY <1>1, <2>1, OperandsIn
<1>5. StandsDo(s, b, i, args, old, v0, v0)
  BY <1>3, <1>4, SSAStands
<1>6. CASE d = NoName
  <2>1. IsSSA(s2, s.env, Append(s.obs, <<pos, old>>))
    BY <1>0, <1>1, <1>5, <1>6 DEF StandsDo
  <2> QED
    BY <1>0, <1>1, <1>6, <2>1 DEF IsSSA, Stayed, ResultsOf
<1>7. CASE d # NoName
  <2>1. HereOf(v0, b, i) /\ v0.kind = "src"
    BY <1>1, <1>2, <1>3, <1>7, ResultHere
  <2>2. IsSSA(s2, Extend(s.env, v0, t), Append(s.obs, <<pos, old>>))
    BY <1>0, <1>1, <1>2, <1>5, <1>7, <2>1 DEF StandsDo
  <2>3. \A v : Bound(Extend(s.env, v0, t), v) = IF v = v0 THEN t ELSE Bound(s.env, v)
    BY BoundExtend
  <2> QED
    BY <1>0, <1>1, <1>2, <2>1, <2>2, <2>3 DEF IsSSA, Stayed, ResultsOf
<1> QED
  BY <1>0, <1>1, <1>6, <1>7 DEF ResultsOf, Stayed

\* An instruction that stays, when its operand gets no use-PHI.
LEMMA OtherMoves ==
  ASSUME NEW P, NEW dom, NEW pd, NEW b, NEW i, NEW m, NEW s, NEW vs,
         Running(P, dom, pd, b, i, m, s, vs),
         P.code[b][i].op \notin MutOps \cup {"End", "UsePHI", "SeqSwap"},
         ~(UsePHIs /\ P.code[b][i].op \in ReadOps),
         NEW args, Len(args) = Len(P.code[b][i].c), \A j \in 1 .. Len(P.code[b][i].c) : args[j] = vs[j]
  PROVE  Follows(P, dom, m, s, MutInst(m, P.code[b][i], <<b, i>>),
                 SSAInst(s, Stands(b, i, P.code[b][i].op, ResultsOf(P, b, i), args)), b, i)
<1>1. PICK op, results, s2 : /\ op = P.code[b][i].op /\ results = ResultsOf(P, b, i)
                             /\ s2 = SSAInst(s, Stands(b, i, op, results, args))
  OBVIOUS
<1>2. /\ SSAShape(s2) /\ s2.obs = Append(s.obs, <<<<b, i>>, Contents(P, b, i, m)>>)
      /\ \A v : ~HereOf(v, b, i) => Bound(s2.env, v) = Bound(s.env, v)
      /\ P.code[b][i].def # NoName =>
           Bound(s2.env, Src(P, P.code[b][i].def)) = <<op, <<b, i>>>> \o Contents(P, b, i, m)
  <2>1. Stayed(P, s, SSAInst(s, Stands(b, i, op, ResultsOf(P, b, i), args)), b, i, op,
               Contents(P, b, i, m))
    BY <1>1, StaysPut DEF MutOps
  <2> QED
    BY <1>1, <2>1 DEF Stayed
<1>3. \A n : n # P.code[b][i].def => ~Redefines(P.code[b][i], n)
  BY DEF Redefines, MutOps, PairOps
<1> QED
  BY <1>1, <1>2, <1>3, Observed

LEMMA StructWriteMoves ==
  ASSUME NEW P, NEW dom, NEW pd, NEW b, NEW i, NEW m, NEW s, NEW vs,
         Running(P, dom, pd, b, i, m, s, vs),
         P.code[b][i].op = "MutStructWrite", P.code[b][i].c = << >>
  PROVE  Follows(P, dom, m, s, MutInst(m, P.code[b][i], <<b, i>>),
                 SSAInst(s, Stands(b, i, "StructWrite", << >>, << >>)), b, i)
<1>1. PICK op, s2, args : /\ op = "StructWrite" /\ args = << >>
                          /\ s2 = SSAInst(s, Stands(b, i, op, << >>, args))
  OBVIOUS
<1>2. P.code[b][i].def = NoName
  BY DEF Running, Ground, Signatures, MutOps
<1>3. op \notin {"End", "UsePHI", "SeqSwap"} /\ Len(args) = 0 /\ Len(P.code[b][i].c) = 0
  BY <1>1
<1>4. Len(args) = Len(P.code[b][i].c) /\ \A j \in 1 .. Len(P.code[b][i].c) : args[j] = vs[j]
  BY <1>3
<1>5. ResultsOf(P, b, i) = << >>
  BY <1>2 DEF ResultsOf
<1>6. /\ SSAShape(s2) /\ s2.obs = Append(s.obs, <<<<b, i>>, Contents(P, b, i, m)>>)
      /\ \A v : ~HereOf(v, b, i) => Bound(s2.env, v) = Bound(s.env, v)
  <2>1. Stayed(P, s, SSAInst(s, Stands(b, i, op, ResultsOf(P, b, i), args)), b, i, op,
               Contents(P, b, i, m))
    BY <1>3, <1>4, StaysPut
  <2> QED
    BY <1>1, <1>5, <2>1 DEF Stayed
<1>7. \A n : n # P.code[b][i].def => ~Redefines(P.code[b][i], n)
  BY DEF Redefines, ReadOps
<1> QED
  BY <1>1, <1>2, <1>6, <1>7, Observed

\* A read, or has(), with the use-PHI behind it.
LEMMA ReadMoves ==
  ASSUME NEW P, NEW dom, NEW pd, NEW b, NEW i, NEW m, NEW s, NEW vs,
         Running(P, dom, pd, b, i, m, s, vs), P.code[b][i].op \in ReadOps \cup {"AssocHas"},
         Len(vs) = Len(P.code[b][i].c)
  PROVE  Follows(P, dom, m, s, MutInst(m, P.code[b][i], <<b, i>>),
                 SSAInst(SSAInst(s, Stands(b, i, P.code[b][i].op, ResultsOf(P, b, i), vs)),
                         Stands(b, i, "UsePHI", <<Val("use", P.code[b][i].c[1], b, i)>>, vs)), b, i)
<1>1. PICK op, results, s1 : /\ op = P.code[b][i].op /\ results = ResultsOf(P, b, i)
                             /\ s1 = SSAInst(s, Stands(b, i, op, results, vs))
  OBVIOUS
<1>2. PICK c1, use : c1 = P.code[b][i].c[1] /\ use = Val("use", c1, b, i)
  OBVIOUS
<1>3. PICK s2 : s2 = SSAInst(s1, Stands(b, i, "UsePHI", <<use>>, vs))
  OBVIOUS
<1>4. op \notin MutOps \cup {"End", "UsePHI", "SeqSwap"}
  BY <1>1 DEF ReadOps, MutOps, WriteOps, PairOps
<1>5. /\ SSAShape(s1) /\ s1.obs = Append(s.obs, <<<<b, i>>, Contents(P, b, i, m)>>)
      /\ \A v : ~HereOf(v, b, i) => Bound(s1.env, v) = Bound(s.env, v)
      /\ P.code[b][i].def # NoName =>
           Bound(s1.env, Src(P, P.code[b][i].def)) = <<op, <<b, i>>>> \o Contents(P, b, i, m)
  <2>1. Stayed(P, s, SSAInst(s, Stands(b, i, op, ResultsOf(P, b, i), vs)), b, i, op,
               Contents(P, b, i, m))
    BY <1>4, StaysPut
  <2> QED
    BY <1>1, <2>1 DEF Stayed
<1>6. /\ WellFormed(P) /\ Len(P.code[b][i].c) = 1 /\ b \in Blocks(P) /\ i \in 1 .. Len(P.code[b])
      /\ Bound(s.env, vs[1]) = m.heap[m.env[c1]] /\ ~HereOf(vs[1], b, i)
  <2>1. Len(P.code[b][i].c) = 1 /\ b \in Blocks(P) /\ i \in 1 .. Len(P.code[b]) /\ WellFormed(P)
    <3>1. b \in Blocks(P) /\ i \in 1 .. Len(P.code[b]) /\ WellFormed(P)
      BY DEF Running, Ground
    <3> QED
      BY <3>1 DEF WellFormed, WellTyped
  <2>2. 1 \in 1 .. Len(P.code[b][i].c)
    BY <2>1
  <2> QED
    BY <1>2, <2>1, <2>2 DEF Running
<1>7. HereOf(use, b, i) /\ use.kind = "use"
  BY <1>2 DEF HereOf, Val
<1>8. PICK in : Sees(s1.env, vs, in)
  BY DEF Sees
<1>9. in[1] = m.heap[m.env[c1]]
  <2>1. in[1] = Bound(s1.env, vs[1])
    <3>1. Len(vs) = 1 /\ 1 \in 1 .. Len(vs)
      BY <1>6
    <3>2. in = [j \in 1 .. Len(vs) |-> Bound(s1.env, vs[j])]
      BY <1>8 DEF Sees
    <3> QED
      BY <3>1, <3>2
  <2> QED
    BY <1>5, <1>6, <2>1
<1>10. IsSSA(s2, Extend(s1.env, use, in[1]), s1.obs)
  <2>1. StandsDo(s1, b, i, vs, in, use, use)
    BY <1>5, <1>8, SSAStands
  <2> QED
    BY <1>3, <2>1 DEF StandsDo
<1>11. \A v : Bound(s2.env, v) = IF v = use THEN in[1] ELSE Bound(s1.env, v)
  <2>1. \A v : Bound(Extend(s1.env, use, in[1]), v) = IF v = use THEN in[1] ELSE Bound(s1.env, v)
    BY BoundExtend
  <2> QED
    BY <1>10, <2>1 DEF IsSSA
<1>12. SSAShape(s2) /\ s2.obs = Append(s.obs, <<<<b, i>>, Contents(P, b, i, m)>>)
  BY <1>5, <1>10 DEF IsSSA
<1>13. \A v : ~HereOf(v, b, i) => Bound(s2.env, v) = Bound(s.env, v)
  BY <1>5, <1>7, <1>11
<1>14. P.code[b][i].def # NoName =>
         Bound(s2.env, Src(P, P.code[b][i].def)) = <<op, <<b, i>>>> \o Contents(P, b, i, m)
  <2> SUFFICES ASSUME P.code[b][i].def # NoName
               PROVE  Bound(s2.env, Src(P, P.code[b][i].def)) = <<op, <<b, i>>>> \o Contents(P, b, i, m)
    OBVIOUS
  <2>1. Src(P, P.code[b][i].def).kind = "src"
    BY <1>6, ResultHere
  <2> QED
    BY <1>5, <1>7, <1>11, <2>1
<1>15. ASSUME NEW n, n # P.code[b][i].def, Redefines(P.code[b][i], n)
       PROVE  n = c1 /\ Renamed(P, n, b, i) = use
  BY <1>1, <1>2, <1>4, <1>15 DEF Redefines, Renamed, MutOps, PairOps
<1>16. \A n : Lively(P, dom, b, i, n) /\ n # P.code[b][i].def /\ Redefines(P.code[b][i], n) =>
         Bound(s2.env, Renamed(P, n, b, i)) = m.heap[m.env[n]]
  BY <1>9, <1>11, <1>15
<1>17. Follows(P, dom, m, s, MutInst(m, P.code[b][i], <<b, i>>), s2, b, i)
  BY <1>1, <1>4, <1>12, <1>13, <1>14, <1>16, Observed
<1> QED
  BY <1>1, <1>2, <1>3, <1>17

\* What runs after k, when one piece or two are written.
LEMMA RunsOn ==
  ASSUME NEW S, NEW s0, NEW k \in Seq(S), NEW r, \A j \in DOMAIN r : r[j] \in S, NEW x, NEW y
  PROVE  /\ r = <<x>> => SSACode(s0, k \o r) = SSAInst(SSACode(s0, k), x)
         /\ r = <<x, y>> => SSACode(s0, k \o r) = SSAInst(SSAInst(SSACode(s0, k), x), y)
<1>1. ASSUME r = <<x>>
      PROVE  SSACode(s0, k \o r) = SSAInst(SSACode(s0, k), x)
  <2>1. x \in S
    <3>1. 1 \in DOMAIN r /\ r[1] = x
      BY <1>1
    <3> QED
      BY <3>1
  <2>2. /\ SSACode(s0, k \o <<x>>) = SSAInst(SSACode(s0, k), x)
        /\ SSACode(s0, k \o <<x, x>>) = SSAInst(SSAInst(SSACode(s0, k), x), x)
    BY <2>1, SSACodeGroup
  <2> QED
    BY <1>1, <2>2
<1>2. ASSUME r = <<x, y>>
      PROVE  SSACode(s0, k \o r) = SSAInst(SSAInst(SSACode(s0, k), x), y)
  <2>1. x \in S /\ y \in S
    <3>1. 1 \in DOMAIN r /\ r[1] = x /\ 2 \in DOMAIN r /\ r[2] = y
      BY <1>2
    <3> QED
      BY <3>1
  <2>2. /\ SSACode(s0, k \o <<x>>) = SSAInst(SSACode(s0, k), x)
        /\ SSACode(s0, k \o <<x, y>>) = SSAInst(SSAInst(SSACode(s0, k), x), y)
    BY <2>1, SSACodeGroup
  <2> QED
    BY <1>2, <2>2
<1> QED
  BY <1>1, <1>2

\* A version whose definition every path to instruction i passes is not defined there.
LEMMA NotHere ==
  ASSUME NEW P, NEW dom, NEW b \in Blocks(P), NEW i \in 1 .. Len(P.code[b]),
         NEW v, v.idx \in Nat, ReachesAt(dom, v, <<b, i>>)
  PROVE  ~HereOf(v, b, i)
<1>1. b # 0 /\ i \in Nat /\ i # 0
  BY DEF Blocks
<1> QED
  BY <1>1 DEF ReachesAt, IsArgument, Dominates, HereOf

\* An operand that is not freed is bound to its content, under every latest version.
LEMMA OperandBound ==
  ASSUME NEW P, NEW dom, NEW pd, Ground(P, dom, pd), NEW b \in Blocks(P),
         NEW i \in 1 .. Len(P.code[b]), NEW m, NEW s, Sim(P, dom, pd, m, s, b, i), ~m.ub,
         NEW n, Lively(P, dom, b, i, n), m.heap[m.env[n]] # Freed,
         NEW v, Latest(P, dom, pd, n, <<b, i>>, v)
  PROVE  Bound(s.env, v) = m.heap[m.env[n]] /\ ~HereOf(v, b, i)
<1>1. Carries(P, dom, pd, s.env, b, i, n, m.heap[m.env[n]])
  BY DEF Sim
<1>2. WellFormed(P) /\ n \in Names(P)
  BY DEF Lively, Ground
<1>3. v \in Versions(P, pd, n) /\ ReachesAt(dom, v, <<b, i>>)
  BY DEF Latest
<1>4. v.idx \in Nat
  BY <1>2, <1>3, VersionFacts DEF Located, Ground
<1>5. ~HereOf(v, b, i)
  BY <1>3, <1>4, NotHere
<1> QED
  BY <1>1, <1>5 DEF Carries

\* One that nothing has mutated is bound to its content under its own definition.
LEMMA DefinedBound ==
  ASSUME NEW P, NEW dom, NEW pd, Ground(P, dom, pd), NEW b \in Blocks(P),
         NEW i \in 1 .. Len(P.code[b]), NEW m, NEW s, Sim(P, dom, pd, m, s, b, i), ~m.ub,
         NEW n, Lively(P, dom, b, i, n), m.heap[m.env[n]] # Freed,
         n \notin Splits(P), AsDefined(P, n, b, i)
  PROVE  Bound(s.env, Src(P, n)) = m.heap[m.env[n]] /\ ~HereOf(Src(P, n), b, i)
<1>1. Carries(P, dom, pd, s.env, b, i, n, m.heap[m.env[n]])
  BY DEF Sim
<1>2. n \in Names(P) /\ ReachesAt(dom, Src(P, n), <<b, i>>) /\ WellFormed(P)
  BY DEF Lively, Ground
<1>3. Src(P, n).idx \in Nat
  BY <1>2, SrcFields
<1>4. ~HereOf(Src(P, n), b, i)
  BY <1>2, <1>3, NotHere
<1> QED
  BY <1>1, <1>4 DEF Carries

\* What the pass writes for an instruction follows it, unless it is has() without use-PHIs.
LEMMA PiecesFollow ==
  ASSUME NEW P, NEW dom, NEW pd, NEW b, NEW i, NEW m, NEW s0, NEW S, NEW k \in Seq(S), NEW vs,
         Running(P, dom, pd, b, i, m, SSACode(s0, k), vs),
         P.code[b][i].op \notin {"End", "UsePHI", "SeqSwap"},
         P.code[b][i].op = "MutStructWrite" => P.code[b][i].c = << >>,
         Len(vs) = Len(P.code[b][i].c), ~(P.code[b][i].op = "AssocHas" /\ ~UsePHIs),
         \A j \in DOMAIN Rewritten(P, b, i, vs) : Rewritten(P, b, i, vs)[j] \in S
  PROVE  Follows(P, dom, m, SSACode(s0, k), MutInst(m, P.code[b][i], <<b, i>>),
                 SSACode(s0, k \o Rewritten(P, b, i, vs)), b, i)
<1>1. PICK s, r, x : s = SSACode(s0, k) /\ r = Rewritten(P, b, i, vs) /\ x = P.code[b][i]
  OBVIOUS
<1>2. PICK results, source : /\ results = IF x.def = NoName THEN << >> ELSE <<Src(P, x.def)>>
                             /\ source = Src(P, x.c[1])
  OBVIOUS
<1>3. StandsFor(r, x, b, i, vs, results, source)
  BY <1>1, <1>2, RewrittenForms
<1>4. Running(P, dom, pd, b, i, m, s, vs) /\ results = ResultsOf(P, b, i)
  BY <1>1, <1>2 DEF ResultsOf
<1>5. \A y, z : /\ r = <<y>> => SSACode(s0, k \o r) = SSAInst(s, y)
                /\ r = <<y, z>> => SSACode(s0, k \o r) = SSAInst(SSAInst(s, y), z)
  <2>1. \A j \in DOMAIN r : r[j] \in S
    BY <1>1
  <2> QED
    BY <1>1, <2>1, RunsOn
<1> DEFINE Goal(s2) == Follows(P, dom, m, s, MutInst(m, x, <<b, i>>), s2, b, i)
<1>6. CASE x.op = "MutStructWrite"
  <2>1. PICK y : y = Stands(b, i, "StructWrite", << >>, << >>)
    OBVIOUS
  <2>2. Goal(SSAInst(s, y))
    BY <1>1, <1>4, <1>6, <2>1, StructWriteMoves
  <2>3. r = <<y>>
    BY <1>3, <1>6, <2>1 DEF StandsFor
  <2> QED
    BY <1>1, <1>5, <2>2, <2>3
<1>7. CASE x.op \in WriteOps
  <2>1. PICK y : y = Stands(b, i, EffectOf[x.op], <<Val("ssa", x.c[1], b, i)>>, <<vs[1]>>)
    OBVIOUS
  <2>2. Goal(SSAInst(s, y))
    BY <1>1, <1>4, <1>7, <2>1, WriteMoves
  <2>3. r = <<y>>
    BY <1>3, <1>7, <2>1 DEF StandsFor
  <2> QED
    BY <1>1, <1>5, <2>2, <2>3
<1>8. CASE x.op \in {"MutSeqInsertSeq", "MutSeqAppend"}
  <2>1. PICK y : y = Stands(b, i, "SeqInsertSeq", <<Val("ssa", x.c[1], b, i)>>, <<vs[1], vs[2]>>)
    OBVIOUS
  <2>2. Goal(SSAInst(s, y))
    BY <1>1, <1>4, <1>8, <2>1, InsertSeqMoves
  <2>3. CASE x.op = "MutSeqInsertSeq"
    <3>1. r = <<y>>
      BY <1>3, <2>1, <2>3 DEF StandsFor
    <3> QED
      BY <1>1, <1>5, <2>2, <3>1
  <2>4. CASE x.op = "MutSeqAppend"
    <3>1. PICK end : end = Stands(b, i, "End", << >>, << >>)
      OBVIOUS
    <3>2. r = <<end, y>>
      BY <1>3, <2>1, <2>4, <3>1 DEF StandsFor
    <3>3. SSAInst(s, end) = s
      <4>1. SSAShape(s)
        BY <1>4 DEF Running
      <4>2. PICK in : Sees(s.env, vs, in)
        BY DEF Sees
      <4>3. StandsDo(s, b, i, vs, in, in, in)
        BY <4>1, <4>2, SSAStands
      <4> QED
        BY <3>1, <4>3 DEF StandsDo
    <3> QED
      BY <1>1, <1>5, <2>2, <3>2, <3>3
  <2> QED
    BY <1>8, <2>3, <2>4
<1>9. CASE x.op = "MutSeqSwap"
  <2>1. PICK y : y = Stands(b, i, "SeqSwap", <<Val("ssa", x.c[1], b, i), Val("ssa", x.c[2], b, i)>>,
                            <<vs[1], vs[2]>>)
    OBVIOUS
  <2>2. Goal(SSAInst(s, y))
    BY <1>1, <1>4, <1>9, <2>1, SwapMoves
  <2>3. r = <<y>>
    BY <1>3, <1>9, <2>1 DEF StandsFor
  <2> QED
    BY <1>1, <1>5, <2>2, <2>3
<1>10. CASE x.op = "MutSeqSplit"
  <2>1. PICK y, z : /\ y = Stands(b, i, "SeqCopy", <<Val("copy", x.def, b, i)>>, <<vs[1]>>)
                    /\ z = Stands(b, i, "SeqRemove", <<Val("ssa", x.c[1], b, i)>>, <<vs[1]>>)
    OBVIOUS
  <2>2. Goal(SSAInst(SSAInst(s, y), z))
    BY <1>1, <1>4, <1>10, <2>1, SplitMoves
  <2>3. r = <<y, z>>
    BY <1>3, <1>10, <2>1 DEF StandsFor
  <2> QED
    BY <1>1, <1>5, <2>2, <2>3
<1>11. CASE UsePHIs /\ x.op \in ReadOps \cup {"AssocHas"}
  <2>1. PICK y, z : /\ y = Stands(b, i, x.op, results, vs)
                    /\ z = Stands(b, i, "UsePHI", <<Val("use", x.c[1], b, i)>>, vs)
    OBVIOUS
  <2>2. Goal(SSAInst(SSAInst(s, y), z))
    BY <1>1, <1>4, <1>11, <2>1, ReadMoves
  <2>3. r = <<y, z>>
    BY <1>3, <1>11, <2>1 DEF StandsFor
  <2> QED
    BY <1>1, <1>5, <2>2, <2>3
<1>12. CASE x.op \notin MutOps /\ ~(UsePHIs /\ x.op \in ReadOps \cup {"AssocHas"})
  <2>1. PICK y : y = Stands(b, i, x.op, results, vs)
    OBVIOUS
  <2>2. Goal(SSAInst(s, y))
    <3>1. P.code[b][i].op \notin MutOps \cup {"End", "UsePHI", "SeqSwap"}
      BY <1>1, <1>12
    <3>2. ~(UsePHIs /\ P.code[b][i].op \in ReadOps)
      BY <1>1, <1>12
    <3>3. \A j \in 1 .. Len(P.code[b][i].c) : vs[j] = vs[j]
      OBVIOUS
    <3>4. Follows(P, dom, m, s, MutInst(m, P.code[b][i], <<b, i>>),
                  SSAInst(s, Stands(b, i, P.code[b][i].op, ResultsOf(P, b, i), vs)), b, i)
      BY <1>4, <3>1, <3>2, <3>3, OtherMoves
    <3> QED
      BY <1>1, <1>4, <2>1, <3>4
  <2>3. r = <<y>>
    BY <1>1, <1>3, <1>12, <2>1 DEF StandsFor
  <2> QED
    BY <1>1, <1>5, <2>2, <2>3
<1>13. x.op \in MutOps => \/ x.op \in WriteOps
                          \/ x.op \in {"MutStructWrite", "MutSeqInsertSeq", "MutSeqAppend",
                                       "MutSeqSwap", "MutSeqSplit"}
  BY DEF MutOps, PairOps
<1> QED
  BY <1>6, <1>7, <1>8, <1>9, <1>10, <1>11, <1>12, <1>13

\* The mutable program went wrong, or both programs agree before instruction i of block b.
Agreeing(P, dom, pd, m, s, b, i) ==
  m.ub \/ (MutShape(m) /\ SSAShape(s) /\ Sim(P, dom, pd, m, s, b, i))

\* has() without use-PHIs asks what the collection was defined as.
LEMMA HasFollows ==
  ASSUME NEW P, NEW dom, NEW pd, Ground(P, dom, pd), Faithful(P), NEW b \in Blocks(P),
         NEW i \in 1 .. Len(P.code[b]), NEW m, NEW s0, NEW S, NEW k \in Seq(S), NEW vs,
         Sim(P, dom, pd, m, SSACode(s0, k), b, i), ~m.ub, MutShape(m), SSAShape(SSACode(s0, k)),
         P.code[b][i].op = "AssocHas", ~UsePHIs,
         m.heap[m.env[P.code[b][i].c[1]]] # Freed,
         \A j \in DOMAIN Rewritten(P, b, i, vs) : Rewritten(P, b, i, vs)[j] \in S
  PROVE  Follows(P, dom, m, SSACode(s0, k), MutInst(m, P.code[b][i], <<b, i>>),
                 SSACode(s0, k \o Rewritten(P, b, i, vs)), b, i)
<1>1. PICK s, r, x : s = SSACode(s0, k) /\ r = Rewritten(P, b, i, vs) /\ x = P.code[b][i]
  OBVIOUS
<1>2. PICK source, args, c1 : c1 = x.c[1] /\ source = Src(P, c1) /\ args = <<source>>
  OBVIOUS
<1>3. /\ WellFormed(P) /\ Signatures(P) /\ Len(x.c) = 1 /\ x.def = NoName /\ c1 \notin Splits(P)
      /\ AsDefined(P, c1, b, i)
  <2>1. WellFormed(P) /\ Signatures(P)
    BY DEF Ground
  <2>2. Len(x.c) = 1
    BY <1>1, <2>1 DEF WellFormed, WellTyped, PairOps
  <2>3. x.def = NoName /\ c1 \notin Splits(P)
    BY <1>1, <1>2, <2>1 DEF Signatures
  <2>4. AsDefined(P, c1, b, i)
    BY <1>1, <1>2 DEF Faithful
  <2> QED
    BY <2>1, <2>2, <2>3, <2>4
<1>4. Lively(P, dom, b, i, c1)
  <2>1. 1 \in 1 .. Len(P.code[b][i].c)
    BY <1>1, <1>3
  <2> QED
    BY <1>1, <1>2, <2>1, UsedIsLively
<1>5. Bound(s.env, source) = m.heap[m.env[c1]] /\ ~HereOf(source, b, i)
  <2>1. m.heap[m.env[c1]] # Freed /\ Sim(P, dom, pd, m, s, b, i)
    BY <1>1, <1>2
  <2>2. Bound(s.env, Src(P, c1)) = m.heap[m.env[c1]] /\ ~HereOf(Src(P, c1), b, i)
    BY <1>3, <1>4, <2>1, DefinedBound
  <2> QED
    BY <1>2, <2>2
<1>6. Running(P, dom, pd, b, i, m, s, args)
  <2>1. \A j \in 1 .. Len(P.code[b][i].c) : j = 1
    BY <1>1, <1>3
  <2>2. args[1] = source /\ P.code[b][i].c[1] = c1 /\ m.heap[m.env[c1]] # Freed
    BY <1>1, <1>2
  <2>3. \A j \in 1 .. Len(P.code[b][i].c) :
          /\ m.heap[m.env[P.code[b][i].c[j]]] # Freed
          /\ Bound(s.env, args[j]) = m.heap[m.env[P.code[b][i].c[j]]]
          /\ ~HereOf(args[j], b, i)
    BY <1>5, <2>1, <2>2
  <2> QED
    BY <1>1, <2>3 DEF Running
<1>7. PICK y : y = Stands(b, i, "AssocHas", << >>, args)
  OBVIOUS
<1>8. r = <<y>>
  <2>1. PICK results : results = IF x.def = NoName THEN << >> ELSE <<Src(P, x.def)>>
    OBVIOUS
  <2>2. StandsFor(r, x, b, i, vs, results, source)
    BY <1>1, <1>2, <2>1, RewrittenForms
  <2> QED
    BY <1>1, <1>2, <1>7, <2>2 DEF StandsFor
<1>9. SSACode(s0, k \o r) = SSAInst(s, y)
  <2>1. \A j \in DOMAIN r : r[j] \in S
    BY <1>1
  <2>2. /\ r = <<y>> => SSACode(s0, k \o r) = SSAInst(SSACode(s0, k), y)
        /\ r = <<y, y>> => SSACode(s0, k \o r) = SSAInst(SSAInst(SSACode(s0, k), y), y)
    BY <2>1, RunsOn
  <2> QED
    BY <1>1, <1>8, <2>2
<1>10. Follows(P, dom, m, s, MutInst(m, P.code[b][i], <<b, i>>),
               SSAInst(s, Stands(b, i, P.code[b][i].op, ResultsOf(P, b, i), args)), b, i)
  <2>1. P.code[b][i].op \notin MutOps \cup {"End", "UsePHI", "SeqSwap"}
    BY DEF MutOps, WriteOps, PairOps
  <2>2. Len(args) = Len(P.code[b][i].c) /\ \A j \in 1 .. Len(P.code[b][i].c) : args[j] = args[j]
    BY <1>1, <1>2, <1>3
  <2> QED
    BY <1>6, <2>1, <2>2, OtherMoves
<1>11. ResultsOf(P, b, i) = << >> /\ P.code[b][i].op = "AssocHas"
  BY <1>1, <1>3 DEF ResultsOf
<1> QED
  BY <1>1, <1>7, <1>9, <1>10, <1>11

\* To use what is freed is undefined.
LEMMA FreedFails ==
  ASSUME NEW m, MutShape(m), ~m.ub, NEW x, NEW pos, NEW j \in 1 .. Len(x.c),
         m.heap[m.env[x.c[j]]] = Freed
  PROVE  MutInst(m, x, pos).ub
<1> DEFINE old == [l \in 1 .. Len(x.c) |-> m.heap[m.env[x.c[l]]]]
<1>1. LET r == MutInst(m, x, pos)
      IN  IF m.ub THEN r = m
          ELSE IF \E l \in DOMAIN old : old[l] = Freed THEN MutShape(r) /\ r.ub
          ELSE MutMakes(r, m, x, pos, old)
  BY MutInstForms
<1>2. j \in DOMAIN old /\ old[j] = Freed
  OBVIOUS
<1> HIDE DEF old
<1> QED
  BY <1>1, <1>2

\* One instruction after the other, both programs agree.
LEMMA InstAgrees ==
  ASSUME NEW P, NEW dom, NEW pd, Ground(P, dom, pd), Faithful(P), NEW b \in Blocks(P),
         NEW i \in 1 .. Len(P.code[b]), NEW m, NEW s0, NEW S, NEW k \in Seq(S), NEW vs,
         Agreeing(P, dom, pd, m, SSACode(s0, k), b, i),
         Len(vs) = Len(Resolved(P.code[b][i])),
         \A j \in DOMAIN Resolved(P.code[b][i]) :
           Latest(P, dom, pd, Resolved(P.code[b][i])[j], <<b, i>>, vs[j]),
         \A j \in DOMAIN Rewritten(P, b, i, vs) : Rewritten(P, b, i, vs)[j] \in S
  PROVE  Agreeing(P, dom, pd, MutInst(m, P.code[b][i], <<b, i>>),
                  SSACode(s0, k \o Rewritten(P, b, i, vs)), b, i + 1)
<1>1. PICK s, s2, m2, x : /\ s = SSACode(s0, k) /\ s2 = SSACode(s0, k \o Rewritten(P, b, i, vs))
                          /\ x = P.code[b][i] /\ m2 = MutInst(m, x, <<b, i>>)
  OBVIOUS
<1>2. SUFFICES Agreeing(P, dom, pd, m2, s2, b, i + 1)
  BY <1>1
<1>3. CASE m.ub
  BY <1>1, <1>3 DEF MutInst, Agreeing
<1>4. CASE ~m.ub /\ \E j \in 1 .. Len(x.c) : m.heap[m.env[x.c[j]]] = Freed
  <2>1. PICK j \in 1 .. Len(x.c) : m.heap[m.env[x.c[j]]] = Freed
    BY <1>4
  <2>2. MutShape(m)
    BY <1>4 DEF Agreeing
  <2>3. MutInst(m, x, <<b, i>>).ub
    BY <1>4, <2>1, <2>2, FreedFails
  <2>4. m2.ub
    BY <1>1, <2>3
  <2> QED
    BY <2>4 DEF Agreeing
<1>5. CASE ~m.ub /\ ~\E j \in 1 .. Len(x.c) : m.heap[m.env[x.c[j]]] = Freed
  <2>1. MutShape(m) /\ SSAShape(s) /\ Sim(P, dom, pd, m, s, b, i) /\ ~m.ub
    BY <1>1, <1>5 DEF Agreeing
  <2>2. Follows(P, dom, m, s, m2, s2, b, i)
    <3>1. CASE x.op = "AssocHas" /\ ~UsePHIs
      <4>1. Len(x.c) = 1
        BY <1>1, <3>1 DEF Ground, WellFormed, WellTyped, PairOps
      <4>2. m.heap[m.env[x.c[1]]] # Freed
        BY <1>5, <4>1
      <4> QED
        BY <1>1, <2>1, <3>1, <4>2, HasFollows
    <3>2. CASE ~(x.op = "AssocHas" /\ ~UsePHIs)
      <4>1. Resolved(x) = x.c
        BY <3>2 DEF Resolved
      <4>2. x.c \in Seq(Names(P))
        <5>1. WellFormed(P)
          BY DEF Ground
        <5>2. P.code[b][i] \in [op : STRING, def : Names(P) \cup {NoName}, c : Seq(Names(P))]
          BY <5>1, InstType
        <5> QED
          BY <1>1, <5>2
      <4>3. Len(vs) = Len(x.c) /\ \A j \in 1 .. Len(x.c) : Latest(P, dom, pd, x.c[j], <<b, i>>, vs[j])
        <5>1. DOMAIN x.c = 1 .. Len(x.c)
          BY <4>2
        <5>2. Resolved(P.code[b][i]) = x.c
          BY <1>1, <4>1
        <5> QED
          BY <5>1, <5>2
      <4>4. ASSUME NEW j \in 1 .. Len(P.code[b][i].c)
            PROVE  /\ m.heap[m.env[P.code[b][i].c[j]]] # Freed
                   /\ Bound(s.env, vs[j]) = m.heap[m.env[P.code[b][i].c[j]]]
                   /\ ~HereOf(vs[j], b, i)
        <5>1. PICK n : n = P.code[b][i].c[j]
          OBVIOUS
        <5>2. Lively(P, dom, b, i, n)
          BY <5>1, UsedIsLively
        <5>3. m.heap[m.env[n]] # Freed /\ Latest(P, dom, pd, n, <<b, i>>, vs[j])
          BY <1>1, <1>5, <4>3, <5>1
        <5>4. \A v : Latest(P, dom, pd, n, <<b, i>>, v) =>
                Bound(s.env, v) = m.heap[m.env[n]] /\ ~HereOf(v, b, i)
          BY <2>1, <5>2, <5>3, OperandBound
        <5> QED
          BY <5>1, <5>3, <5>4
      <4>5. Running(P, dom, pd, b, i, m, s, vs)
        BY <2>1, <4>4 DEF Running
      <4>6. /\ P.code[b][i].op \notin {"End", "UsePHI", "SeqSwap"}
            /\ P.code[b][i].op = "MutStructWrite" => P.code[b][i].c = << >>
        BY DEF Faithful
      <4> QED
        BY <1>1, <3>2, <4>3, <4>5, <4>6, PiecesFollow
    <3> QED
      BY <3>1, <3>2
  <2>3. Moved(P, dom, m, s, m2, s2, b, i) /\ MutShape(m2) /\ SSAShape(s2)
    BY <2>2 DEF Follows
  <2>4. Sim(P, dom, pd, m2, s2, b, i + 1)
    BY <2>1, <2>3, SimStep
  <2> QED
    BY <2>3, <2>4 DEF Agreeing
<1> QED
  BY <1>3, <1>4, <1>5

\* One piece is written for an instruction, or two.
LEMMA PiecesAreSeq ==
  ASSUME NEW P, NEW b, NEW i, NEW vs, NEW S,
         \A j \in DOMAIN Rewritten(P, b, i, vs) : Rewritten(P, b, i, vs)[j] \in S
  PROVE  Rewritten(P, b, i, vs) \in Seq(S)
<1>1. PICK x, r, results, source :
         /\ x = P.code[b][i] /\ r = Rewritten(P, b, i, vs) /\ source = Src(P, x.c[1])
         /\ results = IF x.def = NoName THEN << >> ELSE <<Src(P, x.def)>>
  OBVIOUS
<1>2. StandsFor(r, x, b, i, vs, results, source)
  BY <1>1, RewrittenForms
<1>3. (\E y : r = <<y>>) \/ (\E y, z : r = <<y, z>>)
  <2>1. \/ x.op \in {"MutStructWrite", "MutSeqInsertSeq", "MutSeqAppend", "MutSeqSwap", "MutSeqSplit"}
        \/ x.op \in WriteOps
        \/ x.op = "AssocHas" /\ ~UsePHIs
        \/ UsePHIs /\ x.op \in ReadOps \cup {"AssocHas"}
        \/ x.op \notin MutOps \cup {"AssocHas"} /\ ~(UsePHIs /\ x.op \in ReadOps)
    BY DEF MutOps, PairOps
  <2>2. CASE x.op = "MutStructWrite"
    BY <1>2, <2>2 DEF StandsFor
  <2>3. CASE x.op = "MutSeqInsertSeq"
    BY <1>2, <2>3 DEF StandsFor
  <2>4. CASE x.op = "MutSeqAppend"
    BY <1>2, <2>4 DEF StandsFor
  <2>5. CASE x.op = "MutSeqSwap"
    BY <1>2, <2>5 DEF StandsFor
  <2>6. CASE x.op = "MutSeqSplit"
    BY <1>2, <2>6 DEF StandsFor
  <2>7. CASE x.op \in WriteOps
    BY <1>2, <2>7 DEF StandsFor
  <2>8. CASE x.op = "AssocHas" /\ ~UsePHIs
    BY <1>2, <2>8 DEF StandsFor
  <2>9. CASE UsePHIs /\ x.op \in ReadOps \cup {"AssocHas"}
    BY <1>2, <2>9 DEF StandsFor
  <2>10. CASE x.op \notin MutOps \cup {"AssocHas"} /\ ~(UsePHIs /\ x.op \in ReadOps)
    BY <1>2, <2>10 DEF StandsFor
  <2> QED
    BY <2>1, <2>2, <2>3, <2>4, <2>5, <2>6, <2>7, <2>8, <2>9, <2>10
<1>4. CASE \E y : r = <<y>>
  <2>1. PICK y : r = <<y>>
    BY <1>4
  <2>2. 1 \in DOMAIN r /\ r[1] = y
    BY <2>1
  <2>3. y \in S
    BY <1>1, <2>2
  <2> QED
    BY <1>1, <2>1, <2>3
<1>5. CASE \E y, z : r = <<y, z>>
  <2>1. PICK y, z : r = <<y, z>>
    BY <1>5
  <2>2. 1 \in DOMAIN r /\ r[1] = y /\ 2 \in DOMAIN r /\ r[2] = z
    BY <2>1
  <2>3. y \in S /\ z \in S
    BY <1>1, <2>2
  <2> QED
    BY <1>1, <2>1, <2>3
<1> QED
  BY <1>3, <1>4, <1>5

\* Block b, from its first instruction to its end.
LEMMA BlockAgrees ==
  ASSUME NEW dom, NEW pd, Ground(fn.P, dom, pd), Faithful(fn.P), NEW b \in Blocks(fn.P),
         NEW m, NEW s, Agreeing(fn.P, dom, pd, m, s, b, 1), NEW f, MutRuns(f, m, b),
         \A i \in 1 .. Len(fn.P.code[b]) : \A j \in DOMAIN Resolved(fn.P.code[b][i]) :
           Latest(fn.P, dom, pd, Resolved(fn.P.code[b][i])[j], <<b, i>>,
                  Operands(fn.P, dom, pd, b, i)[j])
  PROVE  Agreeing(fn.P, dom, pd, f[Len(fn.P.code[b])],
                  SSACode(s, Written(fn.P, dom, pd, b)[Len(fn.P.code[b])]), b, Len(fn.P.code[b]) + 1)
<1>1. PICK P, w, n : P = fn.P /\ w = Written(fn.P, dom, pd, b) /\ n = Len(fn.P.code[b])
  OBVIOUS
<1>2. WellFormed(P) /\ n \in Nat /\ Ground(P, dom, pd) /\ Faithful(P) /\ b \in Blocks(P)
  <2>1. Ground(P, dom, pd) /\ Faithful(P) /\ b \in Blocks(P) /\ n = Len(P.code[b])
    BY <1>1
  <2>2. WellFormed(P)
    BY <2>1 DEF Ground
  <2>3. P.code[b] \in Seq([op : STRING, def : Names(P) \cup {NoName}, c : Seq(Names(P))])
    BY <2>1, <2>2 DEF WellFormed, WellTyped
  <2>4. n \in Nat
    BY <2>1, <2>3
  <2> QED
    BY <2>1, <2>2, <2>4
<1> DEFINE R(i) == Rewritten(P, b, i, Operands(P, dom, pd, b, i))
           S == UNION {{R(i)[j] : j \in DOMAIN R(i)} : i \in 1 .. n}
           Q == {i \in 0 .. n : /\ w[i] \in Seq(S)
                                /\ Agreeing(P, dom, pd, f[i], SSACode(s, w[i]), b, i + 1)}
<1>3. w[0] = << >> /\ \A i \in 1 .. n : w[i] = w[i - 1] \o R(i)
  <2>1. Len(P.code[b]) \in Nat /\ w = Written(P, dom, pd, b) /\ n = Len(P.code[b])
    BY <1>1, <1>2
  <2>2. /\ Written(P, dom, pd, b)[0] = << >>
        /\ \A i \in 1 .. Len(P.code[b]) :
             Written(P, dom, pd, b)[i] = Written(P, dom, pd, b)[i - 1] \o R(i)
    BY <2>1, WrittenIs
  <2> HIDE DEF R
  <2> QED
    BY <2>1, <2>2
<1>4. f[0] = m /\ \A i \in 1 .. n : f[i] = MutInst(f[i - 1], P.code[b][i], <<b, i>>)
  BY <1>1 DEF MutRuns
<1>5. 0 \in Q
  <2>1. SSACode(s, w[0]) = s
    BY <1>3, SSACodeEmpty
  <2>2. w[0] \in Seq(S) /\ 0 \in 0 .. n /\ 0 + 1 = 1
    BY <1>2, <1>3
  <2>3. Agreeing(P, dom, pd, m, s, b, 1)
    BY <1>1
  <2> HIDE DEF S
  <2> QED
    BY <1>4, <2>1, <2>2, <2>3
<1>6. ASSUME NEW i \in 1 .. n, i - 1 \in Q PROVE i \in Q
  <2>1. \A j \in DOMAIN R(i) : R(i)[j] \in S
    BY <1>6
  <2>2. R(i) \in Seq(S)
    <3>1. PICK vs : vs = Operands(P, dom, pd, b, i)
      OBVIOUS
    <3>2. \A j \in DOMAIN Rewritten(P, b, i, vs) : Rewritten(P, b, i, vs)[j] \in S
      BY <2>1, <3>1
    <3> HIDE DEF S
    <3>3. Rewritten(P, b, i, vs) \in Seq(S)
      BY <3>2, PiecesAreSeq
    <3> QED
      BY <3>1, <3>3
  <2> HIDE DEF S
  <2>3. PICK vs, k, x, m0 : /\ vs = Operands(P, dom, pd, b, i) /\ k = w[i - 1] /\ x = P.code[b][i]
                            /\ m0 = f[i - 1]
    OBVIOUS
  <2>4. k \in Seq(S) /\ (i - 1) + 1 = i
    BY <1>6, <2>3
  <2>5. Agreeing(P, dom, pd, m0, SSACode(s, k), b, i)
    BY <1>6, <2>3, <2>4
  <2>6. i \in 1 .. Len(P.code[b])
    BY <1>1
  <2>7. Len(vs) = Len(Resolved(P.code[b][i]))
    <3>1. Len(Resolved(P.code[b][i])) \in Nat
      <4>1. P.code[b][i] \in [op : STRING, def : Names(P) \cup {NoName}, c : Seq(Names(P))]
        BY <1>2, <2>6, InstType
      <4> QED
        BY <4>1 DEF Resolved
    <3> QED
      BY <2>3, <3>1 DEF Operands
  <2>8. \A j \in DOMAIN Resolved(P.code[b][i]) :
          Latest(P, dom, pd, Resolved(P.code[b][i])[j], <<b, i>>, vs[j])
    BY <1>1, <2>3, <2>6
  <2>9. \A j \in DOMAIN Rewritten(P, b, i, vs) : Rewritten(P, b, i, vs)[j] \in S
    BY <2>1, <2>3
  <2>10. Agreeing(P, dom, pd, MutInst(m0, P.code[b][i], <<b, i>>),
                  SSACode(s, k \o Rewritten(P, b, i, vs)), b, i + 1)
    BY <1>2, <2>4, <2>5, <2>6, <2>7, <2>8, <2>9, InstAgrees
  <2>11. f[i] = MutInst(m0, P.code[b][i], <<b, i>>) /\ w[i] = k \o Rewritten(P, b, i, vs)
    BY <1>3, <1>4, <2>3
  <2>12. w[i] \in Seq(S)
    <3>1. PICK r : r = Rewritten(P, b, i, vs)
      OBVIOUS
    <3>2. r \in Seq(S)
      BY <2>2, <2>3, <3>1
    <3> QED
      BY <2>4, <2>11, <3>1, <3>2
  <2>13. i \in 0 .. n
    BY <1>2
  <2> QED
    BY <2>10, <2>11, <2>12, <2>13
<1>7. n \in Q
  <2> HIDE DEF Q
  <2>1. \A i \in 0 .. n : i \in Q
    BY <1>2, <1>5, <1>6, CountUp
  <2> QED
    BY <1>2, <2>1
<1> QED
  BY <1>1, <1>7

-----------------------------------------------------------------------------
(* Along an edge. *)

\* What the pass leaves in its PHIs: all that InvSlots and InvJoins say when it is done.
Filled(P, dom, pd, ph) ==
  /\ \A b \in Blocks(P) : pd[b] = {q.def : q \in ph[b]}
  /\ \A b \in Blocks(P) : \A q \in ph[b] : \A r \in ph[b] : r.def = q.def => r = q
  /\ \A b \in Blocks(P) : \A q \in ph[b] :
       q.named # NoName => q.def = Val("phi", q.named, b, 0)
  /\ \A b \in Blocks(P) : \A q \in ph[b] :
       q.named = NoName => \E r \in P.phis[b] : q.def = Src(P, r.def)
  /\ \A b \in Blocks(P) : \A q \in ph[b] : \A x \in Preds(P, b) :
       \A n \in SlotNames(P, b, q, x) : Latest(P, dom, pd, n, Terminator(P, x), q.in[x])
  /\ \A n \in Names(P) : \A b \in Blocks(P) :
       b \in DefParents(P, n) \/ HasPHI(pd, n, b) => ClosedAt(P, dom, pd, n, b)

\* m2 is m behind the PHIs of block b, entered from block p.
Entered(P, b, p, m, m2) ==
  /\ MutShape(m2) /\ m2.obs = m.obs /\ m2.heap = m.heap /\ m2.ub = m.ub
  /\ DOMAIN m2.env = DOMAIN m.env \cup {r.def : r \in P.phis[b]}
  /\ \A r \in P.phis[b] : m2.env[r.def] = m.env[r.in[p]]
  /\ \A n \in DOMAIN m.env : (\A r \in P.phis[b] : r.def # n) => m2.env[n] = m.env[n]

\* s2 is s behind the PHIs ph[b] of the result.
EnteredSSA(ph, b, p, s, s2) ==
  /\ SSAShape(s2) /\ s2.obs = s.obs
  /\ \A q \in ph[b] : Bound(s2.env, q.def) = Bound(s.env, q.in[p])
  /\ \A v : (\A q \in ph[b] : q.def # v) => Bound(s2.env, v) = Bound(s.env, v)

\* The name that n stands for at the end of block p, before the edge to block b.
Before(P, b, p, n) ==
  IF \E r \in P.phis[b] : r.def = n THEN (CHOOSE r \in P.phis[b] : r.def = n).in[p] ELSE n

LEMMA SourcesAreLively ==
  ASSUME NEW P, NEW dom, NEW pd, Ground(P, dom, pd), NEW p \in Blocks(P), NEW b \in P.succ[p],
         NEW r \in P.phis[b]
  PROVE  /\ Before(P, b, p, r.def) = r.in[p]
         /\ Lively(P, dom, p, Len(P.code[p]) + 1, r.in[p])
<1>1. WellFormed(P) /\ dom = Dominators(P) /\ b \in Blocks(P) /\ p \in Preds(P, b)
  BY DEF Ground, WellFormed, WellShaped, Preds
<1>2. Before(P, b, p, r.def) = r.in[p]
  <2>1. \A q \in P.phis[b] : q.def = r.def => q = r
    BY <1>1 DEF WellFormed, SingleDefs
  <2>2. (CHOOSE q \in P.phis[b] : q.def = r.def) = r
    BY <2>1
  <2> QED
    BY <2>2 DEF Before
<1>3. StrictUse(P, dom, r.in[p], Terminator(P, p))
  BY <1>1 DEF WellFormed, Strict
<1>4. p \in Wanted(P, r.in[p])
  BY <1>1 DEF Wanted, HoldsUses, UsesName
<1> QED
  BY <1>2, <1>3, <1>4 DEF Lively, StrictUse, ReachesAt, Terminator

LEMMA OthersAreLively ==
  ASSUME NEW P, NEW dom, NEW pd, Ground(P, dom, pd), NEW p \in Blocks(P), NEW b \in P.succ[p],
         NEW n, Lively(P, dom, b, 1, n), \A r \in P.phis[b] : r.def # n
  PROVE  /\ Before(P, b, p, n) = n /\ DefPos(P, n)[1] # b /\ Src(P, n).blk # b
         /\ Lively(P, dom, p, Len(P.code[p]) + 1, n)
<1>1. /\ WellFormed(P) /\ WellShaped(P) /\ dom = Dominators(P) /\ b \in Blocks(P) /\ p \in Preds(P, b)
      /\ n \in Names(P) /\ b \in Wanted(P, n) /\ ReachesAt(dom, Src(P, n), <<b, 1>>)
  BY DEF Ground, WellFormed, WellShaped, Preds, Lively
<1>2. PICK v : v = Src(P, n)
  OBVIOUS
<1>3. /\ v.blk = DefPos(P, n)[1] /\ v.idx \in Nat
      /\ IsArgument(v) \/ Dominates(dom, v, <<b, 1>>)
  BY <1>1, <1>2, SrcFields DEF ReachesAt
<1>4. /\ \/ n \in P.args /\ v.blk = 0
         \/ /\ v.blk \in Blocks(P) /\ v.idx = 0
            /\ \E q \in P.phis[v.blk] : q.def = n
         \/ v.blk \in Blocks(P) /\ v.idx \in 1 .. Len(P.code[v.blk])
  BY <1>1, <1>2, SourceIs
<1>5. b # 0 /\ Len(P.code[p]) \in Nat /\ p \in Nat
  <2>1. P.code[p] \in Seq([op : STRING, def : Names(P) \cup {NoName}, c : Seq(Names(P))])
    BY <1>1 DEF WellFormed, WellTyped
  <2> QED
    BY <1>1, <2>1 DEF Blocks
<1>6. v.blk # b
  <2> SUFFICES ASSUME v.blk = b PROVE FALSE
    OBVIOUS
  <2>1. v.idx < 1
    BY <1>3, <1>5 DEF IsArgument, Dominates
  <2>2. v.idx = 0 /\ v.blk \in Blocks(P)
    BY <1>1, <1>3, <2>1
  <2> QED
    BY <1>4, <1>5, <2>2
<1>7. Lively(P, dom, p, Len(P.code[p]) + 1, n)
  <2>1. p \in Wanted(P, n)
    <3>1. ASSUME NEW S \in SUBSET Blocks(P), HoldsUses(P, n, S)
          PROVE  p \in S
      <4>1. b \in S
        BY <1>1, <3>1 DEF Wanted
      <4>2. b \in P.succ[p] \cap S /\ DefPos(P, n)[1] # b
        BY <1>2, <1>3, <1>6, <4>1
      <4> QED
        BY <3>1, <4>2 DEF HoldsUses
    <3> QED
      BY <3>1 DEF Wanted
  <2>2. ReachesAt(dom, v, <<p, Len(P.code[p]) + 1>>)
    <3>1. CASE IsArgument(v)
      BY <3>1 DEF ReachesAt
    <3>2. CASE v.blk \in dom[b]
      <4>1. v.blk \in dom[p]
        BY <1>1, <1>6, <3>2, DominatesBefore
      <4>2. v.blk = p => v.idx < Len(P.code[p]) + 1
        <5>1. v.blk # 0
          BY <1>1, <3>2 DEF Dominators, Blocks
        <5> QED
          BY <1>4, <1>5, <5>1
      <4> QED
        BY <4>1, <4>2 DEF ReachesAt, Dominates
    <3> QED
      BY <1>3, <1>6, <3>1, <3>2 DEF Dominates
  <2> QED
    BY <1>1, <1>2, <2>1, <2>2 DEF Lively
<1> QED
  BY <1>2, <1>3, <1>6, <1>7 DEF Before

\* What a PHI of the source defines carries what it was given.
LEMMA SourceCarries ==
  ASSUME NEW P, NEW dom, NEW pd, Ground(P, dom, pd), NEW ph, Filled(P, dom, pd, ph),
         NEW p \in Blocks(P), NEW b \in P.succ[p], NEW s, NEW s2, EnteredSSA(ph, b, p, s, s2),
         NEW r \in P.phis[b], NEW t,
         Carries(P, dom, pd, s.env, p, Len(P.code[p]) + 1, r.in[p], t)
  PROVE  Carries(P, dom, pd, s2.env, b, 1, r.def, t)
<1>1. PICK n, v0 : n = r.def /\ v0 = Src(P, n)
  OBVIOUS
<1>2. /\ WellFormed(P) /\ b \in Blocks(P) /\ p \in Preds(P, b) /\ Placed(P, dom, pd)
  BY DEF Ground, WellFormed, WellShaped, Preds
<1>3. v0 \in pd[b] /\ v0.kind = "src"
  BY <1>1, <1>2 DEF Placed, Src, Val
<1>4. PICK q \in ph[b] : q.def = v0
  BY <1>2, <1>3 DEF Filled
<1>5. q.named = NoName
  <2>1. q.named # NoName => q.def = Val("phi", q.named, b, 0)
    BY <1>2 DEF Filled
  <2> QED
    BY <1>3, <1>4, <2>1 DEF Val
<1>6. Latest(P, dom, pd, r.in[p], Terminator(P, p), q.in[p])
  <2>1. r.in[p] \in SlotNames(P, b, q, p)
    BY <1>1, <1>4, <1>5 DEF SlotNames
  <2> QED
    BY <1>2, <2>1 DEF Filled
<1>7. Bound(s2.env, v0) = t
  BY <1>4, <1>6 DEF Carries, EnteredSSA, Terminator
<1>8. n \in Names(P) /\ v0 \in Versions(P, pd, n) /\ HereOf(v0, b, 0)
  <2>1. n # NoName /\ DefPos(P, n) = <<b, 0>>
    BY <1>1, <1>2 DEF WellFormed, SingleDefs
  <2>2. n \in Names(P)
    BY <1>1, <1>2, <2>1 DEF Names, InPHIs
  <2>3. v0.web = n /\ v0.blk = b /\ v0.idx = 0
    BY <1>1, <2>1 DEF Src, Val
  <2> QED
    BY <1>2, <1>3, <2>2, <2>3 DEF Versions, HereOf
<1>9. ASSUME NEW v, Latest(P, dom, pd, n, <<b, 1>>, v)
      PROVE  v = v0
  <2>1. Latest(P, dom, pd, n, <<b, 0 + 1>>, v)
    BY <1>9
  <2>2. /\ \A w \in Versions(P, pd, n) : HereOf(w, b, 0) => v = w
        /\ HereOf(v, b, 0) \/ Latest(P, dom, pd, n, <<b, 0>>, v)
    BY <1>2, <1>8, <2>1, LatestAfter
  <2> QED
    BY <1>8, <2>2
<1> QED
  BY <1>1, <1>7, <1>9 DEF Carries

\* A version that is not the last any more behind the edge makes a PHI.
LEMMA NoPHINeeded ==
  ASSUME NEW P, NEW dom, NEW pd, Ground(P, dom, pd), NamesAreApart(P), NEW ph,
         Filled(P, dom, pd, ph), NEW p \in Blocks(P), NEW b \in P.succ[p],
         NEW n, Lively(P, dom, b, 1, n), \A r \in P.phis[b] : r.def # n,
         ~HasPHI(pd, n, b), NEW e \in Versions(P, pd, n), ReachesAt(dom, e, Terminator(P, p))
  PROVE  ReachesAt(dom, e, <<b, 0>>)
<1> SUFFICES ASSUME ~ReachesAt(dom, e, <<b, 0>>) PROVE FALSE
  OBVIOUS
<1>1. /\ WellFormed(P) /\ WellShaped(P) /\ dom = Dominators(P) /\ b \in Blocks(P) /\ p \in Preds(P, b)
      /\ n \in Names(P) /\ b \in Wanted(P, n) /\ ReachesAt(dom, Src(P, n), <<b, 1>>) /\ b # 1
      /\ Placed(P, dom, pd)
  BY DEF Ground, WellFormed, WellShaped, Preds, Lively
<1>2. DefPos(P, n)[1] # b /\ Src(P, n).blk # b
  BY OthersAreLively
<1>3. PICK x : x = e.blk
  OBVIOUS
<1>4. /\ x # 0 /\ x \in Blocks(P) /\ Located(P, e)
      /\ e.idx = 0 => e \in pd[x]
      /\ e.idx # 0 => /\ e.idx \in 1 .. Len(P.code[x])
                      /\ Redefines(P.code[x][e.idx], n)
  <2>1. Located(P, e) /\ ~IsArgument(e)
    BY <1>1, VersionFacts DEF ReachesAt
  <2> QED
    BY <1>1, <1>3, <2>1, VersionFacts DEF Located
<1>5. b \in Frontier(P, dom, x)
  <2>1. x \in dom[p]
    <3>1. x = p \/ x \in dom[p]
      BY <1>3, <1>4 DEF ReachesAt, Located, Dominates, Terminator
    <3>2. p \in dom[p]
      BY <1>1, DominatorsOrdered
    <3> QED
      BY <3>1, <3>2
  <2>2. ~(x # b /\ x \in dom[b])
    BY <1>3 DEF ReachesAt, Dominates
  <2> QED
    BY <1>1, <2>1, <2>2 DEF Frontier
<1>6. x \in DefParents(P, n) \/ HasPHI(pd, n, x)
  <2>1. CASE e.idx = 0
    <3>1. e.web = n
      BY <1>1, VersionFacts
    <3>2. (e = Src(P, n) /\ DefPos(P, n) = <<x, 0>>) \/ e = Val("phi", n, x, 0)
      BY <1>1, <1>4, <2>1, <3>1 DEF Placed
    <3> QED
      BY <1>4, <2>1, <3>2 DEF DefParents, HasPHI
  <2>2. CASE e.idx # 0
    <3>1. PICK i, y : i = e.idx /\ y = P.code[x][i] /\ i \in 1 .. Len(P.code[x]) /\ Redefines(y, n)
      BY <1>4, <2>2
    <3>2. CASE y.def = n
      <4>1. n # NoName
        BY <1>1, NoNameIsNoName
      <4>2. DefPos(P, n) = <<x, i>>
        BY <1>1, <1>4, <3>1, <3>2, <4>1 DEF WellFormed, SingleDefs
      <4> QED
        BY <1>4, <4>2 DEF DefParents
    <3>3. CASE y.def # n
      <4>1. /\ y.op \in ReadOps \cup WriteOps \cup {"MutSeqSplit", "AssocHas"} => Len(y.c) = 1
            /\ y.op \in PairOps => Len(y.c) = 2
        BY <1>1, <1>4, <3>1 DEF WellFormed, WellTyped
      <4>2. IsDefOf(y, n)
        <5>1. CASE y.op \in MutOps \ {"MutStructWrite"} /\ y.c[1] = n
          <6>1. 1 \in 1 .. Len(y.c)
            BY <4>1, <5>1 DEF MutOps
          <6> QED
            BY <5>1, <6>1 DEF IsDefOf
        <5>2. CASE y.op = "MutSeqSwap" /\ y.c[2] = n
          <6>1. 2 \in 1 .. Len(y.c) /\ y.op \in MutOps
            BY <4>1, <5>2 DEF MutOps, PairOps
          <6> QED
            BY <5>2, <6>1 DEF IsDefOf
        <5>3. CASE UsePHIs /\ y.op \in ReadOps /\ y.c[1] = n
          <6>1. 1 \in 1 .. Len(y.c) /\ y.op # "MutSeqAppend"
            BY <4>1, <5>3 DEF ReadOps
          <6> QED
            BY <5>3, <6>1 DEF IsDefOf
        <5> QED
          BY <3>1, <3>3, <5>1, <5>2, <5>3 DEF Redefines
      <4> QED
        BY <1>4, <3>1, <4>2 DEF DefParents
    <3> QED
      BY <3>2, <3>3
  <2> QED
    BY <2>1, <2>2
<1>7. PlaceFor(P, dom, n, b)
  <2>1. ASSUME DefPos(P, n)[1] # 0, NEW x0 \in Preds(P, b)
        PROVE  DefPos(P, n)[1] \in dom[x0]
    <3>1. PICK a : a = DefPos(P, n)[1]
      OBVIOUS
    <3>2. Src(P, n).blk = a
      BY <1>1, <3>1, SrcFields
    <3>3. a \in dom[b]
      BY <1>1, <1>2, <2>1, <3>1, <3>2 DEF ReachesAt, IsArgument, Dominates
    <3> QED
      BY <1>1, <1>2, <3>1, <3>3, DominatesBefore
  <2>2. ASSUME NEW q \in P.phis[b], NEW x0 \in Preds(P, b), q.in[x0] = n
        PROVE  FALSE
    BY <1>1, <1>2, <2>2 DEF NamesAreApart
  <2> QED
    BY <2>1, <2>2 DEF PlaceFor
<1>8. ClosedAt(P, dom, pd, n, x)
  BY <1>1, <1>4, <1>6 DEF Filled
<1> QED
  BY <1>5, <1>7, <1>8 DEF ClosedAt

\* Any other name carries what it carried before.
LEMMA OtherCarries ==
  ASSUME NEW P, NEW dom, NEW pd, Ground(P, dom, pd), NamesAreApart(P), NEW ph,
         Filled(P, dom, pd, ph), NEW p \in Blocks(P), NEW b \in P.succ[p],
         NEW s, NEW s2, EnteredSSA(ph, b, p, s, s2),
         NEW n, Lively(P, dom, b, 1, n), \A r \in P.phis[b] : r.def # n, NEW t,
         Carries(P, dom, pd, s.env, p, Len(P.code[p]) + 1, n, t)
  PROVE  Carries(P, dom, pd, s2.env, b, 1, n, t)
<1>1. /\ WellFormed(P) /\ WellShaped(P) /\ dom = Dominators(P) /\ b \in Blocks(P) /\ p \in Preds(P, b)
      /\ n \in Names(P) /\ Placed(P, dom, pd)
  BY DEF Ground, WellFormed, WellShaped, Preds, Lively
<1>2. DefPos(P, n)[1] # b /\ Src(P, n).blk # b
  BY OthersAreLively
<1>3. \A q \in ph[b] : q.def \in pd[b]
  BY <1>1 DEF Filled
<1>4. \A v \in pd[b] : HereOf(v, b, 0)
  <2>1. ASSUME NEW v \in pd[b] PROVE HereOf(v, b, 0)
    <3>1. \/ v = Src(P, v.web) /\ DefPos(P, v.web) = <<b, 0>>
          \/ v = Val("phi", v.web, b, 0)
      BY <1>1, <2>1 DEF Placed
    <3>2. CASE v = Src(P, v.web) /\ DefPos(P, v.web) = <<b, 0>>
      BY <3>2 DEF Src, Val, HereOf
    <3>3. CASE v = Val("phi", v.web, b, 0)
      BY <3>3 DEF Val, HereOf
    <3> QED
      BY <3>1, <3>2, <3>3
  <2> QED
    BY <2>1
<1>5. ASSUME NEW v, Latest(P, dom, pd, n, <<b, 1>>, v)
      PROVE  Bound(s2.env, v) = t
  <2>0. v \in Versions(P, pd, n) /\ Located(P, v) /\ b # 0
    BY <1>1, <1>5, VersionFacts DEF Latest, Blocks
  <2>1. /\ \A w \in Versions(P, pd, n) : HereOf(w, b, 0) => v = w
        /\ HereOf(v, b, 0) \/ Latest(P, dom, pd, n, <<b, 0>>, v)
    <3>1. Latest(P, dom, pd, n, <<b, 0 + 1>>, v)
      BY <1>5
    <3> QED
      BY <1>1, <3>1, LatestAfter
  <2>2. CASE HereOf(v, b, 0)
    <3>1. v \in pd[b] /\ v.web = n
      BY <1>1, <2>0, <2>2, VersionFacts DEF HereOf
    <3>2. v = Val("phi", n, b, 0)
      <4>1. \/ v = Src(P, v.web) /\ DefPos(P, v.web) = <<b, 0>>
            \/ v = Val("phi", v.web, b, 0)
        BY <1>1, <3>1 DEF Placed
      <4>2. DefPos(P, n) # <<b, 0>>
        BY <1>2
      <4> QED
        BY <3>1, <4>1, <4>2
    <3>3. PICK q \in ph[b] : q.def = v
      BY <1>1, <3>1 DEF Filled
    <3>4. q.named = n /\ q.named # NoName
      <4>1. q.named # NoName => q.def = Val("phi", q.named, b, 0)
        BY <1>1 DEF Filled
      <4>2. q.named = NoName => \E r \in P.phis[b] : q.def = Src(P, r.def)
        BY <1>1 DEF Filled
      <4>3. v.kind = "phi" /\ v.web = n
        BY <3>2 DEF Val
      <4>4. q.named # NoName
        <5> SUFFICES ASSUME q.named = NoName PROVE FALSE
          OBVIOUS
        <5>1. PICK r \in P.phis[b] : v = Src(P, r.def)
          BY <3>3, <4>2
        <5>2. v.kind = "src"
          BY <5>1 DEF Src, Val
        <5> QED
          BY <4>3, <5>2
      <4>5. v = Val("phi", q.named, b, 0)
        BY <3>3, <4>1, <4>4
      <4>6. v.web = q.named
        BY <4>5 DEF Val
      <4> QED
        BY <4>3, <4>4, <4>6
    <3>5. Latest(P, dom, pd, n, Terminator(P, p), q.in[p])
      <4>1. n \in SlotNames(P, b, q, p)
        BY <3>4 DEF SlotNames
      <4> QED
        BY <1>1, <4>1 DEF Filled
    <3> QED
      BY <3>3, <3>5 DEF Carries, EnteredSSA, Terminator
  <2>3. CASE ~HereOf(v, b, 0)
    <3>1. Latest(P, dom, pd, n, <<b, 0>>, v)
      BY <2>1, <2>3
    <3>2. ~HasPHI(pd, n, b)
      <4> SUFFICES ASSUME HasPHI(pd, n, b) PROVE FALSE
        OBVIOUS
      <4>1. PICK w : w = Val("phi", n, b, 0)
        OBVIOUS
      <4>2. w \in pd[b] /\ w.web = n
        BY <4>1 DEF HasPHI, Val
      <4>3. w \in Versions(P, pd, n)
        BY <1>1, <4>2 DEF Versions
      <4> QED
        BY <1>4, <2>1, <2>3, <4>2, <4>3
    <3>3. ReachesAt(dom, v, <<b, 0>>)
      BY <3>1 DEF Latest
    <3>4. ReachesAt(dom, v, Terminator(P, p))
      <4>1. CASE IsArgument(v)
        BY <4>1 DEF ReachesAt
      <4>2. CASE ~IsArgument(v)
        <5>1. v.idx \in Nat /\ v.blk # 0
          BY <2>0, <4>2 DEF Located
        <5>2. v.blk # b /\ v.blk \in dom[b]
          BY <3>3, <4>2, <5>1 DEF ReachesAt, Dominates
        <5>3. v.blk \in dom[p]
          BY <1>1, <5>2, DominatesBefore
        <5>4. v.idx < Len(P.code[p]) + 1 \/ v.blk # p
          <6>1. Len(P.code[p]) \in Nat
            <7>1. P.code[p] \in Seq([op : STRING, def : Names(P) \cup {NoName}, c : Seq(Names(P))])
              BY <1>1 DEF WellFormed, WellTyped
            <7> QED
              BY <7>1
          <6>2. v.idx # 0 => v.idx \in 1 .. Len(P.code[v.blk])
            BY <1>1, <2>0, <5>1, VersionFacts
          <6> QED
            BY <5>1, <6>1, <6>2
        <5> QED
          BY <5>3, <5>4 DEF ReachesAt, Dominates, Terminator
      <4> QED
        BY <4>1, <4>2
    <3>5. ASSUME NEW e \in Versions(P, pd, n), ReachesAt(dom, e, Terminator(P, p))
          PROVE  UpTo(dom, e, v)
      <4>1. ReachesAt(dom, e, <<b, 0>>)
        BY <3>2, <3>5, NoPHINeeded
      <4> QED
        BY <3>1, <4>1 DEF Latest
    <3>6. Latest(P, dom, pd, n, Terminator(P, p), v)
      BY <2>0, <3>4, <3>5 DEF Latest
    <3>7. \A q \in ph[b] : q.def # v
      BY <1>3, <1>4, <2>3
    <3> QED
      BY <3>6, <3>7 DEF Carries, EnteredSSA, Terminator
  <2> QED
    BY <2>2, <2>3
<1>6. ASSUME n \notin Splits(P), AsDefined(P, n, b, 1)
      PROVE  Bound(s2.env, Src(P, n)) = t
  <2>1. PICK S \in SUBSET Blocks(P) : HoldsChanges(P, n, S) /\ b \notin S
    BY <1>2, <1>6 DEF AsDefined
  <2>2. /\ \A i \in 1 .. Len(P.code[p]) : ~Mutates(P, p, i, n)
        /\ ~(p \in S /\ DefPos(P, n)[1] # p)
    BY <1>1, <2>1 DEF HoldsChanges
  <2>3. AsDefined(P, n, p, Len(P.code[p]) + 1)
    <3>1. Len(P.code[p]) \in Nat
      <4>1. P.code[p] \in Seq([op : STRING, def : Names(P) \cup {NoName}, c : Seq(Names(P))])
        BY <1>1 DEF WellFormed, WellTyped
      <4> QED
        BY <4>1
    <3>2. (Len(P.code[p]) + 1) - 1 = Len(P.code[p])
      BY <3>1
    <3>3. DefPos(P, n)[1] = p \/ (HoldsChanges(P, n, S) /\ p \notin S)
      BY <2>1, <2>2
    <3> QED
      BY <2>2, <3>2, <3>3 DEF AsDefined
  <2>4. Bound(s.env, Src(P, n)) = t
    BY <1>6, <2>3 DEF Carries
  <2>5. \A q \in ph[b] : q.def # Src(P, n)
    BY <1>2, <1>3, <1>4 DEF HereOf
  <2> QED
    BY <2>4, <2>5 DEF EnteredSSA
<1> QED
  BY <1>5, <1>6 DEF Carries

\* What was known at the end of block p is known at the start of block b.
LEMMA EdgeSim ==
  ASSUME NEW P, NEW dom, NEW pd, Ground(P, dom, pd), NamesAreApart(P), NEW ph,
         Filled(P, dom, pd, ph), NEW p \in Blocks(P), NEW b \in P.succ[p],
         NEW m, NEW s, Sim(P, dom, pd, m, s, p, Len(P.code[p]) + 1), ~m.ub,
         NEW m2, NEW s2, Entered(P, b, p, m, m2), EnteredSSA(ph, b, p, s, s2)
  PROVE  Sim(P, dom, pd, m2, s2, b, 1)
<1> DEFINE last == Len(P.code[p]) + 1
           K(n) == Before(P, b, p, n)
           Def(n) == \E r \in P.phis[b] : r.def = n
<1>1. /\ m.obs = s.obs /\ \E k \in Nat : DOMAIN m.heap = 1 .. k
      /\ \A n : Lively(P, dom, p, last, n) =>
           n \in DOMAIN m.env /\ m.env[n] \in DOMAIN m.heap
      /\ \A n, l : Lively(P, dom, p, last, n) /\ Lively(P, dom, p, last, l) =>
           (m.env[n] = m.env[l] => n = l)
      /\ \A n : Lively(P, dom, p, last, n) =>
           \/ m.heap[m.env[n]] = Freed
           \/ Carries(P, dom, pd, s.env, p, last, n, m.heap[m.env[n]])
  BY DEF Sim
<1>2. b \in Blocks(P) /\ p \in Preds(P, b)
  BY DEF Ground, WellFormed, WellShaped, Preds
<1>3. ASSUME NEW n, Lively(P, dom, b, 1, n)
      PROVE  /\ Lively(P, dom, p, last, K(n)) /\ n \in DOMAIN m2.env
             /\ m2.env[n] = m.env[K(n)]
             /\ ~Def(n) => K(n) = n /\ DefPos(P, n)[1] # b
  <2>1. CASE Def(n)
    <3>1. PICK r \in P.phis[b] : r.def = n
      BY <2>1
    <3>2. K(n) = r.in[p] /\ Lively(P, dom, p, last, r.in[p])
      BY <3>1, SourcesAreLively
    <3>3. n \in DOMAIN m2.env /\ m2.env[n] = m.env[r.in[p]]
      BY <3>1 DEF Entered
    <3> QED
      BY <2>1, <3>2, <3>3
  <2>2. CASE ~Def(n)
    <3>1. K(n) = n /\ DefPos(P, n)[1] # b /\ Lively(P, dom, p, last, n)
      BY <1>3, <2>2, OthersAreLively
    <3>2. n \in DOMAIN m2.env /\ m2.env[n] = m.env[n]
      BY <1>1, <2>2, <3>1 DEF Entered
    <3> QED
      BY <3>1, <3>2
  <2> QED
    BY <2>1, <2>2
<1>4. m2.obs = s2.obs /\ m2.heap = m.heap
  BY <1>1 DEF Entered, EnteredSSA
<1>5. ASSUME NEW n, NEW l, Lively(P, dom, b, 1, n), Lively(P, dom, b, 1, l), m2.env[n] = m2.env[l]
      PROVE  n = l
  <2>1. K(n) = K(l)
    <3> HIDE DEF K, Def, last
    <3> QED
      BY <1>1, <1>3, <1>5
  <2>2. CASE Def(n) /\ Def(l)
    <3>1. PICK r \in P.phis[b] : r.def = n
      BY <2>2
    <3>2. PICK q \in P.phis[b] : q.def = l
      BY <2>2
    <3>3. K(n) = r.in[p] /\ K(l) = q.in[p]
      BY <3>1, <3>2, SourcesAreLively
    <3>4. r = q
      <4> HIDE DEF K, Def
      <4>1. r.in[p] = q.in[p]
        BY <2>1, <3>3
      <4> QED
        BY <1>2, <4>1 DEF NamesAreApart
    <3> QED
      BY <3>1, <3>2, <3>4
  <2>3. ASSUME NEW x, NEW y, Lively(P, dom, b, 1, y), Def(x), ~Def(y), K(x) = K(y)
        PROVE  FALSE
    <3>1. PICK r \in P.phis[b] : r.def = x
      BY <2>3
    <3>2. K(x) = r.in[p] /\ K(y) = y /\ DefPos(P, y)[1] # b
      <4>1. K(x) = r.in[p]
        BY <3>1, SourcesAreLively
      <4>2. K(y) = y /\ DefPos(P, y)[1] # b
        BY <1>3, <2>3
      <4> QED
        BY <4>1, <4>2
    <3>3. b \in Wanted(P, r.in[p])
      BY <2>3, <3>2 DEF Lively
    <3> HIDE DEF K, Def
    <3>4. r.in[p] = y
      BY <2>3, <3>2
    <3> QED
      BY <1>2, <3>2, <3>3, <3>4 DEF NamesAreApart
  <2>4. CASE ~Def(n) /\ ~Def(l)
    BY <1>3, <1>5, <2>1, <2>4
  <2> QED
    BY <1>5, <2>1, <2>2, <2>3, <2>4
<1>6. ASSUME NEW n, Lively(P, dom, b, 1, n)
      PROVE  \/ m2.heap[m2.env[n]] = Freed
             \/ Carries(P, dom, pd, s2.env, b, 1, n, m2.heap[m2.env[n]])
  <2>1. PICK t, k : t = m2.heap[m2.env[n]] /\ k = K(n)
    OBVIOUS
  <2>2. t = m.heap[m.env[k]] /\ Lively(P, dom, p, last, k)
    BY <1>3, <1>4, <1>6, <2>1
  <2>3. t = Freed \/ Carries(P, dom, pd, s.env, p, last, k, t)
    BY <1>1, <2>2
  <2>4. ASSUME Carries(P, dom, pd, s.env, p, last, k, t)
        PROVE  Carries(P, dom, pd, s2.env, b, 1, n, t)
    <3>1. CASE Def(n)
      <4>1. PICK r \in P.phis[b] : r.def = n
        BY <3>1
      <4>2. k = r.in[p]
        BY <2>1, <4>1, SourcesAreLively
      <4>3. Carries(P, dom, pd, s.env, p, Len(P.code[p]) + 1, r.in[p], t)
        BY <2>4, <4>2
      <4>4. Carries(P, dom, pd, s2.env, b, 1, r.def, t)
        BY <4>3, SourceCarries
      <4> QED
        BY <4>1, <4>4
    <3>2. CASE ~Def(n)
      <4>1. k = n
        BY <1>3, <1>6, <2>1, <3>2
      <4>2. Carries(P, dom, pd, s.env, p, Len(P.code[p]) + 1, n, t)
        BY <2>4, <4>1
      <4> QED
        BY <1>6, <3>2, <4>2, OtherCarries
    <3> QED
      BY <3>1, <3>2
  <2> QED
    BY <2>1, <2>3, <2>4
<1>7. \A n : Lively(P, dom, b, 1, n) => n \in DOMAIN m2.env /\ m2.env[n] \in DOMAIN m2.heap
  BY <1>1, <1>3, <1>4
<1>8. \A n, l : Lively(P, dom, b, 1, n) /\ Lively(P, dom, b, 1, l) /\ m2.env[n] = m2.env[l] => n = l
  BY <1>5
<1>9. \A n : Lively(P, dom, b, 1, n) =>
        \/ m2.heap[m2.env[n]] = Freed
        \/ Carries(P, dom, pd, s2.env, b, 1, n, m2.heap[m2.env[n]])
  BY <1>6
<1>10. \E k \in Nat : DOMAIN m2.heap = 1 .. k
  BY <1>1, <1>4
<1> HIDE DEF last, K, Def
<1> QED
  BY <1>4, <1>7, <1>8, <1>9, <1>10, SimParts

\* The PHIs of the source, as the mutable program runs them.
LEMMA MutPHIsEnter ==
  ASSUME NEW P, P = fn.P, WellFormed(P), NEW b \in Blocks(P), NEW p, NEW m, MutShape(m)
  PROVE  Entered(P, b, p, m, MutPHIs(m, b, p))
<1> DEFINE bound == {q.def : q \in P.phis[b]}
           source(n) == (CHOOSE q \in P.phis[b] : q.def = n).in[p]
<1>1. PICK e : e = [n \in DOMAIN m.env \cup bound |-> IF n \in bound THEN m.env[source(n)] ELSE m.env[n]]
  OBVIOUS
<1>2. PICK m2 : m2 = [m EXCEPT !.env = e]
  OBVIOUS
<1>3. MutPHIs(m, b, p) = m2
  BY <1>1, <1>2 DEF MutPHIs
<1>4. DOMAIN m = {"env", "heap", "obs", "ub"}
  BY DEF MutShape
<1>5. MutShape(m2) /\ m2.env = e /\ m2.obs = m.obs /\ m2.heap = m.heap /\ m2.ub = m.ub
  <2>1. m2.env = e /\ m2.heap = m.heap /\ m2.obs = m.obs /\ m2.ub = m.ub
    BY <1>2, <1>4
  <2>2. m2 = [f \in {"env", "heap", "obs", "ub"} |-> m2[f]]
    BY <1>2, <1>4
  <2>3. m2 = [env |-> m2.env, heap |-> m2.heap, obs |-> m2.obs, ub |-> m2.ub]
    BY <2>2
  <2> QED
    BY <2>1, <2>3 DEF MutShape
<1>6. ASSUME NEW r \in P.phis[b] PROVE e[r.def] = m.env[r.in[p]]
  <2>1. \A q \in P.phis[b] : q.def = r.def => q = r
    BY DEF WellFormed, SingleDefs
  <2>2. (CHOOSE q \in P.phis[b] : q.def = r.def) = r
    BY <2>1
  <2> QED
    BY <1>1, <2>2
<1>7. DOMAIN e = DOMAIN m.env \cup bound
  BY <1>1
<1>8. ASSUME NEW n \in DOMAIN m.env, \A r \in P.phis[b] : r.def # n
      PROVE  e[n] = m.env[n]
  BY <1>1, <1>8
<1> HIDE DEF source
<1>9. Entered(P, b, p, m, m2)
  BY <1>5, <1>6, <1>7, <1>8 DEF Entered
<1> QED
  BY <1>3, <1>9

\* The PHIs of the result.
LEMMA SSAPHIsJoin ==
  ASSUME NEW b, \A q \in phis[b] : \A r \in phis[b] : r.def = q.def => r = q,
         NEW p, NEW s, SSAShape(s)
  PROVE  EnteredSSA(phis, b, p, s, SSAPHIs(s, b, p))
<1> DEFINE bound == {q.def : q \in phis[b]}
           source(v) == (CHOOSE q \in phis[b] : q.def = v).in[p]
<1>1. PICK e : e = [v \in DOMAIN s.env \cup bound |->
                      IF v \in bound THEN Bound(s.env, source(v)) ELSE s.env[v]]
  OBVIOUS
<1>2. PICK s2 : s2 = [s EXCEPT !.env = e]
  OBVIOUS
<1>3. SSAPHIs(s, b, p) = s2
  BY <1>1, <1>2 DEF SSAPHIs
<1>4. SSAShape(s2) /\ s2.env = e /\ s2.obs = s.obs
  BY <1>2 DEF SSAShape
<1>5. ASSUME NEW q \in phis[b] PROVE Bound(e, q.def) = Bound(s.env, q.in[p])
  <2>1. (CHOOSE r \in phis[b] : r.def = q.def) = q
    OBVIOUS
  <2>2. q.def \in DOMAIN e /\ e[q.def] = Bound(s.env, q.in[p])
    BY <1>1, <2>1
  <2> QED
    BY <2>2 DEF Bound
<1>6. ASSUME NEW v, \A q \in phis[b] : q.def # v
      PROVE  Bound(e, v) = Bound(s.env, v)
  <2>1. v \notin bound
    BY <1>6
  <2>2. v \in DOMAIN e <=> v \in DOMAIN s.env
    BY <1>1, <2>1
  <2>3. v \in DOMAIN s.env => e[v] = s.env[v]
    BY <1>1, <2>1
  <2> QED
    BY <2>2, <2>3 DEF Bound
<1> HIDE DEF source, bound
<1>7. EnteredSSA(phis, b, p, s, s2)
  BY <1>4, <1>5, <1>6 DEF EnteredSSA
<1> QED
  BY <1>3, <1>7

\* When the pass is done, its PHIs are filled in.
LEMMA FilledAtEnd ==
  ASSUME IInv, Built, Tracked, stage = "done"
  PROVE  Filled(fn.P, fn.dom, PHIDefs(phis), phis)
<1>1. PICK P, dom, pd : P = fn.P /\ dom = fn.dom /\ pd = PHIDefs(phis)
  OBVIOUS
<1>2. InvSlots /\ InvJoins /\ Traversal
  BY DEF Tracked, Built
<1>3. todo = {} /\ seen = Blocks(P)
  BY <1>1, <1>2 DEF Traversal
<1>4. \A b \in Blocks(P) : pd[b] = {q.def : q \in phis[b]}
  <2>1. DOMAIN phis = Blocks(fn.P)
    BY DEF IInv, TypeOK
  <2> QED
    BY <1>1, <2>1 DEF PHIDefs
<1>5. \A b \in Blocks(P) : \A q \in phis[b] : \A r \in phis[b] : r.def = q.def => r = q
  BY <1>1, <1>2 DEF InvSlots, PHIsNamed
<1>6. \A b \in Blocks(P) : \A q \in phis[b] : q.named # NoName => q.def = Val("phi", q.named, b, 0)
  BY <1>1, <1>2 DEF InvSlots, PHIsNamed
<1>7. \A b \in Blocks(P) : \A q \in phis[b] :
        q.named = NoName => \E r \in P.phis[b] : q.def = Src(P, r.def)
  BY <1>1, <1>2 DEF InvSlots, PHIsNamed
<1>8. ASSUME NEW b \in Blocks(P), NEW q \in phis[b], NEW x \in Preds(P, b), NEW n \in SlotNames(P, b, q, x)
      PROVE  Latest(P, dom, pd, n, Terminator(P, x), q.in[x])
  <2>1. x \in seen
    BY <1>3 DEF Preds
  <2>2. ~Pending(b, q, x)
    BY <2>1, <1>3 DEF Pending, Unfilled
  <2> QED
    BY <1>1, <1>2, <2>2 DEF InvSlots, SlotsFilled, LatestFor
<1>9. ASSUME NEW n \in Names(P), NEW b \in Blocks(P), b \in DefParents(P, n) \/ HasPHI(pd, n, b)
      PROVE  ClosedAt(P, dom, pd, n, b)
  <2>1. names_left = {} /\ stage # "names"
    BY <1>2 DEF InvJoins
  <2> QED
    BY <1>1, <1>2, <1>9, <2>1 DEF InvJoins
<1>10. Filled(P, dom, pd, phis)
  BY <1>4, <1>5, <1>6, <1>7, <1>8, <1>9 DEF Filled
<1> QED
  BY <1>1, <1>10

-----------------------------------------------------------------------------
\* Only arguments are defined before the entry block.
LEMMA LivelyAtEntry ==
  ASSUME NEW P, NEW dom, NEW pd, Ground(P, dom, pd), NEW n, Lively(P, dom, 1, 1, n)
  PROVE  n \in P.args
<1>1. WellFormed(P) /\ dom = Dominators(P) /\ n \in Names(P)
  BY DEF Ground, Lively
<1>2. 1 \in Blocks(P) /\ P.phis[1] = {}
  BY <1>1 DEF WellFormed, WellShaped, Blocks
<1>3. PICK v : v = Src(P, n)
  OBVIOUS
<1>4. IsArgument(v) \/ Dominates(dom, v, <<1, 1>>)
  BY <1>3 DEF Lively, ReachesAt
<1>5. /\ v.web = n
      /\ \/ n \in P.args /\ v.blk = 0
         \/ /\ v.blk \in Blocks(P) /\ v.idx = 0
            /\ \E q \in P.phis[v.blk] : q.def = n
         \/ /\ v.blk \in Blocks(P) /\ v.idx \in 1 .. Len(P.code[v.blk])
            /\ P.code[v.blk][v.idx].def = n
  BY <1>1, <1>3, SourceIs
<1>6. \A b \in Blocks(P) : b # 0
  BY DEF Blocks
<1>7. \A b \in dom[1] : b = 1
  <2> SUFFICES ASSUME NEW b \in dom[1], b # 1 PROVE FALSE
    OBVIOUS
  <2>1. b \in Blocks(P) /\ 1 \notin ReachAvoiding(P, b)
    BY <1>1, <1>2 DEF Dominators
  <2> QED
    BY <1>2, <2>1, ReachClosed DEF ClosedFrom
<1>8. CASE n \notin P.args
  <2>1. v.blk \in Blocks(P) /\ v.blk # 0
    BY <1>5, <1>6, <1>8
  <2>2. v.blk = 1 /\ v.idx < 1
    BY <1>4, <1>7, <2>1 DEF IsArgument, Dominates
  <2>3. v.idx # 0
    BY <1>2, <1>5, <1>8, <2>2
  <2>4. v.idx \in 1 .. Len(P.code[v.blk])
    BY <1>5, <1>8, <2>3
  <2> QED
    BY <2>2, <2>4
<1> QED
  BY <1>8

\* Of an argument, only itself is a version there.
LEMMA LatestAtEntry ==
  ASSUME NEW P, NEW dom, NEW pd, Ground(P, dom, pd), NEW n \in P.args, n \in Names(P),
         NEW v, Latest(P, dom, pd, n, <<1, 1>>, v)
  PROVE  v = Src(P, n)
<1>1. WellFormed(P) /\ dom = Dominators(P) /\ Placed(P, dom, pd)
  BY DEF Ground
<1>2. v \in Versions(P, pd, n) /\ (IsArgument(v) \/ Dominates(dom, v, <<1, 1>>))
  BY DEF Latest, ReachesAt
<1>3. 1 \in Blocks(P)
  BY <1>1 DEF WellFormed, WellShaped, Blocks
<1>4. /\ v.web = n /\ Located(P, v)
      /\ v.blk = 0 => n \in P.args /\ v = Src(P, n) /\ v.idx = 0
      /\ v.blk # 0 /\ v.idx = 0 => v \in pd[v.blk]
  BY <1>2, VersionFacts
<1>5. CASE v.blk # 0
  <2>1. ~IsArgument(v) /\ v.blk \in Blocks(P) /\ v.idx \in Nat
    BY <1>4, <1>5 DEF Located
  <2>2. \A b \in dom[1] : b = 1
    <3> SUFFICES ASSUME NEW b \in dom[1], b # 1 PROVE FALSE
      OBVIOUS
    <3>1. b \in Blocks(P) /\ 1 \notin ReachAvoiding(P, b)
      BY <1>1, <1>3 DEF Dominators
    <3> QED
      BY <1>3, <3>1, ReachClosed DEF ClosedFrom
  <2>3. v.blk = 1 /\ v.idx < 1
    BY <1>2, <2>1, <2>2 DEF Dominates
  <2>4. v.idx = 0
    BY <2>1, <2>3
  <2>5. v \in pd[1]
    BY <1>4, <1>5, <2>3, <2>4
  <2>6. DefPos(P, n) = <<1, 0>>
    BY <1>1, <1>3, <1>4, <2>5 DEF Placed
  <2>7. DefPos(P, n) = <<0, 0>>
    BY DEF DefPos
  <2> QED
    BY <2>6, <2>7
<1> QED
  BY <1>4, <1>5

\* The programs start alike.
LEMMA EntryAgrees ==
  ASSUME NEW P, NEW dom, NEW pd, Ground(P, dom, pd),
         NEW addr \in [P.args -> 1 .. Cardinality(P.args)],
         \A a, b \in P.args : addr[a] = addr[b] => a = b,
         NEW m, m = [env |-> addr, obs |-> << >>, ub |-> FALSE,
                     heap |-> [x \in 1 .. Cardinality(P.args) |->
                                 <<"Arg", CHOOSE a \in P.args : addr[a] = x>>]],
         NEW s, s = [env |-> [v \in {Src(P, a) : a \in P.args} |-> <<"Arg", v.web>>],
                     obs |-> << >>]
  PROVE  Agreeing(P, dom, pd, m, s, 1, 1) /\ m.obs = s.obs
<1>1. WellFormed(P)
  BY DEF Ground
<1>3. PICK env : env = [v \in {Src(P, a) : a \in P.args} |-> <<"Arg", v.web>>]
  OBVIOUS
<1>4. PICK k, heap : /\ k = Cardinality(P.args)
                     /\ heap = [x \in 1 .. k |-> <<"Arg", CHOOSE a \in P.args : addr[a] = x>>]
  OBVIOUS
<1>5. m = [env |-> addr, obs |-> << >>, ub |-> FALSE, heap |-> heap]
  BY <1>4
<1>6. k \in Nat /\ DOMAIN heap = 1 .. k
  <2>1. IsFiniteSet(P.args)
    BY <1>1 DEF WellFormed, SingleDefs
  <2> QED
    BY <1>4, <2>1, FS_CardinalityType
<1>7. ASSUME NEW n \in P.args
      PROVE  /\ n \in DOMAIN addr /\ addr[n] \in 1 .. k /\ heap[addr[n]] = <<"Arg", n>>
             /\ Bound(env, Src(P, n)) = <<"Arg", n>>
  <2>1. n \in DOMAIN addr /\ addr[n] \in 1 .. k
    BY <1>4
  <2>2. (CHOOSE a \in P.args : addr[a] = addr[n]) = n
    OBVIOUS
  <2>3. heap[addr[n]] = <<"Arg", CHOOSE a \in P.args : addr[a] = addr[n]>>
    BY <1>4, <2>1
  <2>4. Src(P, n).web = n
    BY DEF Src, Val
  <2>5. Src(P, n) \in DOMAIN env /\ env[Src(P, n)] = <<"Arg", n>>
    BY <1>3, <2>4
  <2> QED
    BY <2>1, <2>2, <2>3, <2>5 DEF Bound
<1>8. MutShape(m) /\ m.env = addr /\ m.heap = heap /\ m.obs = << >>
  BY <1>5 DEF MutShape
<1>9. SSAShape(s) /\ s.env = env /\ s.obs = << >>
  BY <1>3 DEF SSAShape
<1>10. \A n : Lively(P, dom, 1, 1, n) => n \in P.args /\ n \in Names(P)
  BY LivelyAtEntry DEF Lively
<1>11. ASSUME NEW n, Lively(P, dom, 1, 1, n)
       PROVE  Carries(P, dom, pd, env, 1, 1, n, <<"Arg", n>>)
  <2>1. \A v : Latest(P, dom, pd, n, <<1, 1>>, v) => v = Src(P, n)
    BY <1>10, <1>11, LatestAtEntry
  <2> QED
    BY <1>7, <1>10, <1>11, <2>1 DEF Carries
<1>12. Sim(P, dom, pd, m, s, 1, 1)
  <2>1. \A n : Lively(P, dom, 1, 1, n) => n \in DOMAIN m.env /\ m.env[n] \in DOMAIN m.heap
    BY <1>6, <1>7, <1>8, <1>10
  <2>2. \A n, l : Lively(P, dom, 1, 1, n) /\ Lively(P, dom, 1, 1, l) /\ m.env[n] = m.env[l] => n = l
    BY <1>8, <1>10
  <2>3. \A n : Lively(P, dom, 1, 1, n) =>
          \/ m.heap[m.env[n]] = Freed
          \/ Carries(P, dom, pd, s.env, 1, 1, n, m.heap[m.env[n]])
    <3> SUFFICES ASSUME NEW n, Lively(P, dom, 1, 1, n)
                 PROVE  Carries(P, dom, pd, s.env, 1, 1, n, m.heap[m.env[n]])
      OBVIOUS
    <3>1. m.heap[m.env[n]] = <<"Arg", n>>
      BY <1>7, <1>8, <1>10
    <3>2. Carries(P, dom, pd, env, 1, 1, n, <<"Arg", n>>)
      BY <1>11
    <3> QED
      BY <1>9, <3>1, <3>2
  <2>4. \E j \in Nat : DOMAIN m.heap = 1 .. j
    BY <1>6, <1>8
  <2> QED
    BY <1>8, <1>9, <2>1, <2>2, <2>3, <2>4, SimParts
<1> QED
  BY <1>8, <1>9, <1>12 DEF Agreeing

LEMMA AgreeAtEntry ==
  ASSUME NEW dom, NEW pd, Ground(fn.P, dom, pd), ExecInit
  PROVE  Agreeing(fn.P, dom, pd, mut, ssa, 1, 1) /\ mut.obs = ssa.obs
<1>1. PICK addr \in [fn.P.args -> 1 .. Cardinality(fn.P.args)] :
        /\ \A a, b \in fn.P.args : addr[a] = addr[b] => a = b
        /\ mut = [env |-> addr, obs |-> << >>, ub |-> FALSE,
                  heap |-> [x \in 1 .. Cardinality(fn.P.args) |->
                              <<"Arg", CHOOSE a \in fn.P.args : addr[a] = x>>]]
  BY DEF ExecInit
<1>2. ssa = [env |-> [v \in {Src(fn.P, a) : a \in fn.P.args} |-> <<"Arg", v.web>>],
             obs |-> << >>]
  BY DEF ExecInit
<1> QED
  BY <1>1, <1>2, EntryAgrees

-----------------------------------------------------------------------------
(* Both programs, along a path. *)

\* What holds when no block was executed yet, or at the end of the last one.
Ran ==
  \/ at = 0 /\ ExecInit
  \/ /\ stage = "done" /\ at \in Blocks(fn.P)
     /\ Agreeing(fn.P, fn.dom, PHIDefs(phis), mut, ssa, at, Len(fn.P.code[at]) + 1)

\* The programs agree when block b is entered.
LEMMA BlockEntered ==
  ASSUME IInv, Built, Tracked, Ran, Faithful(fn.P), NEW b \in Blocks(fn.P), RunBlock(b)
  PROVE  Agreeing(fn.P, fn.dom, PHIDefs(phis), IF at = 0 THEN mut ELSE MutPHIs(mut, b, at),
                  IF at = 0 THEN ssa ELSE SSAPHIs(ssa, b, at), b, 1)
<1>1. PICK P, dom, pd, ph : P = fn.P /\ dom = fn.dom /\ pd = PHIDefs(phis) /\ ph = phis
  OBVIOUS
<1>2. Ground(P, dom, pd)
  BY <1>1, GroundHolds DEF Tracked
<1>3. ~mut.ub /\ stage = "done" /\ (IF at = 0 THEN b = 1 ELSE b \in P.succ[at])
  BY <1>1 DEF RunBlock
<1>4. \A x \in Blocks(P) : x # 0
  BY DEF Blocks
<1>5. CASE at = 0
  <2>1. ExecInit
    BY <1>1, <1>4, <1>5 DEF Ran
  <2>2. Agreeing(fn.P, dom, pd, mut, ssa, 1, 1)
    BY <1>1, <1>2, <2>1, AgreeAtEntry
  <2> QED
    BY <1>1, <1>3, <1>5, <2>2
<1>6. CASE at # 0
  <2>1. /\ at \in Blocks(P) /\ b \in P.succ[at]
        /\ Agreeing(P, dom, pd, mut, ssa, at, Len(P.code[at]) + 1)
    BY <1>1, <1>3, <1>6 DEF Ran
  <2>2. MutShape(mut) /\ SSAShape(ssa) /\ Sim(P, dom, pd, mut, ssa, at, Len(P.code[at]) + 1)
    BY <1>3, <2>1 DEF Agreeing
  <2>3. PICK m2, s2 : m2 = MutPHIs(mut, b, at) /\ s2 = SSAPHIs(ssa, b, at)
    OBVIOUS
  <2>4. WellFormed(P)
    BY <1>2 DEF Ground
  <2>5. Entered(P, b, at, mut, m2)
    BY <1>1, <2>2, <2>3, <2>4, MutPHIsEnter
  <2>6. Filled(P, dom, pd, ph)
    BY <1>1, <1>3, FilledAtEnd
  <2>7. EnteredSSA(ph, b, at, ssa, s2)
    <3>1. \A q \in phis[b] : \A r \in phis[b] : r.def = q.def => r = q
      BY <1>1, <2>6 DEF Filled
    <3> QED
      BY <1>1, <2>2, <2>3, <3>1, SSAPHIsJoin
  <2>8. NamesAreApart(P)
    BY <1>1 DEF Faithful
  <2>9. Sim(P, dom, pd, m2, s2, b, 1)
    BY <1>2, <1>3, <2>1, <2>2, <2>5, <2>6, <2>7, <2>8, EdgeSim
  <2>10. MutShape(m2) /\ SSAShape(s2)
    BY <2>5, <2>7 DEF Entered, EnteredSSA
  <2>11. Agreeing(P, dom, pd, m2, s2, b, 1)
    BY <2>9, <2>10 DEF Agreeing
  <2> QED
    BY <1>1, <1>6, <2>3, <2>11
<1> QED
  BY <1>5, <1>6

\* One block after the other.
LEMMA RunBlockRan ==
  ASSUME IInv, Built, Tracked, Wrote, Ran, Faithful(fn.P), NEW b \in Blocks(fn.P), RunBlock(b)
  PROVE  Ran'
<1>1. PICK dom, pd, m0, s0, n :
        /\ dom = fn.dom /\ pd = PHIDefs(phis) /\ n = Len(fn.P.code[b])
        /\ m0 = IF at = 0 THEN mut ELSE MutPHIs(mut, b, at)
        /\ s0 = IF at = 0 THEN ssa ELSE SSAPHIs(ssa, b, at)
  OBVIOUS
<1>2. Ground(fn.P, dom, pd)
  BY <1>1, GroundHolds DEF Tracked
<1>3. Agreeing(fn.P, dom, pd, m0, s0, b, 1)
  BY <1>1, BlockEntered
<1>4. n \in Nat
  <2>1. WellFormed(fn.P)
    BY <1>2 DEF Ground
  <2>2. fn.P.code[b] \in Seq([op : STRING, def : Names(fn.P) \cup {NoName}, c : Seq(Names(fn.P))])
    BY <2>1 DEF WellFormed, WellTyped
  <2> QED
    BY <1>1, <2>2
<1>5. PICK f : MutRuns(f, m0, b) /\ MutBlock(mut, b, at) = f[n]
  BY <1>1, <1>4, MutBlockIs
<1>6. stage = "done" /\ VisitedTo[b] = n + 1
  <2>1. stage = "done"
    BY DEF RunBlock
  <2>2. b \in seen
    BY <2>1 DEF Built, Traversal
  <2> QED
    BY <1>1, <2>1, <2>2 DEF VisitedTo
<1>7. VisitedTo[b] - 1 = n
  BY <1>4, <1>6
<1>8. \A i \in 1 .. n : \A j \in DOMAIN Resolved(fn.P.code[b][i]) :
        Latest(fn.P, dom, pd, Resolved(fn.P.code[b][i])[j], <<b, i>>, Operands(fn.P, dom, pd, b, i)[j])
  BY <1>1, <1>7 DEF Wrote, OperandsAreLatest, LatestFor
<1>9. out[b] = Written(fn.P, dom, pd, b)[n]
  BY <1>1, <1>6, <1>7 DEF Wrote, CodeIsWritten
<1>10. Agreeing(fn.P, dom, pd, f[n], SSACode(s0, out[b]), b, n + 1)
  BY <1>1, <1>2, <1>3, <1>5, <1>8, <1>9, BlockAgrees
<1>11. SSABlock(ssa, b, at) = SSACode(s0, out[b])
  BY <1>1 DEF SSABlock
<1>12. Agreeing(fn.P, dom, pd, mut', ssa', b, n + 1)
  BY <1>5, <1>10, <1>11 DEF RunBlock
<1>13. fn' = fn /\ phis' = phis /\ stage' = stage /\ at' = b
  BY DEF RunBlock, vars, insertVars, visitVars
<1>14. PHIDefs(phis)' = pd /\ fn'.dom = dom /\ Len(fn'.P.code[at']) = n
  BY <1>1, <1>13
<1> QED
  BY <1>6, <1>12, <1>13, <1>14 DEF Ran

\* The pass leaves the function alone, and takes no step when it is done.
LEMMA PassKeeps ==
  ASSUME IInv, Pass
  PROVE  stage # "done" /\ fn' = fn
<1> USE DEF insertVars, visitVars
<1>1. ~Idle => stage # "done"
  BY DEF IInv, InvWalk
<1>2. CASE (\E n \in names_left : StartName(n)) \/ (\E b \in worklist : InsertPHIs(b)) \/ BeginRename
  BY <1>2 DEF StartName, InsertPHIs, BeginRename
<1>3. CASE FollowChain \/ EndChain
  BY <1>1, <1>3 DEF FollowChain, EndChain
<1>4. CASE PHIStep
  BY <1>4 DEF PHIStep, VisitSourcePHI, SeekPHI, VisitInsertedPHI, EndPHIs
<1>5. CASE SeekOperand \/ VisitSequence \/ VisitAssoc \/ VisitAccess
  BY <1>5 DEF SeekOperand, AtInst, Ready, Emit, VisitSequence, VisitAssoc, VisitAccess, NewVersion,
     VisitMutIndexWrite, VisitMutAssocWrite, VisitMutSeqInsert, VisitMutSeqRemove,
     VisitMutSeqSwapWithin, VisitMutAssocInsert, VisitMutAssocRemove, VisitMutStructWrite,
     VisitMutSeqInsertSeq, VisitMutSeqAppend, VisitMutSeqSwap, VisitMutSeqSplit,
     VisitRead, VisitAssocHas
<1>6. CASE VisitInstruction
  BY <1>6 DEF VisitInstruction, AtInst, Emit
<1>7. CASE EndInstructions \/ EdgeStep \/ Cleanup
  BY <1>7 DEF EndInstructions, EdgeStep, SeekIncoming, SetIncoming, NextBlock, EndTraversal, Cleanup
<1> QED
  BY <1>2, <1>3, <1>4, <1>5, <1>6, <1>7 DEF Pass

LEMMA PassRan ==
  ASSUME IInv, Ran, Pass, UNCHANGED execVars
  PROVE  Ran'
<1>1. stage # "done" /\ fn' = fn
  BY PassKeeps
<1>2. at = 0 /\ ExecInit
  BY <1>1 DEF Ran
<1>3. at' = at /\ steps' = steps /\ mut' = mut /\ ssa' = ssa
  BY DEF execVars
<1>4. ExecInit' <=> ExecInit
  BY <1>1, <1>3 DEF ExecInit
<1> QED
  BY <1>2, <1>3, <1>4 DEF Ran

LEMMA UnchangedRan ==
  ASSUME Ran, UNCHANGED allVars
  PROVE  Ran'
<1>1. UNCHANGED <<fn, stage, phis, at, steps, mut, ssa>>
  BY DEF allVars, vars, execVars, insertVars, visitVars
<1>2. PHIDefs(phis)' = PHIDefs(phis)
  BY <1>1
<1> QED
  BY <1>1, <1>2 DEF Ran, ExecInit

\* The steps of the lock step are steps of the pass or leave it alone.
LEMMA LockSteps == [LockNext]_allVars => [Next]_vars
  BY DEF LockNext, RunBlock, allVars, Next

LEMMA FaithfulHere ==
  ASSUME FaithfulPrograms, IInv
  PROVE  Faithful(fn.P)
  BY DEF FaithfulPrograms, IInv, InvFn

LEMMA NextRan ==
  ASSUME FaithfulPrograms, IInv, Built, Tracked, Wrote, Ran, [LockNext]_allVars
  PROVE  Ran'
<1>1. Faithful(fn.P)
  BY FaithfulHere
<1>2. CASE Pass /\ UNCHANGED execVars
  BY <1>2, PassRan
<1>3. CASE \E b \in Blocks(fn.P) : RunBlock(b)
  BY <1>1, <1>3, RunBlockRan
<1>4. CASE UNCHANGED allVars
  BY <1>4, UnchangedRan
<1> QED
  BY <1>2, <1>3, <1>4 DEF LockNext

LEMMA RanAgrees ==
  ASSUME IInv, Built, Tracked, Ran
  PROVE  Agreement
<1>1. CASE at = 0 /\ ExecInit
  BY <1>1, GroundHolds, AgreeAtEntry DEF Tracked, Agreement
<1>2. CASE Agreeing(fn.P, fn.dom, PHIDefs(phis), mut, ssa, at, Len(fn.P.code[at]) + 1)
  BY <1>2 DEF Agreeing, Sim, Agreement
<1> QED
  BY <1>1, <1>2 DEF Ran

LEMMA FaithfulSigned == ASSUME FaithfulPrograms PROVE SignaturesHold
  BY DEF FaithfulPrograms, Faithful, SignaturesHold

(***************************************************************************)
(* What is written for each instruction visited is what stands for it on   *)
(* the latest versions of its operands, and Cleanup leaves just that.      *)
(***************************************************************************)
THEOREM PassWritesLatest ==
  ASSUME SignaturesHold
  PROVE  Spec => [](OperandsAreLatest /\ CodeIsWritten)
<1>1. Init => IInv /\ Built /\ Tracked /\ Wrote
  BY InitIInv, InitBuilt, InitTracked, InitWrote
<1>2. IInv /\ Built /\ Tracked /\ Wrote /\ [Next]_vars => (IInv /\ Built /\ Tracked /\ Wrote)'
  BY NextIInv, NextBuilt, NextTracked, NextWrote
<1>3. Wrote => OperandsAreLatest /\ CodeIsWritten
  BY DEF Wrote
<1> QED
  BY <1>1, <1>2, <1>3, PTL DEF Spec

(***************************************************************************)
(* The pass preserves meaning: run along any path, the SSA program sees    *)
(* what the mutable program sees, until that uses a sequence it has freed. *)
(***************************************************************************)
THEOREM SSAAgreesWithMutable ==
  ASSUME FaithfulPrograms
  PROVE  LockSpec => []Agreement
<1>1. LockInit => IInv /\ Built /\ Tracked /\ Wrote /\ Ran
  <2>1. SignaturesHold
    BY FaithfulSigned
  <2> QED
    BY <2>1, InitIInv, InitBuilt, InitTracked, InitWrote DEF LockInit, Ran, ExecInit
<1>2. IInv /\ Built /\ Tracked /\ Wrote /\ Ran /\ [LockNext]_allVars
        => (IInv /\ Built /\ Tracked /\ Wrote /\ Ran)'
  BY LockSteps, NextIInv, NextBuilt, NextTracked, NextWrote, NextRan
<1>3. IInv /\ Built /\ Tracked /\ Ran => Agreement
  BY RanAgrees
<1> QED
  BY <1>1, <1>2, <1>3, PTL DEF LockSpec
=============================================================================
