--------------------------- MODULE MCSSADestruction -------------------------
(* Functions in SSA form for the destruction pass: straight lines, a       *)
(* diamond whose join is laid out first, and a loop that trades two        *)
(* collections, over all pairs of operations on sequences and arrays.      *)
EXTENDS SSADestructionLockStep

K == [name |-> "k", size |-> 0, impl |-> FALSE]     \* the value of Opaque
V(n) == SSAVal(n)
I(op, d, c, x) ==
  [form |-> "ssa", op |-> op, def |-> V(d),
   c |-> [j \in DOMAIN c |-> V(c[j])], x |-> [j \in DOMAIN x |-> IF x[j] = "k" THEN K ELSE V(x[j])]]
PHI(d, in) == [def |-> V(d), in |-> [p \in DOMAIN in |-> V(in[p])]]

Function(succ, body, merges, args, impls) ==
  [succ |-> succ, code |-> body, phis |-> merges, args |-> {V(a) : a \in args}, impls |-> impls]

AllImpls == LoweredOps

\* Operations that make version d of sequence s (t is another one, e an End or "k").
SeqStep(d, s, t, e) ==
  {<<I("IndexWrite", d, <<s>>, <<"k">>)>>,
   <<I("SeqInsert", d, <<s>>, <<e>>)>>,
   <<I("SeqInsertSeq", d, <<s, t>>, <<e>>)>>,
   <<I("SeqRemove", d, <<s>>, <<"k", e>>)>>,
   <<I("SeqSwapWithin", d, <<s>>, <<"k", e, "k">>)>>,
   <<I("SeqSwap", d \o "p", <<s, t>>, <<"k", "k", e>>), I("Extract0", d, <<d \o "p">>, << >>)>>,
   <<I("SeqSwap", d \o "p", <<t, s>>, <<"k", e, "k">>), I("Extract1", d, <<d \o "p">>, << >>)>>,
   <<I("MutCall", d \o "c", <<s>>, << >>), I("RetPHI", d, <<s>>, <<d \o "c">>)>>,
   <<I("SeqCopy", d, <<s>>, <<"k", e>>)>>}
AssocStep(d, s) ==
  {<<I(op, d, <<s>>, <<"k">>)>> : op \in {"AssocWrite", "AssocInsert", "AssocRemove"}}
    \cup {<<I("UsePHI", d \o "u", <<s>>, << >>), I("AssocGet", d \o "g", <<d \o "u">>, <<"k">>),
            I("AssocWrite", d, <<d \o "u">>, <<"k">>)>>}

Simple(d, s, op) == <<I(op, d, <<s>>, <<"k">>)>>
See(d, s) == <<I("IndexRead", d, <<s>>, <<"k">>)>>
End(d) == <<I("End", d, << >>, << >>)>>
Ret(s) == <<I("Return", "ret" \o s, <<s>>, << >>)>>

Lines(impls) ==
  {Function(<<{}>>, <<End("e") \o p \o See("r1", "a") \o q \o <<I("Size", "z", <<"b">>, << >>)>>
                      \o See("r2", "b") \o See("r3", "t") \o Ret("b")>>,
            <<{}>>, {"s", "t"}, impls)
     : p \in SeqStep("a", "s", "t", "e"), q \in SeqStep("b", "a", "t", "k")}

ArrayLines(impls) ==
  {Function(<<{}>>, <<<<I("AssocAlloc", "s", << >>, << >>)>> \o p
                      \o <<I("AssocHas", "h", <<"a">>, <<"k">>), I("AssocKeys", "ks", <<"a">>, << >>)>>
                      \o q \o <<I("AssocRead", "r", <<"b">>, <<"k">>), I("Call", "c", <<"b">>, << >>)>>
                      \o Ret("ks") \o <<I("Delete", "d", <<"b">>, << >>)>>>>,
            <<{}>>, {}, impls)
     : p \in AssocStep("a", "s"), q \in AssocStep("b", "a")}

\* The join, block 2, and one branch, block 3, come before block 4 that dominates both.
Diamonds ==
  {Function(<<{4}, {}, {2}, {2, 3}>>,
            <<<<I("SeqAlloc", "o", << >>, <<"k">>), I("UsePHI", "s", <<"o">>, << >>)>>,
              q \o See("r2", "c") \o Ret("c"), p \o See("r1", "b"),
              Simple("m", "s", "IndexWrite") \o <<I("DefPHI", "a", <<"m">>, << >>)>>>>,
            <<{}, {PHI("j", [x \in {3, 4} |-> IF x = 3 THEN "b" ELSE "a"])}, {}, {}>>,
            {"t"}, AllImpls)
     : p \in SeqStep("b", "a", "t", "k") , q \in SeqStep("c", "j", "t", "k")}

Loops ==
  {Function(<<{2}, {3, 4}, {2}, {}>>,
            <<<<I("ArgPHI", "s0", <<"s">>, << >>)>>, See("r1", "p"),
              End("e") \o p \o See("r2", "a"), Ret("p") \o Ret("q")>>,
            <<{}, {PHI("p", [x \in {1, 3} |-> IF x = 1 THEN "s0" ELSE "q"]),
                   PHI("q", [x \in {1, 3} |-> IF x = 1 THEN "t" ELSE "a"])}, {}, {}>>,
            {"s", "t", "u"}, AllImpls)
     : p \in SeqStep("a", "p", "u", "e")}

\* Functions some implementation is missing for, and uses of an End nothing is known about.
Gaps ==
  UNION {Lines(AllImpls \ {op}) : op \in {"SeqInsert"}} \cup UNION {ArrayLines(AllImpls \ {op}) : op \in {"AssocAlloc"}}
    \cup {Function(<<{}>>, <<End("e") \o <<I("IndexGet", "g", <<"s">>, <<"e">>)>> \o Ret("s")>>,
                   <<{}>>, {"s"}, AllImpls)}

Correct == Lines(AllImpls) \cup ArrayLines(AllImpls) \cup Diamonds \cup Loops \cup Gaps

\* What the theorem that nothing dangles assumes of the functions.
ASSUME CorrectAssumption == \A P \in Correct : Ordinary(P)

\* One End for two operands, as in removing the range from end to end, and for two operations.
SharedEnds ==
  {Function(<<{}>>, <<End("e") \o <<I("SeqRemove", "a", <<"s">>, <<"e", "e">>)>> \o Ret("a")>>,
            <<{}>>, {"s"}, AllImpls),
   Function(<<{}>>, <<End("e") \o <<I("SeqInsert", "a", <<"s">>, <<"e">>)>>
                      \o <<I("SeqInsert", "b", <<"a">>, <<"e">>)>> \o Ret("b")>>,
            <<{}>>, {"s"}, AllImpls)}
=============================================================================
