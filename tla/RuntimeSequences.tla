-------------------------- MODULE RuntimeSequences --------------------------
(***************************************************************************)
(* The sequence operations of the runtime library on SequenceAlloc objects *)
(* (runtime/src: mut_operations.cpp, ssa_operations.cpp, mut_access.cpp,   *)
(* ssa_access.cpp, detail/collections.cpp).  An object holds its _sequence.*)
(***************************************************************************)
EXTENDS RuntimeHeap

CONSTANTS
  MaxLength,  \* bound: the longest sequence
  End         \* (size_t)-1, which memoir__end returns

ASSUME MaxLengthAssumption == MaxLength \in Nat
ASSUME EndAssumption == End \notin Nat
ASSUME FreedAssumption == Freed \notin Seq(Elements)
ASSUME NoneAssumption == None \notin Seq(Elements)

Bounds  == 0 .. MaxLength + 1
Indices == Bounds \cup {End}   \* which only the SSA operations take

seq(n) == object(n)

\* if (i == (size_t)-1) i = seq->size()
At(i, s) == IF i = End THEN Len(s) ELSE i

-----------------------------------------------------------------------------
(* The same in both forms. *)

\* Variant: the elements are not initialised.
AllocateRaw(d, len) ==
  /\ Calls("allocate", {}) /\ len <= MaxLength
  /\ New(<<"allocate", d, len>>, d, [x \in 1 .. len |-> None]) /\ UNCHANGED status

Allocate(d, len) ==
  /\ Calls("allocate", {}) /\ len <= MaxLength
  /\ New(<<"allocate", d, len>>, d, [x \in 1 .. len |-> Zero]) /\ UNCHANGED status

IndexRead(n, i) ==
  /\ Calls("read", {n})
  /\ Outcome(Usable({n}), i < Len(seq(n)), TRUE, Returns(<<"read", n, i, seq(n)[i + 1]>>))

Size(n) ==
  /\ Calls("size", {n})
  /\ Outcome(Usable({n}), TRUE, TRUE, Returns(<<"size", n, Len(seq(n))>>))

-----------------------------------------------------------------------------
(* Mutable operations, in place. *)

\* std::vector: insert, erase, resize.
VectorInsert(s, i, t) == SubSeq(s, 1, i) \o t \o SubSeq(s, i + 1, Len(s))
VectorErase(s, i, j)  == SubSeq(s, 1, i) \o SubSeq(s, j + 1, Len(s))
VectorResize(s, n)    == [x \in 1 .. n |-> IF x <= Len(s) THEN s[x] ELSE Zero]

\* std::copy(t.begin(), t.end(), s.begin() + i)
CopyTo(s, i, t) ==
  [x \in DOMAIN s |-> IF i < x /\ x <= i + Len(t) THEN t[x - i] ELSE s[x]]

\* std::swap of element x of object o and element y of object p
SwapElement(h, o, x, p, y) ==
  [[h EXCEPT ![o][x] = h[p][y]] EXCEPT ![p][y] = h[o][x]]

\* Variant: each element of the first range is copied over that of the second.
SwapRangesOneWay(h, o, i, p, j, m) ==
  LET after[k \in 0 .. m] ==
        IF k = 0 THEN h ELSE [after[k - 1] EXCEPT ![p][j + k] = after[k - 1][o][i + k]]
  IN  after[m]

\* for k < m: std::swap(*(o.begin() + i + k), *(p.begin() + j + k))
SwapRanges(h, o, i, p, j, m) ==
  LET after[k \in 0 .. m] ==
        IF k = 0 THEN h ELSE SwapElement(after[k - 1], o, i + k, p, j + k)
  IN  after[m]

MutIndexWrite(n, i, v) ==
  /\ Calls("mut_write", {n})
  /\ Outcome(Usable({n}), i < Len(seq(n)), TRUE,
             InPlace(<<"write", n, n, i, v>>, n, [seq(n) EXCEPT ![i + 1] = v]))

MutSeqInsert(n, i, v) ==
  /\ Calls("mut_insert", {n})
  /\ Outcome(Usable({n}), TRUE, i <= Len(seq(n)),
             /\ Len(seq(n)) < MaxLength
             /\ InPlace(<<"insert", n, n, i, v>>, n, VectorInsert(seq(n), i, <<v>>)))

\* A vector's own elements do not survive being inserted into it.
MutSeqInsertSeq(n, i, x) ==
  /\ Calls("mut_insert_seq", {n, x})
  /\ Outcome(Usable({n, x}), TRUE, env[n] # env[x] /\ i <= Len(seq(n)),
             /\ Len(seq(n)) + Len(seq(x)) <= MaxLength
             /\ InPlace(<<"insert_seq", n, n, i, x>>, n, VectorInsert(seq(n), i, seq(x))))

MutSeqRemove(n, i, j) ==
  /\ Calls("mut_remove", {n})
  /\ Outcome(Usable({n}), TRUE, i <= j /\ j <= Len(seq(n)),
             InPlace(<<"remove", n, n, i, j>>, n, VectorErase(seq(n), i, j)))

\* Grows by the size of the other, copies it behind what was there, and deletes it:
\* itself, if that is what is appended, which is in bounds when it is empty.
MutSeqAppend(n, x) ==
  /\ Calls("mut_append", {n, x})
  /\ Outcome(Usable({n, x}), TRUE, env[n] # env[x] \/ seq(n) = << >>,
       LET size1 == Len(seq(n))
           grown == VectorResize(seq(n), size1 + Len(seq(x)))
       IN  /\ Len(grown) <= MaxLength
           /\ Leaves(<<"append", n, x>>, env,
                     [heap EXCEPT ![env[n]] = CopyTo(grown, size1, seq(x)),
                                  ![env[x]] = Freed]))

\* The assertions check the second range; nothing checks the end of the first.
SwapAsserts(i, j, k, t) == i <= j /\ k + (j - i) <= Len(t)

MutSeqSwap(n, i, j, x, k) ==
  /\ Calls("mut_swap", {n, x})
  /\ Outcome(Usable({n, x}), SwapAsserts(i, j, k, seq(x)), j <= Len(seq(n)),
             Leaves(IF n = x THEN <<"swap_within", n, n, i, j, k>>
                    ELSE <<"swap", n, x, n, i, j, x, k>>, env,
                    SwapRanges(heap, env[n], i, env[x], k, j - i)))

MutSeqSwapWithin(n, i, j, k) ==
  /\ Calls("mut_swap_within", {n})
  /\ Outcome(Usable({n}), SwapAsserts(i, j, k, seq(n)), j <= Len(seq(n)),
             Leaves(<<"swap_within", n, n, i, j, k>>, env,
                    SwapRanges(heap, env[n], i, env[n], k, j - i)))

\* Variant: splitting everything off hands over the object itself.
MutSeqSplitWhole(d, n, i, j) ==
  /\ Calls("mut_split", {n})
  /\ Outcome(Usable({n}), i <= j, j <= Len(seq(n)),
             IF i = 0 /\ j = Len(seq(n))
             THEN Leaves(<<"split", d, n, i, j>>, [env EXCEPT ![d] = env[n]], heap)
             ELSE Leaves(<<"split", d, n, i, j>>, [env EXCEPT ![d] = Fresh],
                         [heap EXCEPT ![Fresh] = SubSeq(seq(n), i + 1, j),
                                      ![env[n]] = VectorErase(seq(n), i, j)]))

\* Moves the range to a new container, then erases it.
MutSeqSplit(d, n, i, j) ==
  /\ Calls("mut_split", {n})
  /\ Outcome(Usable({n}), i <= j, j <= Len(seq(n)),
             Leaves(<<"split", d, n, i, j>>, [env EXCEPT ![d] = Fresh],
                    [heap EXCEPT ![Fresh] = SubSeq(seq(n), i + 1, j),
                                 ![env[n]] = VectorErase(seq(n), i, j)]))

-----------------------------------------------------------------------------
(* SSA operations: d names the result. *)

\* Writes in place and returns its operand.
IndexWrite(d, n, i, v) ==
  /\ Calls("write", {n})
  /\ Outcome(Usable({n}), i < Len(seq(n)), TRUE,
             Leaves(<<"write", d, n, i, v>>, [env EXCEPT ![d] = env[n]],
                    [heap EXCEPT ![env[n]][i + 1] = v]))

SeqInsert(d, n, index, v) ==
  LET s == seq(n)
      i == At(index, s)
  IN  /\ Calls("insert", {n})
      /\ Outcome(Usable({n}), TRUE, i <= Len(s),
                 /\ Len(s) < MaxLength
                 /\ New(<<"insert", d, n, index, v>>, d, [x \in 1 .. Len(s) + 1 |->
                                        IF x <= i THEN s[x]
                                        ELSE IF x = i + 1 THEN v ELSE s[x - 1]]))

SeqInsertSeq(d, n, index, e) ==
  LET s == seq(n)
      t == seq(e)
      i == At(index, s)
  IN  /\ Calls("insert_seq", {n, e})
      /\ Outcome(Usable({n, e}), TRUE, i <= Len(s),
                 /\ Len(s) + Len(t) <= MaxLength
                 /\ New(<<"insert_seq", d, n, index, e>>, d, [x \in 1 .. Len(s) + Len(t) |->
                                            IF x <= i THEN s[x]
                                            ELSE IF x <= i + Len(t) THEN t[x - i]
                                            ELSE s[x - Len(t)]]))

\* Nothing checks the order: a reversed range gets its elements twice.
SeqRemove(d, n, begin, end) ==
  LET s == seq(n)
      i == At(begin, s)
      j == At(end, s)
  IN  /\ Calls("remove", {n})
      /\ Outcome(Usable({n}), TRUE, i <= Len(s) /\ j <= Len(s),
                 /\ Len(s) + i <= MaxLength + j
                 /\ New(<<"remove", d, n, begin, end>>, d, [x \in 1 .. Len(s) + i - j |->
                                        IF x <= i THEN s[x] ELSE s[x + j - i]]))

\* Takes the range out of its operand, too.
SeqCopy(d, n, begin, end) ==
  LET s == seq(n)
      i == At(begin, s)
      j == At(end, s)
  IN  /\ Calls("copy", {n})
      /\ Outcome(Usable({n}), i <= j, j <= Len(s),
                 Leaves(<<"copy", d, n, begin, end>>, [env EXCEPT ![d] = Fresh],
                        [heap EXCEPT ![Fresh] = SubSeq(s, i + 1, j),
                                     ![env[n]] = VectorErase(s, i, j)]))

\* Both operands are copied, then ranges of the copies are swapped.
SeqSwap(d, e, n, from, to, x, from2) ==
  LET i == At(from, seq(n))
      j == At(to, seq(n))
      k == At(from2, seq(x))
  IN  /\ Calls("swap", {n, x}) /\ d # e
      /\ Outcome(Usable({n, x}), SwapAsserts(i, j, k, seq(x)), j <= Len(seq(n)),
                 Leaves(<<"swap", d, e, n, from, to, x, from2>>,
                        [env EXCEPT ![d] = Fresh, ![e] = Fresh2],
                        SwapRanges([heap EXCEPT ![Fresh] = seq(n), ![Fresh2] = seq(x)],
                                   Fresh, i, Fresh2, k, j - i)))

SeqSwapWithin(d, n, from_begin, from_end, to_begin) ==
  LET i == At(from_begin, seq(n))
      j == At(from_end, seq(n))
      k == At(to_begin, seq(n))
  IN  /\ Calls("swap_within", {n})
      /\ Outcome(Usable({n}), SwapAsserts(i, j, k, seq(n)), j <= Len(seq(n)),
                 Leaves(<<"swap_within", d, n, from_begin, from_end, to_begin>>,
                        [env EXCEPT ![d] = Fresh],
                        SwapRanges([heap EXCEPT ![Fresh] = seq(n)], Fresh, i, Fresh, k, j - i)))

-----------------------------------------------------------------------------

Common(n) ==
  \/ \E len \in Bounds : Allocate(n, len)
  \/ \E i \in Bounds : IndexRead(n, i)
  \/ Size(n) \/ Delete(n)

MutOp(n) ==
  \/ \E i \in Bounds, v \in Elements : MutIndexWrite(n, i, v) \/ MutSeqInsert(n, i, v)
  \/ \E i \in Bounds, x \in Names : MutSeqInsertSeq(n, i, x)
  \/ \E x \in Names : MutSeqAppend(n, x)
  \/ \E i, j \in Bounds : MutSeqRemove(n, i, j)
  \/ \E i, j \in Bounds, d \in Names : MutSeqSplit(d, n, i, j)
  \/ \E i, j, k \in Bounds : MutSeqSwapWithin(n, i, j, k)
  \/ \E i, j, k \in Bounds, x \in Names : MutSeqSwap(n, i, j, x, k)

SSAOp(n) ==
  \/ \E i \in Bounds, v \in Elements, d \in Targets("write", n) : IndexWrite(d, n, i, v)
  \/ \E i \in Indices, v \in Elements, d \in Targets("insert", n) : SeqInsert(d, n, i, v)
  \/ \E i \in Indices, e \in Names, d \in Targets("insert_seq", n) : SeqInsertSeq(d, n, i, e)
  \/ \E i, j \in Indices, d \in Targets("remove", n) : SeqRemove(d, n, i, j)
  \/ \E i, j \in Indices, d \in Targets("copy", n) : SeqCopy(d, n, i, j)
  \/ \E i, j, k \in Indices, d \in Targets("swap_within", n) : SeqSwapWithin(d, n, i, j, k)
  \/ \E i, j, k \in Indices, x \in Names :
       \E d \in Targets("swap", n), e \in Targets("swap", x) : SeqSwap(d, e, n, i, j, x, k)

Next == Ended \/ \E n \in Names : Common(n) \/ MutOp(n) \/ SSAOp(n)

Spec == Init /\ [][Next]_vars

-----------------------------------------------------------------------------
(* Properties. *)

\* Variables point to objects, objects hold sequences.
TypeOK ==
  /\ env \in [Names -> Objects \cup {None}]
  /\ DOMAIN heap = Objects
  /\ \A o \in Objects : heap[o] = Freed \/ heap[o] \in Seq(Elements)
  /\ status \in {"running", "aborted", "undefined"}

(***************************************************************************)
(* The library implements the abstract store: what a variable points to is *)
(* what it holds, and each call does to it what its name says, to the      *)
(* destination only.  For the SSA operations this says that they are       *)
(* immutable: every older version is still what it was.                    *)
(***************************************************************************)
Store == INSTANCE SequenceStore WITH
  contents <- Held

ImplementsStore == Store!Spec
=============================================================================
