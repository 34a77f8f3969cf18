# A verification project for MEMOIR

MEMOIR is an LLVM compiler and a C++ runtime that represent data collections
(sequences, associative arrays, tensors, structs) in SSA form.  A front end
calls *mutable* operations (`mut__sequence_insert`, ...).  The compiler turns
them into *immutable* ones that each define a new version of the collection
(`memoir__sequence_insert`, ...), optimises that form, and lowers it again to
mutable calls on concrete data structures.  Everything is sequential: there are
no threads, nothing is persisted and nothing is sent.  What is hard in this code
is order and staleness: which version of a collection a use sees after branches,
joins and loops, and what an operation does to the versions it was not asked
about.

## Inventory

| Part | State it keeps | Operations | Correct when |
|---|---|---|---|
| SSA construction (`transforms/ssa_construction`) | reaching definitions, PHIs inserted per name, instructions to delete | PHI insertion on the iterated dominance frontier; one visitor per operation; update of successors' PHIs; cleanup | the result is valid SSA and computes what the mutable program computes; the pass ends |
| SSA destruction (`transforms/ssa_destruction`) | replacements of coalesced values, instructions to delete, staged uses | one visitor per SSA operation; PHI coalescing; `End` contextualisation; cleanup | the mutable program computes what the SSA program computed, unless an old version is still live |
| IR (`ir`) | cache of instruction wrappers | classification and operands of calls | every call has the class its symbol names |
| Compiler types (`ir/Types`) | interned types | `get`, `define`, mapping to LLVM types | equal types are one object |
| Type analysis, type inference | memo tables | types of values, annotations of functions | an annotation agrees with every use |
| Range, live range, size analyses | ranges per index, constraint graph | constraints, condensation, propagation | a live range covers every element that is read |
| Graph (`support/Graph.hpp`) | adjacency lists | SCCs, condensation, topological order | the condensation has an edge wherever the graph has one |
| Value expressions and numbering | memo of expressions | build, compare, materialise | equal expressions have equal values |
| Dead element / collection / field elimination | live ranges, sets of dead things | guards around writes, erasure of dead instructions and fields | no live element, collection or field is lost |
| Field elision, key folding | candidates, collections to pass along | rewriting of field accesses and keys | the rewritten access reaches the same element |
| Impl linker, type layout, builder | set of implementations, field offsets | emit, layout, create calls | every call that destruction emits has an implementation; fields do not overlap |
| Runtime collections (`runtime/src`) | heap of sequences, views, associative arrays, tensors | mutable operations in place, SSA operations on copies | each does to the content what its name says, and SSA operations change nothing else |
| Runtime types | interned types | `get`, `define`, `equals` | equality of types is structural where code relies on it |
| Backends | vector and hash-table macros | operations the lowered code calls | same contents as the runtime's collections |

How they interact: the front end's program is a module of calls to the runtime
library.  `memoir-norm` normalises it (`-break-crit-edges -mem2reg`), SSA
construction rewrites it function by function with LLVM's dominator tree and
dominance frontier, the analyses and optimisations read and rewrite the SSA
form, the impl linker emits the data structures the lowered program calls, and
SSA destruction rewrites each function a last time.  Passes hand over nothing
but the IR; `TypeAnalysis::invalidate` and `MemOIRInst::invalidate` drop what
was cached about it.

`PROJECT.json` lists every part with what is modelled of it ("components") and
what is hard to test in it, line by line ("hazards").

## Plan

1. **SSA construction** on an IR that keeps the control flow and the collection
   operands: `MemoirIR`, `SSAConstruction`, `SSALockStep`, with inductive
   invariants and their proofs, up to the result computing what the input does.
   *Done.*
2. **Runtime collections**: sequences and associative arrays, mutable and SSA,
   each shown and proved to implement an abstract store of values.  *Done*; sequence views, join and slice, and tensors are left.
3. **SSA destruction** in lock step with the SSA program it is given, with an
   inductive invariant and its proof.  *Done.*
4. **Type layout** and the lowered accesses to structs, shown to implement a
   record, with a proof that fields do not overlap.  *Done.*
5. The constraint graph of live ranges: Tarjan's components, the condensation,
   the topological order, the evaluation, and dead element elimination on top, with
   a proof that the order is one.  *Done.*
6. Field elision (the call-graph traversal, versions of functions), key folding,
   dead field and collection elimination, with proofs about all but key folding.  *Done.*
7. Types of compiler and runtime, type analysis and inference.  *Done.*  Value
   numbering decides nothing and is left.
8. The impl linker against the calls that destruction makes.  *Done* for the two
   backends that are built.

Theorems planned: that destruction preserves meaning, for every program that does not use
an old version.  It needs the aliasing of the lowered program; TLC checks it
(`SSADestructionLockStep.Agreement`).

## Modules

### MemoirIR

The control-flow graph, code, PHIs and arguments of one function, by the parts
the collection passes look at: `[succ, code, phis, args]`.  An instruction is an
operation, the collection it defines and the collections it takes; indices, keys
and stored values are left out, since no pass in scope decides anything on them.
Dominators, the dominance frontier and `DominatorTree::dominates` are LLVM's and
are given by their definitions.  `WellFormed` says what a pass may rely on: the
verifier's rules (one definition per name, no PHI in the entry, every use dominated),
no dead blocks, no critical edges.

### SSAConstruction

One behaviour is one run of the pass on one function chosen in `Init`.

| Code | Model |
|---|---|
| `memoir_names`, `def_parents_worklist`, `phi_parents` | `names_left`, `current`, `worklist`, `phi_parents` |
| popping a block off the worklist | `InsertPHIs` |
| constructing the visitor | `BeginRename` |
| `update_reaching_definition`: lookup, loop, result | `Seek`, `FollowChain`, `EndChain` |
| `visitPHINode` | `VisitSourcePHI`, `SeekPHI` then `VisitInsertedPHI` |
| `visitMut...`, `visit...Read`, `visitAssocHasInst`, `visitInstruction` | `SeekOperand` per operand, then the action of that name |
| updating the successors' PHIs | `EndInstructions`, `SeekIncoming`, `SetIncoming` |
| depth-first preorder of the dominator tree | `NextBlock`, `EndTraversal` |
| `cleanup` | `Cleanup` |

Orders the code leaves to LLVM or to a hash set (names, the worklist, PHIs of a
block, children in the dominator tree) are nondeterministic here.  The option
`memoir-enable-use-phis` is the constant `UsePHIs`.

### SSALockStep

When the pass is done, `SSALockStep` executes the function it was given and the
function it made along every path of at most `MaxBlocks` blocks.  The mutable
side has names that point into a heap, so appending, splitting and PHIs alias as
they do in the program; the immutable side binds each value once.  Contents are
terms (an operation at a position applied to contents), so two contents are equal
exactly when they are for all indices, keys and values.  `Agreement` compares
what every read, query, call and return sees, in order.  The SSA operations are
read as MEMOIR defines them, on immutable collections; what the runtime library
does for them is a question of its own.

`Faithful` says of which functions agreement can be promised.  The pass takes every
name for a collection of its own (`NamesAreApart`): at a PHI of the front end a
collection may get a new name, but then it must lose the old one, for a write under one
would not be seen under the other; two PHIs of a block must not take the same
collection.  And without use-PHIs `has` keeps the collection it was written with
(`SSAConstruction.cpp:604`), so nothing may have mutated that before (`AsDefined`).

### MCSSALockStep

The functions the models run on: a chain, a diamond, a loop and a loop with a
branch inside, filled with pieces of code that use every operation, over two
sequences that are arguments, allocations or the two halves of a split, or over
an associative array.

### SSAConstructionProofs, SSALockStepProofs

What a proof about a pass needs of graphs: dominance is a chain with a last element
(`ImmediateDominator`), a preorder of the dominator tree comes to a block after its
dominators (`DominatorsFirst`), and where a definition stops being the last on every
path there is a block of its dominance frontier.  Then `IInv` and its proof, a second
invariant, `Built`, for what the pass leaves behind, and a third, `Tracked`, for which
version of a name a reaching definition is.  `SSALockStepProofs` adds what the pass has
written and what the two programs know of each other while they run; see "Proofs".

### RuntimeHeap, SequenceStore, AssocStore

`RuntimeHeap` is what all functions of the runtime library share: `heap` maps an
object to what it holds or to `Freed`, `env` maps a variable of the calling program
to an object, and a call returns normally, ends the program (`MEMOIR_ASSERT`) or is
undefined behaviour (a `std::vector` left, a deleted object used).  `SequenceStore`
and `AssocStore` say what an operation promises: each variable has contents of its
own, a mutable operation changes those of its operand, and an SSA operation those
of its result and of nothing else.

### RuntimeSequences, RuntimeAssocs

One action per function of `mut_operations.cpp`, `ssa_operations.cpp`,
`mut_access.cpp`, `ssa_access.cpp`, `allocation.cpp` and `deletion.cpp`, with the
methods of `SequenceAlloc` and `AssocArray` it calls, in their order.

| Code | Model |
|---|---|
| `SequenceAlloc::_sequence`, a `std::vector` | the sequence in `heap` |
| `AssocArray::_assoc_array`, a `std::unordered_map` by the key's value cast to 64 bits | a function from `Cast[key]` in `heap` |
| iterators past the end, reversed ranges | `status = "undefined"` |
| `get_element`, which creates what it does not find | `AssocArray` reads and writes alike |
| index `-1`, the end | `End` |

`ImplementsStore` maps the heap through `env` to the store's contents.  Elements are
values that are compared and nothing else; `Cast` is the conversion of a key.

### RuntimeSequencesProofs, RuntimeAssocsProofs

That every step of `RuntimeSequences` is a step of `SequenceStore`, and every step of
`RuntimeAssocs` one of `AssocStore`.

### SSADestruction

One behaviour is one run of the pass on one function, chosen in `Init` with the
implementations it may call and whether collections are lowered.

| Code | Model |
|---|---|
| the walk of `runOnModule` in the dominator tree | `NextBlock` |
| the visitors, lowered | `VisitLowered`, `VisitUnlowerable` |
| the visitors under `-disable-collection-lowering` | `VisitMutated` |
| visitors that leave the instruction, or only warn | `VisitLeft` |
| UsePHI, DefPHI, ArgPHI, RetPHI | `VisitRenaming` |
| `visitEndInst`, `contextualize_end` | `VisitEnd`, `VisitEndUnsupported` |
| `coalesced_values`, `replaced_values` | `coalesced`, `replaced` |
| `do_coalesce`: early return, lookup, `find_replacement`, replacement | `CoalesceSkip`, `CoalesceFind`, `FindReplacement`, `DoCoalesce` |
| `cleanup` | `Cleanup` |

### SSADestructionLockStep

As `SSALockStep`, from SSA to mutable: the SSA function binds each version once, the
rewritten one has objects that change in place.  A program that uses a version after
the next one was made is one the pass cannot lower (`stale`): the pass has a liveness
analysis for it and never asks it, so agreement is promised for the others only.

### SSADestructionProofs

`IInv` of `SSADestruction` and its proof, and a second invariant, `Kept`, for what is
erased.

### TypeLayout, RecordStore, TypeLayoutProofs

`TypeConverter::visitStructType` field by field (`LayoutBitField`, `LayoutField`,
`EndLayout`), then the accesses that the destruction pass makes of reads and writes
of fields (`StructAlloc`, `StructWrite`, `StructRead`) on one object.

| Code | Model |
|---|---|
| `current_field_width`, `current_field_offset` | `width`, `offset` |
| `llvm_field_types`, `field_offsets`, `bit_field_ranges` | `elements`, `offsets`, `ranges` |
| `get_next_size`, `is_size` | `NextSize`, `IsSize` |
| the bytes of the object | `memory`, one number per element |
| shifts and masks | arithmetic with powers of 2 |

`RecordStore` is the record of numbers this implements.  The program reads no field
it has not written.

### DirectedGraph

`support/Graph.hpp` on its adjacency list: `tarjan_scc`, `condense` and
`topological_order`.  Their recursive helpers are machines whose frames are in
`calls`, each with the edges it has left.

| Code | Model |
|---|---|
| the loop over all nodes, a `std::map` of pointers | `ScanNode`, `ScanUnmarked`, in the order of `address` |
| the loop over neighbours, a hash map | `TreeEdge`, `OtherEdge`, `OrderEdge`, any order |
| the end of `tarjan_scc_helper` | `LeaveRoot`, `Leave` |
| `condense`, one component at a time | `BeginCondense`, `AddComponent`, `EndCondense` |
| `topological_order` and its visits | `Visit`, `Mark`, `EndOrder` |

`GraphInit` is any directed graph: one whose components, condensation and order are
made, or one that is ordered as it is.

### DirectedGraphProofs

That the order is topological, that the components are strong, and that the stack and the
marks are what they should be, for every directed graph; see "Proofs".

### LiveRanges, DeadElements, MCLiveRanges

`LiveRangeAnalysis` on the sequences of one function, on top of `DirectedGraph`, with
the ranges that `RangeAnalysis` gives its indices; then `DeadElementElimination`.

| Code | Model |
|---|---|
| `RangeAnalysis::induceRange` and what it calls | `Bounds`, `RangeOf` |
| `add_uses_to_graph`, instruction by instruction | `Construct`, `EndConstruct` |
| the evaluation along the condensation, root then members | `BeginEvaluate`, `EvaluateRoot`, `EvaluateMember`, `EndEvaluate` |
| the guard around a write or an insertion | `Eliminate`, `EndEliminate` |

A range is a pair of bounds, each a number with what the code asks of it: whether it is
a constant or the end, and whether its value is there at another instruction.
`GuardsKeepDemand` executes the reads for all numbers an index can be and asks that no
write they see is guarded away.

### FieldElision, DeadFields, DeadCollections, KeyFolding, MCStructs

Four passes over whole modules; `MCStructs` has their programs.

| Code | Model |
|---|---|
| `FieldElision::analyze` | `Analyze` |
| `traverse_call_graph_node`, with the fields of a callee as they are so far | `SkipEdge`, `SeenEdge`, `VisitEdge`, `LeaveNode` |
| the clone with arguments, the allocations in `main` | `OrderArguments`, `Allocate` |
| calls and accesses rewritten, the originals erased | `Rewrite`, `Cleanup` |
| `DeadFieldElimination` on the result | `AnalyzeFields`, `RemoveFields`, `EndFields` |
| `DeadCollectionElimination`: visitors, `dropAllReferences`, deletion | `VisitInstruction`, `DropReferences`, `Delete` |
| `KeyFolding`, the worklist over the uses of an allocation | `NextAssoc`, `FollowUses`, `CheckKeys` |
| the worklist back to where the keys come from | `FollowSources`, `Decide`, `EndAnalysis` |
| the transformation of an allocation and its accesses | `Fold`, `EndFolding` |

`AccessesReachArray` runs the call graph of the rewritten module and asks that every
access of a field that was taken out of its struct has the one array `main` made for it.
`AccessesFitCollection` follows every array through the program as it is after folding
and asks that no access of the other kind, by key or by index, meets it.

### StructsProofs

That accesses reach their arrays after field elision and keep their fields after dead
field elimination, and that the deletion of dead collections leaves a whole program, under
the assumptions that "Proofs" names; and that the compiler's tables have one object per
type (`TypeTables`, as `Tables`).

### TypeTables, TypeAnalysis, TypeInference

The compiler compares types by address: `types` is a sequence, and a type's address its
place in it.  `TypeAnalysis` answers questions about values; an answer is an operator
that passes on the state of the analysis (`types`, `memo`, `visited`, `edges`,
`edgeTypes`, `answer`, `status`), one operator per visitor, since a question is one call
that nothing interrupts.

| Code | Model |
|---|---|
| `get`, `define` of `Types.cpp` | `Intern` over `SameKey` |
| `getType`, `getType_helper` | `GetType`, `Helper`; a question is `Analyze` |
| `visitPHINode` and the edges it has seen | `VisitPHI`, `Incoming` |
| the visitors | `VisitCall`, `VisitLoad`, `VisitSwap`, ... |
| an assertion, recursion that never ends | `status` is `"aborted"`, `"overflow"` |
| `invalidate` | `Invalidate` |
| `infer`, `infer_argument_type`, `infer_return_type` | `Infer`, `InferArgument`, `InferReturn` |
| `annotate` through `MemOIRBuilder` | `Annotated` |

### RuntimeTypes, ImplLinker, MCTypes

`RuntimeTypes` executes the program, annotated or not, value by value, with the type
objects of the runtime library, which are compared by structure or by identity as
`types.cpp` does.  `ImplLinker` follows the other way a program takes: the pass
`memoir-impl-linker` (`Link`) implements what is allocated, and SSA destruction, which
goes from function to function (`Visits`), asks for the types in one before it visits it
(`AskFirst`) and then looks up for each operation the function to call (`Lower`), whose
name it makes of the types it finds.  `TypeConverter`, which ends the compiler at a
collection within a struct or another collection, is `HasLayout`.
`CallsAreImplemented` and `DefinedOnce` are about that name: what one pass defines the
other must find, and once.

## Runs

<!-- runs -->
| Run | Checks | Shows |
|---|---|---|
| `MCSSALockStep_all.cfg` (pass) | `TypeOK`, `ReachingDominates`, `ChainsStayInWeb`, `ResultVerifies`, `Agreement` | On some 400 functions over sequences, associative arrays and PHIs of the front end, in four shapes of control flow, the pass keeps its chains sound, its result passes the verifier, and the result computes what the function computed, append and split included. |
| `MCSSALockStep_usephis.cfg` (pass) | `FoundIsLatest`, `ReachingDominates`, `Agreement`, `IInv`, `PassEnds` | With memoir-enable-use-phis every read defines a use-PHI: chains get longer and reads cause PHIs; each reaching definition found is the latest version of its name, and the result still agrees; the invariant the proofs rest on holds, and the PHI worklist, the chains and the traversal end. |
| `MCSSALockStep_besidephi.cfg` (violation) | `Agreement` | A name that a PHI of the join already uses gets no PHI of its own there, and a read after the join misses the write of one branch. |
| `MCRuntimeSequences_all.cfg` (pass) | `TypeOK`, `NoSharing`, `ImplementsStore` | Each sequence operation, mutable or SSA, does to the contents what its name says and to no other variable anything, in every order of calls on two variables; of the SSA write and copy only as long as the program does not look at their operand again. |
| `MCRuntimeSequences_copy.cfg` (violation) | `ImplementsStore` | The SSA copy of a range takes the range out of its operand. |
| `MCRuntimeAssocs_all.cfg` (pass) | `TypeOK`, `NoSharing`, `ImplementsStore` | Each operation on associative arrays does what its name says and leaves other variables as they were, a read inserting at most the key it asks for; of the SSA write only as long as the program does not look at its operand again. |
| `MCSSADestruction_all.cfg` (pass) | `TypeOK`, `ReplacedUnused`, `NothingDangles`, `Agreement` | Straight lines over all pairs of operations, a diamond laid out join first, and a loop that trades two sequences, with collections lowered and not: replaced values stay out of the function, nothing that is left uses what was erased, and the function computes what it did. |
| `MCTypeLayout_all.cfg` (pass) | `TypeOK`, `FieldsApart`, `FieldsPlaced`, `ImplementsRecord` | Structs of up to four booleans, integers and pointers, bit fields next to one another and not: every field is recorded at the element made for it, and the lowered accesses implement a record of numbers. |
| `MCLiveRanges_all.cfg` (pass) | `GraphTypeOK`, `ComponentsAreStrong`, `OrderIsTopological`, `GuardsKeepDemand`, `PassesEnd` | Components and orders of all directed graphs of three nodes, for every order of edges; live ranges and guards of functions with straight writes or a loop of one: no write of an element that is read is guarded away, and the passes end. |
| `MCLiveRanges_loops.cfg` (violation) | `GuardsKeepDemand` | In a loop of two writes read at two indices the order in which the nodes of a component are evaluated decides whether a write that is read is dropped. |
| `MCStructs_all.cfg` (pass) | `AccessesReachArray`, `AccessesKeepField`, `LeftIsWhole`, `AccessesFitCollection`, `KeysBecomeIndices` | Field elision and then dead field elimination on programs of three functions that call each other, themselves and functions that are external or unknown, with two struct types and five choices of candidates; dead collection elimination on all programs of two types and three instructions in which no assertion names a definition; key folding on 87 programs of arrays written in loops, passed on, and keyed by elements of sequences, of arrays and of what is returned. |
| `MCTypes_all.cfg` (pass) | `AnswersAgree`, `TypesAreUnique`, `InferredAgree`, `AssertionsHold`, `CallsAreImplemented`, `DefinedOnce` | 112 programs of loops, calls, objects, globals, tensors and keys: two questions to the type analysis in any order, before and after type inference, with or without invalidation; their execution with runtime types, and the linking of implementations and the lowering to them, with or without the annotations. |
<!-- end of runs -->

The bounds: blocks are at most 7, instructions at most 8 per block, names at most
4, which is enough for a definition to reach a use through a join, a nested join,
a back edge and the sibling of the branch it is in.  `MaxBlocks = 11` lets a path
go twice through the loop with a branch and leave it, which two nested PHIs need
to be seen wrong.

The runs of the runtime have two variables for sequences of at most three elements,
or three variables and three keys for associative arrays, and enough objects for
their results: operations take at most two collections, and a third variable can
share with either.  Their graphs are complete: there is no bound on how long a
program runs.  `VIEW Seen` leaves out the call made last, on which nothing depends;
TLC still checks the step to it.  Names and objects are symmetric.
`Linear` says which operations the program does not look at the operand of again: the
SSA write and copy, which change it.

The runs of destruction have straight lines over every pair of operations (a second
version of a version), a diamond whose join is laid out before its branches, and a
loop whose two PHIs trade their sequences; `MaxBlocks = 5` goes round that loop twice.

The layouts have up to `MaxFields` = 4 fields of five types, two bit fields at most in
an element with others on both sides; `Patterns` are the corner values of their bits.
`Good` leaves out what the code does not lay out or read correctly: bit fields of a
byte or more before other fields (`HasRoom`, see the hazard at `TypeLayout.hpp:336`)
and signed bit fields in a wider element, which `MCTypeLayout_signed.cfg` shows.

The graphs are all directed graphs of three nodes, under every order of addresses
and edges: a component of two with a third node before, behind or in it is what
distinguishes the lowlinks.  The functions of the live ranges have sequences of `Size`
= 3 elements, a write, what becomes of its result and up to two reads, or a loop with
one write; a loop with two is `MCLiveRanges_loops.cfg`.  They read at no constant
(`RangeAnalysis.cpp:144`).

The programs for structs have three functions, which is enough for a call that passes
on what its caller was passed, a function that is called twice, and one that calls
itself; two that call each other are not among them (`FieldElision.hpp:366`).  Dead
collections run on all programs of two types and three instructions in which no assertion
names the definition of a struct, which would be deleted with it
(`DeadCollectionElimination.hpp:171`).  Key folding runs on 87 programs of up to 20 values.  Its arrays are read or written in a function
or in a callee, and are used otherwise only through PHIs and parameters: `has`, insertion,
removal and keys, operations that move elements, other sequences passed to a callee,
and allocations in loops are left out.  So are new versions of a written array
(`KeyFolding.hpp:271`), which the pass does not follow, and a size that is a parameter of
another function (`KeyFolding.hpp:551`, where the comment above promises one of the function
of the array): `MCStructs_keys.cfg`.  `gather_possible_arguments`, which compares a callee
with the function that makes the call and not the one the parameter is of
(`KeyFolding.hpp:125`), is modelled as it is: `PassedOn` has a call that it finds, and one
that it does not; `OneArgument` one that has too few arguments.  More than one past its
arguments nothing is defined, and no program goes there.  `transformed`, which the pass never sets, decides nothing here.

The types run on 112 programs of up to 20 values.  `Questions` = 2 lets a second answer
depend on what the first one left in the memo table; `MaxDepth` = 25 is above the depth
of any question that ends, so that `"overflow"` is recursion without end.  The programs
leave out linked lists and structs that refer to themselves, PHIs in a cycle of which
one is returned twice, several static tensors (of which `SameKey` takes the lengths for
the same) and collections of references, whose assertions fail at run time
(`MCTypes_beyond.cfg`).  An indirect call has no type.  For linking, a program
has at most one struct type in its collections (`MCTypes_beyond.cfg`), and its
integers are of the widths that C has: for those of one and two bits the linker names
types that do not exist (`ImplLinker.cpp:54`).

A run named as a violation checks one property on the inputs that show it.

Fairness: construction is one thread that always has a next step until it is done, so
`FairLockSpec` assumes weak fairness of the whole pass and of nothing else.  So does
`Spec` of `MCLiveRanges` for the analysis of live ranges and the elimination after it:
`PassesEnd` is that no order of nodes or edges keeps them from ending.

Configurations run by hand, each of which TLC finds violated where the code is as
named; the passing runs keep to inputs without it:

| Configuration | Property | Where |
|---|---|---|
| `MCSSALockStep_has.cfg` | `Agreement` | `SSAConstruction.cpp:605` |
| `MCRuntimeAssocs_remove.cfg` | `ImplementsStore` | `collections.cpp:508` |
| `MCSSADestruction_end.cfg` | `EndsAreContextualized` | `SSADestruction.cpp:439` |
| `MCTypeLayout_signed.cfg` | `ImplementsRecord` | `SSADestruction.cpp:1001` |
| `MCTypes_beyond.cfg` | `AssertionsHold`; with `-continue` also `DefinedOnce` | `types.cpp:415`; `Types.cpp:636` |
| `MCStructs_keys.cfg` | `AccessesFitCollection`; with `-continue` also `SizesAreInScope` | `KeyFolding.hpp:271`; `KeyFolding.hpp:551` |

Variants of definitions that carry the comment "Variant" are what a plausible
slip would have made of the code; each property is violated by one of them, and
no specification uses them.

## Proofs

`SSAConstructionProofs` proves, for every set of well-formed functions and both
values of `UsePHIs`, that `IInv` is inductive and with it that the state keeps its
types (`TypeCorrect`), that every reaching definition is not null and dominates
the point it was asked for (`ReachingDefinitionsDominate`), and that chains stay in
their webs (`WebsAreClosed`).  `ReachingDominates` alone is not inductive: that the
loop of `update_reaching_definition` can stop at the variable it started from is
only sound because that variable reaches the point (`SourceAt`), which for a slot of
an inserted PHI rests on the dominance test at its insertion and on the slot not
being filled yet (`PHIOK`, `Unfilled`); that a chain can always go on rests on
every definition recorded having one recorded itself, except for the copy of a
split, which ends the chain exactly where it is defined (`Known`).  The one fact
about graphs that is needed, that a block that dominates all predecessors of a
join strictly dominates or is that join, is `JoinDominance`, proved from
reachability.  The assumptions are `ProgramsAssumption` (the functions are well
formed) and `UsePHIsAssumption`.

It also proves that the result passes the verifier (`ResultIsVerified`).  Operands
dominating their use is not enough for that: they must still be there after
`cleanup`.  `Built` says of the code written so far that each operand of an instruction
that stays, and each incoming value that is filled in, is an argument, the PHI or
what an instruction that stays defines where the value says (`OperandsFit`,
`IncomingFit`), and of the chains that they lead to such values or end at a name the
traversal has not come to (`ChainsFit`); such a name cannot reach the point the pass is
at (`NotAhead`), since dominators are visited first (`DominatorsFirst`).  The one name
that goes missing is that of a split, which no chain ends at once the split is
visited (`NamesFit`).  What an instruction's position says becomes an order of
instructions because they are written in the order of the source (`CodeInOrder`).  The
theorem is about functions of which `SignaturesHold`: mutators but for the split
return nothing, as `mut_operations.cpp` declares them, and `has` asks an associative
array, never the result of a split, since its visitor may leave the operand as it is
(`SSAConstruction.cpp:604`).  TLC evaluates that it holds of the functions of the runs
(`SignaturesAssumption`).

That a reaching definition is there and dominates does not say that it is the right one.
`Latest` does: of the versions a name is given (`Versions`: its definition, the PHIs for
it, what each mutator, use-PHI and split makes), those whose definition every path to a
point passes are in order (`DominanceIsAnOrder`), and the right one is the last of them.
`ReachingDefinitionsAreLatest` is that the pass finds that one wherever it asks.  The
invariant (`Tracked`) is about the whole map: the chain of a name starts no earlier than
the latest version at the place the traversal is at, each version leads on to the one
latest before it, and a chain ends where nothing is known (`ChainsHold`); a walk along it has
skipped nothing that reaches its point (`WalkFollows`).  Versions that a sibling
branch has left in the map do no harm, because they reach nothing that is still to come
(`VisitIsNewest`).  The incoming value of a PHI is its name until it is filled in, and the
latest version from then on (`IncomingValuesAreLatest`), and a join at which definitions of a
name meet has a PHI for it, but where the pass wants none (`JoinsHavePHIs`), which is
the worklist's own invariant: a block with a definition is done or is still on it.

`SSALockStepProofs` proves with that what the pass is for: `SSAAgreesWithMutable`, that along
every path, of any length, the SSA program sees what the mutable program sees, until that uses a
sequence it has freed.  First, what is written for each instruction is what stands for
it, on the latest versions of its operands (`PassWritesLatest`): code is written once, in
the order of the source, and `Cleanup` takes out the mutable originals and nothing else.
Then both programs are run side by side.  What holds at a point of the path (`Sim`) is
that both have seen the same, and that each name that is still wanted there has an object
of its own whose content is what the SSA program has bound to the latest version of that
name (`Carries`).  Each instruction keeps it, since a mutator changes one object and makes
the new latest version of its one name; an edge keeps it because what is latest at the end of
a block is either latest at the start of the next or meets another version there, and then
there is a PHI, which is given the latest value of its name on that edge.  For a name that is the
incoming value of a PHI of the front end the pass wants no PHI (`Pass.cpp:246`); it is not
wanted behind that block then, by `NamesAreApart`.  The theorem assumes `FaithfulPrograms`
(see `SSALockStep`): the violation run `MCSSALockStep_besidephi.cfg` and
`MCSSALockStep_has.cfg` are what happens without its two parts.  TLC evaluates that every function
of the passing runs is faithful (`FaithfulAssumption`).

`RuntimeAssocsProofs` proves that `TypeOK /\ NoSharing` is inductive and with it that
each call is a step of `AssocStore`, for any variables, objects, keys and elements
(`StoreIsImplemented`).  `NoSharing` is what makes it true: a write to an object would
otherwise change the contents of a second variable.  It is assumed that the SSA
write, which works in place, is linear (`WritesLinear`), and that keys are integers
of different value (`IntegerKeys`, `MapsAssumption`), since removal does nothing for
others (`MCRuntimeAssocs_remove.cfg`).

`RuntimeSequencesProofs` proves the same of sequences, for any variables, elements and
bounds.  Half of it is about the operators: insertion, erasure and copying by their
elements, and `SwapRanges`, the loop that exchanges two ranges element by element
through the heap.  What the loop computes for a range of any length is shown by
induction on the number of elements exchanged (`CountUp`): for ranges that do not
overlap, of one sequence or of two, what the store promises (`Crossed`, `Mixed`), and
for ranges of one sequence that overlap, some rearrangement of it (`Permuted`).
`NoSharing` alone does not carry the proof: the invariant also says that the heap is
a function on the objects with a sequence or nothing at each (`Heaps`).  It is assumed
that the operations that work on their operand, the SSA write and the copy, are linear
(`DestroysLinear`).  The induction theorems of the library take an operator as a parameter, which
the provers cannot instantiate; `CountUp` is instead derived from the
well-foundedness of the natural numbers, for a set.

`SSADestructionProofs` proves, for every set of functions in SSA form
(`SSAFormAssumption`), that the rewritten function keeps its types (`TypeCorrect`) and
that a value `do_coalesce` replaced is never used again (`ReplacedIsUnused`).  The
argument: a collection is coalesced with one whose definition comes earlier in
dominance order, so a replacement can be found and never leads back
(`ReplacedByEarlier`); it holds because visitors see the operands of an instruction in
that order whatever the layout of the blocks is (`VisitsInOrder`).

It also proves that what is left uses nothing `cleanup` erased
(`NothingIsLeftDangling`).  What is erased is either a value `do_coalesce` replaced, and
`CoalescedSoFar` says that by the end it has come to each of them; or a value nothing
takes the place of (`Spent`: a swap's pair, what `Delete` returns, an `End`), and then
its uses are to be erased as well, or gone (`Operands`).  For an `End` that depends on
the order of the traversal: the operation that uses it is copied when it is rewritten,
so the `End` must be visited first.  It is, because it dominates its use, and because a
preorder of the dominator tree comes to a block after all its dominators
(`DominatorsFirst`), which rests on the dominators of a block being a chain with a last
element (`ImmediateDominator`).  Those lemmas are stated in `SSAConstructionProofs` as well,
since the two passes have variables and actions of the same names and no module can
extend both.  The theorem is about `Ordinary` functions: all blocks
can be reached (dead ones are removed before); the pair of a swap is only taken apart,
which is what construction writes; `Delete` returns void; an `End` is an index; and an
`End` has one use.  The last is what the code needs and does not
check: without it `MCSSADestruction_end.cfg` has its counterexample.  TLC evaluates
that the functions of the passing run are `Ordinary` (`CorrectAssumption`).

`TypeLayoutProofs` proves for every set of struct types of at most 1024 fields, which
is where `get_next_size` ends, that the layout keeps its types (`TypeCorrect`) and that
fields are apart (`FieldsAreApart`).  `FieldsApart` is not inductive: it needs that the
fields recorded at the current offset are bit fields below `current_field_width`
(`LastIsOpen`), so that the next one starts above them.  It also proves that every
field is recorded at the element made for it (`FieldsArePlaced`), for structs with room
(`HasRoom`): bit fields fill an element only with the last field, and what is left of
them in the end is not cut by `get_next_size`.  The code does not check that; of the
structs without room that TLC was given, every one has a field in the wrong place.  The
invariant (`PInv`) is that the offset counts the elements made (`Counted`) and that a field has its
element or is open in the one that comes next (`PlacedSoFar`).

`DirectedGraphProofs` proves of every directed graph, whatever the order of its nodes and
edges, that an order `topological_order` returns has each node once and every edge
forward, and that it gives up only at a set of nodes that no walk has to leave
(`OrdersAreTopological`).  That the order is right when it is reversed rests on its
having every edge backward before (`Backward`), which a visit that ends keeps because
each successor is marked or is the next call (`Walking`); the calls themselves are the
walk that shows there is no order.  It also proves the bookkeeping of `tarjan_scc`
(`TypeCorrect`): a node is numbered once and is on the stack or in one component.
That needs the calls to be on the stack in their order (`CallsOn`), or a root
would pop a node whose call still runs.  On that rests that what a root pops is its
strongly connected component (`ComponentsAreThoseOfTheGraph`), with Tarjan's argument as an
inductive invariant (`Connected`): a call reaches what lies on the stack above it
(`Below`), what lies on the stack reaches a call that is not above it (`Above`), a lowlink
is the number of a node of the stack that is reached (`LowReached`), and the lowlink of a
call is not above what the nodes between it and the next call have edges to (`LowCovers`).
So the root reaches what it pops and is reached from there (`Below`, `Above`), and no edge
leaves what is popped then (`LowCovers`, `Followed`), where a set that no edge leaves
has every walk that begins in it.  Nothing is assumed but that the graphs are directed graphs,
in `GraphInit`.

`StructsProofs` proves for every module that what dead collection elimination leaves uses
nothing it deleted (`LeftPartIsWhole`).  `DeadInv` says that whatever uses a dead value is
dead itself, which is so because a value is only found dead when it has no uses, or its
one use is the assertion that is found with it; it is assumed that assertions are used by
nothing and are not about definitions of structs (`AssertionsAreApart`).

It also proves that after field elision every access of an elided field, in every call of
every function, is to the one array of that field (`ArraysAreHandedDown`).  The invariant
(`ElisionInv`) follows the traversal of the call graph: the calls on its way are a path from
main (`Path`), and a function that was left has all the fields of the functions it
calls (`Complete`).  It has them although `used` of a callee may still grow, since a
callee is left before its caller goes on; a function that was left before takes
nothing new (`LeaveNodeStep`).  So a clone has an argument for each group its callees need,
where they expect it (`KnownParams`), and by induction on how deep a call is the arrays it
is passed are those of its groups (`Known`).  That needs what the code does not check
(`ProgramsAreElidable`): functions may call themselves but not each other
(`FieldElision.hpp:366`, where with a cycle of two a null array is passed), and of a field
that may be elided no address is taken, since a `StructGet` is left as it is.  TLC
evaluates the assumptions on the programs of the run (`StructsAssumption`).

Of dead field elimination, run on what elision leaves, it proves that an access to a struct
is still to the field that was meant, whatever fields are taken out and in whatever order
the types are looked at (`FieldsAreKept`).  `FieldsInv` says that the field an access was
of is recorded until its type is done (`Recorded`).  What `Renumbered` counts down, from the
last dead field to the first, is the number of dead fields before that one (`CountedDown`): its test
that a field is before the access as it is by then never fails, since no more are dead than
there are numbers between (`FromStep`).  That number is also what the new definition leaves
out before the field (`RankIs`).  It is assumed of the programs (`FieldsAreMeant`)
that no struct that is accessed escapes its function, since escaping values are not
recorded (`DeadFieldElimination.hpp:114`), and that a struct is stored in no field whose
number is a field of its own type, since the access is renumbered for both types.

Of `Types.cpp` it proves that no type has two objects, for every sequence of calls of `get`
and `define` (`TypesAreInterned`), which is what comparing types by address rests on; the run
checks the same of the types the passes make (`TypesAreUnique`).  The tables compare the
addresses of the parts, and the theorem is about what types stand for (`Denotation`): that
the two agree is an induction over how types are nested (`RoundsAreInjective`).  It is assumed
that what is not a struct is made of types that were there before; a struct may be made
of any, since its name is its key.

Model-checked only: of construction `PassEnds`, which is liveness; of destruction `Agreement`; of the layout
`ImplementsRecord`, whose
powers of 2 are beyond the provers; live ranges and dead elements, of which
`PassesEnd` is liveness, which the provers do not do; key folding, which keeps what the run checks only where arrays
are not used as the pass leaves aside (`KeyFolding.hpp:271`);
type analysis, inference and linking, whose questions are recursive operators, which the
provers cannot reason about.

## Not modelled

See "components" in `PROJECT.json`.  Of the modelled passes, the following is left
out: operands that are not collections, statistics and debug output, functions
that use no collection (the passes skip them), instructions of other passes
(`UsePHI`, `DefPHI`, `ArgPHI`, `RetPHI`) in the input of construction, structs in
destruction but for their fields (`TypeLayout`), tensors, sequence views, join and
slice of the runtime, its structs and elements beyond the cells they are stored in,
and undefined behaviour beyond the point where it begins; the text that the linker
emits, and the parsing of the options.

Not modelled at all: value numbering, since no pass asks for a number and basic
expressions are never equal; the size and liveness analyses, which no pass that changes
the program asks; the backends that are commented out of
`runtime/backend/CMakeLists.txt` or that nothing is lowered to; the `Create` functions of
`Builder.hpp` other than those for types and annotations, which choose a function
and its operands and belong to the passes that call them; normalization, statistics,
metadata and the C API, which keep no state that a property could be about.
