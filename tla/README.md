# Verification of StructZone

StructZone is an LLVM pass and a runtime library that make a C program stop when an access
overflows from one field of a struct into the next. This directory holds a TLA+ model of it,
the TLC configurations that check the model on small instances, and TLAPS proofs of what it says
of the running program, its redzone tree, the layout of structs, the pass over a function and
library calls, for every instance.

To run a model: `tlc -config avl.cfg MCAvlTree.tla`; to check proofs: `tlapm SanitizedProofs.tla`.
Model checking takes seconds to two minutes per run; each module's proofs at most a quarter of
an hour from nothing.

## 1. The system

The pass runs once over a module of LLVM IR (`StructZoneSanitizer::run`, `Sanitizer.cpp:664`):

1. `ShallowWalk` and `DeepWalk` build for each struct type an *inflated* type with a 32-byte
   redzone in front of the first field and behind every field;
2. global structs and function signatures are replaced by inflated ones, and every function gets
   an inflated clone (or, for library functions, a wrapper to be filled in later);
3. per function, each instruction is looked at and its update queued; then the queue is run;
4. `setupRedzoneChecks` inserts calls of the runtime: `__rdzone_add` behind each allocation of a
   struct, `__rdzone_rm` before each return, `__rdzone_check` before loads and stores,
   `__rdzone_rm_between` behind frees;
5. `populate_delicate_functions` fills in the wrappers, which copy structs between the two forms.

The instrumented program then runs, single-threaded as far as StructZone is concerned, and calls
the runtime, which keeps the redzones in one global AVL tree and paints their bytes with `COLOR`.

### Inventory

| Component | State | Operations | Hard behaviour | What makes it correct |
|---|---|---|---|---|
| Redzone tree, class `AVLTree` (`Runtime.cpp:41-327`) | `root`, nodes with key, size, height | insert, delete, `CheckPoison`, `remove_between`, `reset` | rotations after long mixes of calls; `remove_between` keeps `Node` pointers while it deletes nodes | balanced search tree; a removal is exact; the query finds the neighbours of the probe |
| Runtime entry points (`Runtime.cpp:329-360`) | the tree `redzones`, the bytes of memory | `__rdzone_check`, `_add`, `_rm`, `_rm_between` (`_heaprm`, `_reset` are never called) | colour and tree are two records of one fact; the colour gates the search | live redzones stay registered and coloured |
| Redzone instrumentation (`redzone.cpp`) | the calls placed in the program | `insert_rdzone_init`, `insertMemAccessCheck`, `insert_heap_free`, `setupRedzones` | nested structs, arrays, early exits, frees of unknown pointers, stack and heap reuse | accesses to redzones are reported, safe programs are not |
| Type inflation (`ShallowWalk`, `DeepWalk`) | `struct_mapping` | inflate a type | nested types | offsets and redzones as the accesses expect |
| Field accesses (`handle_gep`) | | rewrite the index path | a path split over several GEPs | each field is found, none overlaps a redzone |
| Heap sizes (`handle_bitcast`) | `heapStructInfo` | rescale the argument of malloc, calloc, realloc | division, several casts of one call, sizes that are not constant | the block holds the inflated structs |
| Other instructions (`handle_alloca`, `_load`, `_store`, `_phi`, `_call`, `_icmp`) | `update_insts`, `to_resolve` | queue and run type updates | cyclic phi nodes, instructions that are erased while others hold them | IR stays well typed |
| Functions and flation wrappers (`functionTransformer.cpp`) | `exportedFuncsToWrap`, `libraryFuncsToWrap` | clone, wrap, deflate, call, write back | aliased arguments, returned structs, sizes cut to 8 bits | a library call sees and changes the struct as in the original program |
| Global structs | | replaced by zeroed inflated ones, without redzones | initial values are dropped | |
| Tests, benchmark, container | | | | statements of what programs should do |

The errors are to be expected where two parts rely on each other: the *offsets* at which the pass
places redzones and finds fields (module `StructLayout`); the *queue* of changes that must leave
one well-typed function behind, with sizes and traced frees the instrumentation can rely on (module
`FunctionPass`); the *order and completeness* of the calls around a program's allocations, returns
and frees (module `Sanitized`); the *tree* that has to answer for overlapping and stale redzones
(modules `AvlTree` and `RedzoneStore`); and the *wrappers* behind which library functions must not
notice any of it (modules `LibraryWrapper` and `LibraryCall`).

## 2. Modules

```
 compile time
   StructLayout          what is registered, what is removed, where fields are
   FunctionPass          one function: updates, sizes of allocations, frees traced back
      |  (kinds of layouts: zones / kept / fields / swept;
      |   kinds of programs: which frees are traced, and to what)
 run time
   Sanitized             the running program and the calls placed in it
      |  INSTANCE
   RedzoneStore          what the tree promises                  <- abstract specification
      ^  refinement (StoreSpec)
   AvlTree               the tree, node by node

   LibraryCall           a call of a library function            <- abstract specification
      ^  refinement (PlainTransparent)
   LibraryWrapper        the same call through a flation wrapper

 MCAvlTree, MCSanitized, MCStructLayout, MCFunctionPass, MCLibraryWrapper   instances for TLC
 RedzoneStoreProofs, AvlTreeProofs, SanitizedProofs,
 StructLayoutProofs, FunctionPassProofs, LibraryWrapperProofs                proofs
 NaturalSets, Recursion   what the proofs need of natural numbers and of recursive functions
```

**RedzoneStore** is the abstract specification: a map from the start of a redzone to its size.
`InsertRedzone` keeps the size of a redzone that is registered already, as `insertNode` returns
early on an equal key. `NeighbourCheck` is the code's decision, taken from the redzones
immediately left and right of the probe; `Poisoned` is the promise. `remove_between` is as
nondeterministic as the code is: see the finding `sweep_exact`. `SweepOutcomes` states
what all its executions have in common, and `avl` checks that the tree keeps to it.

**AvlTree** is the tree itself. A tree is the value of its root node, which holds its subtrees;
rotations, the rebalancing cases and the three cases of deletion are those of the code, in its
order, including that a node with two children takes over the successor's key and not its size.
The field `at` stands for a node's address. It matters within `remove_between` only, where the
pointers collected first are dereferenced while deletions move contents between nodes and free
nodes; `Sweep` returns the set of trees the loop may leave, one for each value a read of a freed
node can give: the key the node held when it was freed, or something that is no redzone's key.
Between calls nobody keeps node pointers, so nodes are renamed to their keys.
The code's recursion is written as recursive functions over `Tree`, the trees of at most `Depth`
levels, since TLAPS has no recursive operators; `Depth` is a bound of the model, and an insertion
waits for a tree of less than `Depth` levels.

**Sanitized** is an instrumented program. Memory is a set of stack addresses and one of heap
addresses; of a byte only whether it is `COLOR` is kept. The state is the coloured addresses, the
registered redzones, the live stack and heap objects, whether the program runs, was stopped by
`__rdzone_check` or crashed, and two history variables: `innocent` (every access so far stayed
within the program's own data) and `damaged` (a write that was let through hit a live redzone). An
object's layout says which redzones belong to the struct itself (`zones`, removed on return),
which to structs nested in it (`kept`), which bytes are fields and how much a traced free sweeps.
The actions are:

| Action | Code |
|---|---|
| `Enter`, `Return` | an alloca and the calls behind it; the calls before a return (`redzone.cpp:133-196, 351-367`) |
| `Longjmp` | frames that are left without a return instruction (`findReturnInsts` finds only those) |
| `Malloc`, `Calloc`, `Realloc`, `MallocFails` | a heap call and the painting behind it (`redzone.cpp:383-389`) |
| `FreeTraced`, `FreeUntraced` | `insert_heap_free`: the walk found one allocation, the right or a wrong one; or it found none |
| `Load`, `StoreTo`, `Reported` | the check and the access behind it |
| `LibcWrite` | writes by library code and memory intrinsics, which carry no check |

The C library is external: `malloc` returns any free range with a header between blocks,
`free` may overwrite the first byte, the contents stay otherwise. Reallocating a block without
structs is not an action of its own, it is an allocation, stores and a free.
Not every program does everything, and the properties depend on what it does: the constant
`Programs` is a set of kinds of programs, each a set of *moves* (`trace`, `mislead`, `leak`,
`realloc`, `exhaust`, `longjmp`, `libc`); a behaviour picks one kind at its start.

**StructLayout** is the compile-time half. `Inflate` is `ShallowWalk` with `DeepWalk`,
`handle_gep` the rewriting of index paths, `GepType` and `GepIndices` the decision whether a GEP
is rewritten at all; `insert_rdzone_init` is one call of the recursion over nested structs, with
the set of calls still to be made as state. `Next` makes them in any order, since the order has no
effect on what is registered. The layout rules of LLVM are external and follow natural
alignment. A pass that builds an ill-typed GEP ends in status `rejected` (`IsRejected`). Types are
trees of at most `Depth` levels, and what recurses over them, sizes, inflation, the question
whether a type can be instrumented, is written as recursive functions over `Type`; what follows a
path of indices walks along it, as `handle_gep` does.

**FunctionPass** is the pass over one function of any number of instructions, of the kinds in
`Operations`. An instruction has an operation, operands and the struct type its result points to;
its index is its identity, also when the pass puts a new instruction in its place. `LeftAlone` are
the operations whose results the pass does not retype although their types involve structs:
`getInflatedType` looks through pointers and not through arrays (`Sanitizer.cpp:574`), allocas of
arrays of pointers and loads of function pointers are passed over, and a `select` or a pointer
made of an integer has no handler.
`world` says whether the type of a result is an old
one, an inflated one or involves no struct. What functions promise before the pass is `WellFormed`
and `Compiled`: operands exist, operations have the operands they need, and no bitcasts
behind phi nodes are there yet.

| Action | Code (`Sanitizer.cpp`, `redzone.cpp`) |
|---|---|
| `handle_alloca`, `_gep`, `_load`, `_phi`, `_icmp`, `_store` | what the scan of the function queues, and what it leaves alone |
| `handle_bitcast` | the same; and at a cast of an allocation the new size and the entry of `heapStructInfo` |
| `NoHandler` | returns, selects, and pointers and integers converted into each other, for which the dispatch (`Sanitizer.cpp:711`) has no case |
| `handle_call` | NULL arguments are retyped at once, calls through pointers queued |
| `update_inst_*` | the queue: a new instruction takes the place of the old one; a phi node gets a bitcast in front of its uses |
| `Resolve` | one entry of `to_resolve`, in any order, as the map is keyed by pointers of the compiler |
| `insert_heap_free`, `Visit`, `Walked` | the walk from a free over all operands; it sweeps, does nothing or aborts |

`Handled`, `Updated`, `Resolved`, `InstrumentOther` and `Finished` lead from one part of the pass to
the next. The stack of the walk hands out the newest entry; `Visit` takes any, as the order has no
effect on what is found. The kinds of programs of `Sanitized` are what this module explains:
`trace` is a free whose walk found an allocation, `mislead` one whose walk found the allocation
of another block because it follows every operand, `leak` one that found none.

**LibraryCall** is the abstract specification of a library call: the function reads and writes the
caller's structs through the pointers it got. **LibraryWrapper** is what
`createFlationWrapper` makes of it: the arguments are deflated one after another (`Deflate`, or
`DeflateNull`, which reads through NULL), the library works on the copies (`Enter`, `LibRead`,
`LibWrite`, `LibReturn`), the copies are written back in any order (`WriteBack`, the order of a map
keyed by pointers) and the result is inflated into an alloca of the wrapper (`Return`). A field's
layout says where its bytes are in the library's struct and in the inflated one; `home` tells
the nested structs, whose bytes have redzones between them, from other fields. The refinement
mapping, `Contents`, says what a struct holds while a call is under way: the copy that will replace
it where one is pending, the program's memory otherwise.

## 3. What the runs show

| Run | Question | Instance | Result |
|---|---|---|---|
| `avl` | Is the tree a balanced search tree that answers and removes exactly, and does it implement `RedzoneStore`? | all calls over 7 addresses; removals from the sparsest trees of 12 nodes | holds |
| `store` | Do two neighbours decide? | 8 addresses, redzones of 3 bytes, widths 1, 2, 4 | holds |
| `program_stack` | Are accesses to redzones caught and tidy programs left alone, on the stack? | 7 addresses, structs of 3 bytes, widths 1, 2, 3, returns and longjmps | holds |
| `program_heap` | The same on the heap, with reuse, clearing, moving and sweeping | 7 addresses, a struct and a plain block of 3 bytes, three kinds of programs | holds, except what the findings say |
| `layout` | Where do rewritten accesses and registered redzones agree with the types? | all structs of one or two fields over seven types with nested structs and over nine with arrays of structs; redzones of 3 bytes | holds |
| `function_pass` | Is a function well typed, resized and its frees traced when the pass is done with it, and does the pass end? | 11117 functions of six instructions, two struct types | holds |
| `library` | Does a wrapped library call look like the call itself? | two structs of two bytes, two parameters, three layouts | holds |
| `sweep_exact` | Does `remove_between` remove what is in range? | 5 addresses | violated |
| `nested_return` | Do safe programs run? | a nested struct on the stack | violated |
| `partial_overflow` | Is an access caught that runs into a redzone? | one struct | violated |
| `nested_array` | Are redzones inside the object? | the type of `toy.nested.arr.safe.c`, redzones of 32 bytes | violated |
| `nested_argument` | Do library calls work for structs of all types? | a struct in a struct | violated |

The properties, by hazard:

* *The tree after any history.* `SearchTree`, `Balanced` (the heights kept in nodes are real and
  siblings differ by at most one), `RemovalExact`, `ChecksNeighbours` and the refinement
  `StoreSpec`.
* *Overlap.* `NeighboursSuffice`: redzones of dead and live objects overlap at any distance, the
  code looks at two of them, and with one size that is enough.
* *Colour and tree together.* `Painted`: a registered redzone of a live object stays coloured,
  whatever is cleared, moved, reused or swept. `Guarded`: where no free sweeps, all redzones of
  live objects are registered, also those placed over stale ones of abandoned frames. `Caught`:
  so every access that starts in one is reported, at every width, the truncated ones included.
* *What a sweep touches.* `SweepsInside`: the range of a correctly traced sweep includes the byte
  behind the block and still no redzone of another block, because of the allocator's header.
  `SparesBelow`: whatever a free was traced to, and although `remove_between` may delete redzones
  outside its range, objects below the freed block keep theirs; nothing else a program does takes
  redzones away from objects that stay.
* *No false report.* `SafeTidy`: a program that returns from its functions, nests no structs on
  its stack and keeps its allocated structs is never stopped while it stays within its data.
* *Offsets.* `FieldsSurvive`: every split of a path between GEPs finds the same field, aligned,
  clear of redzones and of other fields, exactly where no array of arrays of structs is on the way.
  `RegistersAll`: the recursion registers the redzones the type calls for and nothing else, exactly
  where no struct holds an array of structs. `RemovesOwn`: a return removes those of the struct
  itself, which is why `Sanitized` tells `zones` from `kept`. `Supported`: exactly which types the
  pass can instrument at all.
* *The queue.* `Translated`: deciding updates now and running them later, cutting cycles of
  phi nodes with bitcasts and resolving those in any order amounts to retyping each instruction
  where it stands; it also says exactly which types and NULLs stay as they were. `Consistent`: a
  function without those forms mixes no old types with new ones afterwards.
* *Sizes.* `SizesFit`: an allocation of whole structs of one type has room for as many inflated
  ones and gets redzones in as many as its size operand counts, however often it is cast.
* *Frees.* `WalkExact`: the walk finds the allocations of structs the freed pointer is computed
  from and nothing else, with one exception: a call whose own result is freed. `SweepsItsOwn`:
  a pointer that is an allocation's result, cast and merged, is swept for that allocation and no
  other. `Terminates`: neither cycles of phi nodes nor the abort keep the pass from an end.
* *Library calls.* `PlainTransparent`: a call that passes pointers to different structs, without
  inner structs and fields of 256 bytes, and gets no struct back, cannot be told from the call of
  the function itself. `ZonesIntact`: copies back write to no redzone, aliased arguments included.

### Bounds, and why they are enough

* `avl`: rotations at one level show up in trees of up to seven nodes, for which all calls are
  explored. A deletion that rotates at two levels needs a tree of minimal size for its height;
  `MCAvlTree` grows the sparsest tree of height 5, which has twelve nodes, and its mirror image by
  insertions and then removes redzones in every order. No tree of up to twelve nodes has more than
  five levels, so `Depth` 5 bounds nothing (4 for the five nodes of `sweep_exact`).
* `program_stack`: two structs fit on seven addresses side by side and at all offsets over a
  dead one. The widths are 1, 2 and 3 with `WidthModulus` 3, so the width 3 stands for the
  256-byte access that is checked with width 0.
* `program_heap`: two blocks of three bytes and the header between them fill the seven addresses,
  and a block can be placed at every overlap with a dead one. The width is 1: what wider accesses
  add is the right neighbour, which is the same code on the stack.
* `layout`: redzones of 3 bytes are not a multiple of any alignment but 1, so padding arises in
  front of and behind fields; 32, the value in the code, hides it. The struct types cover nested
  structs, arrays, arrays of structs and arrays of arrays of structs, two levels deep. Integers
  of 1 and 4 bytes are enough to make padding, blocks of one and of two structs to tell the first
  element from the others. No type of the instance has more than the four levels `Depth` 6 leaves
  room for, so `Depth` bounds nothing.
* `function_pass`: six instructions are an allocation, a cast, a cycle of two phi nodes, a use and
  a free, comparison, conversion or return of what they yield; `Graphs` takes all combinations
  `WellTyped` allows of 17, 25, 5 and 15 of them (with NULLs, calls through pointers, loads, selects,
  pointers to arrays and allocations in the cycle). `Sizes` takes all allocations of 1, 4, 8 and 12 bytes or of an unknown size, cast
  once or twice to structs of 4 and 8 bytes that inflate to 6 and 10, so that whole, divided and
  too small structs occur and a second cast finds a size that is no multiple.
* `library`: two parameters for two structs give all ways to alias and NULL; `WidthModulus` 2 makes
  a field of two bytes the field of 256 bytes that is not copied; a redzone of one byte shows any
  write into it.

Deadlock checking is off where the modelled thing ends: a program that was stopped or has crashed
takes no step, and the pass finishes. `avl` and `store` check deadlock.

**Fairness.** `FunctionPass` has weak fairness of its next-state relation: the pass is a sequential
loop of the compiler that nothing interrupts, so a step that can be taken is taken, while no
particular one is promised where the order is that of a map. `Terminates` uses it. No other module
assumes fairness: the runtime and the wrappers run when the program calls them, and the program may
stop at any time.

### Findings

1. `sweep_exact`: `remove_between` (`Runtime.cpp:323`) reads `node->key` from pointers its own
   deletions have invalidated. A redzone in range can survive, one outside can go, and freed
   memory is read.
2. `nested_return`: `__rdzone_rm` is placed for redzones under an alloca only
   (`redzone.cpp:189`). Those of nested structs stay registered and coloured.
3. `partial_overflow`: the colour of the first byte is looked at before the tree
   (`Runtime.cpp:334`), which makes the branch for partial overflows (`Runtime.cpp:263`)
   unreachable in the case it was written for.
4. `nested_array`: for nested arrays of structs the GEPs step over whole arrays, and 32 bytes are
   painted at multiples of the element size behind the object (`redzone.cpp:169`).
5. `nested_argument`: the wrapper of a library function copies a field that is a struct as one
   piece (`functionTransformer.cpp:191`), so the library works on redzones instead of the last
   fields, and writes over them.

What the passing runs say of the code's limits, besides:

* The exceptions in `Translated`: arrays of pointers to structs (`Sanitizer.cpp:365`), pointers to
  arrays of structs that are loaded, merged or cast (`:581`), function pointers from memory
  (`:213`), selected values and pointers made of integers (`:711`), and NULLs that are merged, selected, stored, returned, passed
  through a pointer or compared with NULL keep their old type next to operands of the new one.
  (A `select` does not come out of unoptimised code and `mem2reg`, as `test/Makefile:36` builds it;
  a returned NULL does.)
* The exceptions in `SizesFit`: a size that is not a constant stays as it is (`Sanitizer.cpp:423`
  returns in front of its abort), one that is no multiple of the struct's size is cut, to nothing
  if it is smaller; and calloc's first operand is not counted.
* The exceptions in `WalkExact` and `SweepsItsOwn`: the call whose own result is freed
  (`redzone.cpp:287`), a free in another function than the allocation (`:310`), after which the
  next owner of the block is stopped, as in `toy.funccall.ret.safe.c`, and a freed pointer that
  was loaded from another struct, which is swept for that one (`:294`).
* The exceptions in `FieldsSurvive` and `Supported`: a GEP on an array of arrays of structs keeps
  its old type and strides (`Sanitizer.cpp:321`); heap blocks and arrays of structs that hold
  structs get an ill-typed GEP (`redzone.cpp:229`).
* The exceptions in `PlainTransparent`: NULL arguments crash in the wrapper, aliased ones overwrite
  each other's results, a field of 256 bytes is not copied, and a returned struct is an alloca of
  the wrapper.
* `test/src/toy.heap.reuse.safe.c:32` gives the inflated size of `Simple` as 20, which with
  the redzones of 32 bytes of `redzone.h:12` it is not.

## 4. What is proved

TLC shows the properties on the instances above; TLAPS proves these for all values of the
constants that satisfy the named assumptions: addresses are naturals, stack and heap are disjoint,
sizes and widths are positive, and a layout's redzones and fields lie inside it and apart
(`Sanitized`); functions are `WellFormed` and `Compiled` and inflation shrinks no struct
(`FunctionPass`); a layout's fields cover the struct and do not overlap, in either form
(`LibraryWrapper`); addresses and the bound `Depth` are naturals, sizes are positive and NULL is
no node (`AvlTree`); redzones and counts are positive, the sizes of integers are positive, contain
1 and divide one another as powers of two do, and the program's structs are structs over them of at
most `Depth - 2` levels, for any `Depth` (`StructLayout`). TLC evaluates each of them for its instances.

| Theorem | Module | Statement |
|---|---|---|
| `StoreTypeCorrect` | RedzoneStoreProofs | `Spec => []TypeOK` |
| `StoreNeighboursSuffice` | RedzoneStoreProofs | `Spec => []NeighboursSuffice` |
| `TypeCorrect` | AvlTreeProofs | `Spec => []TypeOK` |
| `StaysSearchTree` | AvlTreeProofs | `Spec => []SearchTree` |
| `StaysBalanced` | AvlTreeProofs | `Spec => []Balanced` |
| `DecidesByNeighbours` | AvlTreeProofs | `Spec => []ChecksNeighbours` |
| `RemovesExactly` | AvlTreeProofs | `Spec => RemovalExact`, an action property |
| `ImplementsStore` | AvlTreeProofs | `Spec => StoreSpec`, if all redzones have one size |
| `InsertsAndSweeps` | AvlTreeProofs | at any sizes: insertions and sweeps unregister and register what the store's do |
| `TypeCorrect` | SanitizedProofs | `Spec => []TypeOK`: live objects lie in memory and apart |
| `PaintedCorrect` | SanitizedProofs | `Spec => []Painted` |
| `GuardedCorrect` | SanitizedProofs | `Spec => []Guarded` |
| `CaughtCorrect` | SanitizedProofs | `Spec => []Caught` |
| `SafeTidyCorrect` | SanitizedProofs | `Spec => []SafeTidy` |
| `SweepsInsideCorrect` | SanitizedProofs | `Spec => []SweepsInside` |
| `SparesBelowCorrect` | SanitizedProofs | `Spec => SparesBelow`, an action property |
| `FieldsAreFound` | StructLayoutProofs | `Spec => []FieldsSurvive` |
| `RegistersExactly` | StructLayoutProofs | `Spec => []RegistersAll` |
| `RemovesTheirOwn` | StructLayoutProofs | `Spec => []RemovesOwn` |
| `RejectsUnsupported` | StructLayoutProofs | `Spec => []Supported` |
| `TypeCorrect` | FunctionPassProofs | `Spec => []TypeOK` |
| `TranslatedCorrect` | FunctionPassProofs | `Spec => []Translated` |
| `ConsistentCorrect` | FunctionPassProofs | `Spec => []Consistent` |
| `SizesFitCorrect` | FunctionPassProofs | `Spec => []SizesFit` |
| `WalkCorrect` | FunctionPassProofs | `Spec => []WalkExact` |
| `SweepsCorrect` | FunctionPassProofs | `Spec => []SweepsItsOwn` |
| `TypeCorrect` | LibraryWrapperProofs | `Spec => []TypeOK` |
| `ZonesIntactCorrect` | LibraryWrapperProofs | `Spec => []ZonesIntact` |
| `PlainTransparentCorrect` | LibraryWrapperProofs | `Spec => PlainTransparent`: steps of plain calls refine `LibraryCall` |

*The store.* `NeighboursSuffice` needs no history, only that the store is a map from naturals
to sizes: if a redzone left of the probe is touched, the nearest one starts later and, having the
same size, reaches at least as far; if one right of the probe is touched, the nearest one is too.
That a nearest one exists is `LargestBelow` and `LeastNatural` of `NaturalSets`, which hold for
infinite sets of addresses as well.

*The tree.* A recursive function `f[x \in S] == ...` names a function that satisfies its equation,
and before anything can be said of it one has to exist. `Recursion` shows that, by induction over
the levels of `S`, with `SetInduction` of `NaturalSets` as the form of induction the provers can
use: over the members of a set of naturals, not over a predicate. Trees are taken by the same
induction over their levels. The inductive invariant is `Avl` (keys in order, real heights,
balanced) with `Named` (nodes named after their keys). What keeps it are facts about one call on
any good tree: an insertion adds its key and raises the height by at most one, and a rotation is
made only where the subtree has just grown; a deletion removes its key and lowers the height by at
most one. For `ChecksNeighbours`, the walk keeps the nearest keys at both sides of where it is.
For `remove_between`, whose pointers may lead anywhere, what counts is what a deletion can do to
a node that stays: it keeps its key or takes the next larger one, except in the node of the deleted
key, which may take over the next smaller one together with a left child. `Covered` follows from
that: as many redzones lie between the start of the range and any address as there are
pointers still to come that lead below that address. So a sweep never deletes below its start,
which is what `SweepOutcomes` promises and `Sanitized` relies on. `ImplementsStore` needs redzones
of one size, as the pass makes them: a deletion moves the successor's key into a node and not its
size (`Runtime.cpp:179`), so with two sizes a removal changes what stays; `InsertsAndSweeps`
says what holds for any sizes.

*The program.* `TypeOK` is inductive because `Vacant` and the guard of `Enter` keep objects apart.
`Painted` and `Guarded` are inductive given `TypeOK`: `LayoutFacts` places an object's
redzones inside it, so that what is painted, cleared, moved or removed for one object leaves the
redzones of all others alone. `Caught` follows from `Guarded`, `Painted` and the argument of the
store: an access that starts in a live redzone has a registered redzone, that one or a nearer one,
at its left. `SafeTidy` is not inductive. Its strengthening is `NoStale`: in a tidy program every
registered redzone belongs to a live object; then a legal access, which touches no live redzone,
has no neighbour to be stopped by, and the width truncation only shortens the check.

`SweepsInside` needs `Headers`: between two blocks is a byte that belongs to neither. For
`SparesBelow`, `SweepIsAbove` shows of all outcomes of a sweep that they remove nothing below it.

*Layout.* All four properties say *exactly when*, so both directions are proved. Sizes,
alignments and inflated types are recursive functions over `Type`; `Recursion` gives their
equations and `TypeInduction`, an induction over levels, what follows from them. `PartFacts` is the
layout of one level: the parts of a type lie inside it, apart and aligned; `PathsApart` carries it
to paths of any length, of which the ends of one may not be the beginning of the other. A walk
can be split anywhere (`SplitWalk`), which is what GEPs after each other do.

For `FieldsAreFound`, `InflatedWalk` shows that a rewritten path leads to the inflated type of what
the path led to, and `RewritingInjective` that different paths stay different. A redzone is a part
of the inflated type that no rewritten path begins with (`ZoneOffPath`), so a field is clear of it
by the same lemma by which it is clear of other fields. Conversely, in an array of arrays of
structs the path to the first integer (`FirstLeaf`) is found at two addresses: a GEP with the whole
path is rewritten, one that starts in the array of arrays is not.

The invariants of the recursion speak of the calls still to be made. `RemovesInv`: only the
first call, while nothing is registered yet, is given an alloca, and what it registers is `OwnZones`
(`FirstCall`). `SupportedInv`: a call that can fail, now or in a call it leads to, is to be made
if and only if the type holds what is not supported. `RegistersInv` has two cases. If the
allocation is one struct (`StructRun`), each call belongs to a struct in the object that is reached
through structs only, what is registered belongs to such structs, and each of them has its redzones
registered or is below a call still to come; when no call is left, the registered redzones are
those of the structs that are reached. If it is an array that is not rejected (`ArrayRun`), the
first call is the only one. `RegistersExactly` then compares those with the redzones of all structs: they
are the same if no struct holds an array of structs, and if one does, the second redzone of the
first struct in the first such array lies where no call registers one (`MissesStructs`).

*The pass over a function.* `Sound` is `TypeOK` with the facts that the code under way stays
well-formed and that a walk belongs to an instruction. For the frees, `Walking` says that what was
seen is reachable from the freed pointer and that everything reachable is seen or still to be
visited; when the work list is empty the two meet, which is `WalkExact`. `SweptSoFar` carries the
result to the end of the pass, which is `SweepsItsOwn`. For the retyping, `Tracked` says at every
moment what the pass has done and what it still owes: `QueueInv` (which instructions are in the
queue: those passed, each once), `WorldInv` (a result has its new type if and only if its update
has run, a phi node's if it has been resolved), and `ArgsInv` (an operand is the original one, with
its NULL retyped and, while a bitcast stands for a phi node, that bitcast). With an empty queue
and nothing to resolve, `Tracked` is `Translated`, and `Consistent` follows from it by a case for
each operation. For the sizes, `SizesInv` says that an allocation has its first size until a cast
of it is looked at, and from then on room for the structs the first cast counted: rescaling a size
that is large enough leaves it large enough (`RescaledEnough`), which is where it is needed that
inflation shrinks no struct.

*Library calls.* The mapping `Contents` picks a pending copy. `Current` says that in a plain call a
copy that was deflated holds what its struct holds until the library runs; that the bytes a plain
layout copies are all bytes, found where the program finds them (`AllCopied`, `SourceIsHome`), makes
a write back invisible (`InflatedWhole`).

*Only model-checked.* `Terminates`, which is liveness under fairness and out of the provers' reach,
and the five properties that are violated.

## 5. What is not modelled

* *Threads.* The tree has no lock and no test starts a thread; a data race on every pointer leaves
  no property of the code to state.
* *Global structs.* They are replaced by zeroed inflated ones, their initial values are dropped
  (`Sanitizer.cpp:682`), and they get no redzones (`redzone.cpp:347`): one assignment, no state.
* *Cloning of functions and the wrapper around `main`.* A function is moved under its new signature,
  which `FunctionPass` has as the types of calls and parameters; `main`'s wrapper has no structs to
  copy. Variable arguments, which wrappers do not pass on, are a matter of calling conventions.
* *Library functions that keep pointers, or take arrays.* The library of `LibraryWrapper` works while
  it is called, on one struct per parameter.
* *Structs copied by memcpy and memset.* The pass leaves these intrinsics alone, and so there is no
  step to model; in `Sanitized` they are `LibcWrite`.
* *Pointers to arrays of structs in signatures, and NULLs of such types.* `getInflatedType` leaves
  them as they are; in `FunctionPass` a call yields, and a parameter is, a pointer to a struct or
  plain, and a NULL that is retyped is one of a pointer to a struct. C's array parameters are
  pointers to structs already.
* *Other instructions.* Arithmetic and branches have no operands whose types the pass changes, and no
  handler. Loads, stores, arguments and results that are whole structs and not pointers to them are
  not among the modelled instructions.
* *GEPs in constants.* They are unfolded into instructions when a load, store or GEP on one is
  looked at (`Sanitizer.cpp:257, 447, 478`), and are modelled as the instructions they become.
* *Pass registration, debug output, tests, benchmark, build scripts.* No state.

A composition of `Sanitized` with `AvlTree` in place of `RedzoneStore` is not needed for safety:
`ImplementsStore` proves that the tree does nothing the store does not do. What could still
be added are whole programs of several functions, where `Sanitized` would take its kinds of frees
from `FunctionPass` instead of from a constant.
