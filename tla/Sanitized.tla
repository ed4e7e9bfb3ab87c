----------------------------- MODULE Sanitized -----------------------------
(***************************************************************************)
(* A C program compiled with the pass, linked with the runtime.  The       *)
(* program enters and leaves functions that hold a struct on the stack,    *)
(* allocates and frees, loads and stores wherever it likes; around each of *)
(* these the pass has placed the calls of llvm-pass/src/redzone.cpp to the *)
(* functions of runtime/src/Runtime.cpp.  The redzones are kept in module  *)
(* RedzoneStore.  A byte of memory is abstracted to whether it is COLOR,   *)
(* a struct type to the offsets in its inflated layout.                    *)
(***************************************************************************)
EXTENDS Naturals, FiniteSets

CONSTANTS
  StackAddr,    \* the addresses of the stack, which grows down
  HeapAddr,     \* the addresses of the heap
  StackShapes,  \* the layouts of structs the program keeps on the stack
  HeapShapes,   \* the layouts of what it allocates
  RZ,           \* REDZONE_SIZE
  Widths,       \* the widths of the program's loads and stores
  WidthModulus, \* 2^8: a width is passed to the check as a uint8_t
  Programs      \* for each kind of program what else it does, out of AllMoves

Addr == StackAddr \cup HeapAddr

AllMoves ==
  {"trace",   \* a free whose use-def chain leads to an allocation of structs
   "mislead", \* ... to the allocation of something else than what is freed
   "leak",    \* a free of structs whose chain leads to no allocation
   "realloc", \* structs are reallocated
   "exhaust", \* an allocation of structs fails
   "longjmp", \* a function is left other than by a return
   "libc"}    \* library code writes to the program's memory

(***************************************************************************)
(* A layout: the size in bytes; the offsets of the redzones registered for *)
(* the struct itself (zones) and for the structs nested in it (kept); the  *)
(* offsets of the bytes of the program's fields; and the size a traced     *)
(* free passes to __rdzone_rm_between.                                     *)
(***************************************************************************)
Bytes(start, len) == start .. start + len - 1

ZoneBytes(starts) == UNION {Bytes(z, RZ) : z \in starts}

IsShape(s) ==
  /\ s \in [size : Nat \ {0}, zones : SUBSET Nat, kept : SUBSET Nat,
            fields : SUBSET Nat, swept : Nat]
  /\ ZoneBytes(s.zones \cup s.kept) \cup s.fields \subseteq 0 .. s.size - 1
  /\ ZoneBytes(s.zones \cup s.kept) \cap s.fields = {}
  /\ s.zones \cup s.kept # {} => s.swept > 0
  /\ s.swept <= s.size

ASSUME AddrAssumption ==
  StackAddr \subseteq Nat /\ HeapAddr \subseteq Nat /\ StackAddr \cap HeapAddr = {}
ASSUME ShapesAssumption == \A s \in StackShapes \cup HeapShapes : IsShape(s)
ASSUME WidthsAssumption ==
  Widths \subseteq Nat \ {0} /\ RZ \in Nat \ {0} /\ WidthModulus \in Nat \ {0}
ASSUME ProgramsAssumption == Programs \subseteq SUBSET AllMoves

VARIABLES
  coloured, \* the addresses whose byte is COLOR
  zones,    \* the start addresses of the registered redzones
  frames,   \* the live stack objects, [base, shape]
  blocks,   \* the live heap objects, [base, shape]
  status,   \* "run", "report" (SIGABRT by the check) or "crash"
  innocent, \* history: every access so far stayed within the program's data
  damaged,  \* history: some write that was let through hit a live redzone
  moves     \* what this program does, never changed

vars == <<coloured, zones, frames, blocks, status, innocent, damaged, moves>>

(* What the runtime keeps: all redzones of the pass have the size RZ.      *)
Registered == [k \in zones |-> RZ]

Store == INSTANCE RedzoneStore WITH Sizes <- {RZ}, zones <- Registered

-----------------------------------------------------------------------------
Objects(addrs, shapes) == [base : addrs, shape : shapes]

At(o, offsets) == {o.base + k : k \in offsets}

Region(o) == Bytes(o.base, o.shape.size)

(* Mutation: the GEP to a redzone is one byte off.                         *)
Redzones_Shifted(o) == {z + 1 : z \in At(o, o.shape.zones \cup o.shape.kept)}

Redzones(o) == At(o, o.shape.zones \cup o.shape.kept)

Live == frames \cup blocks

LiveZones == UNION {Redzones(o) : o \in Live}

(* An access that stays within a field of a live object or, on the stack,  *)
(* within memory that no live object occupies: the program's other locals. *)
Legal(p, w) ==
  \/ \E o \in Live : Bytes(p, w) \subseteq At(o, o.shape.fields)
  \/ Bytes(p, w) \subseteq StackAddr
     /\ \A o \in frames : Bytes(p, w) \cap Region(o) = {}

Touches(p, w) == Bytes(p, w) \cap ZoneBytes(LiveZones) # {}

-----------------------------------------------------------------------------
(* The runtime's functions                                                 *)

(* The calls placed behind an allocation, for all redzones of the object.  *)
__rdzone_add(starts) ==
  /\ zones' = zones \cup starts
  /\ coloured' = coloured \cup ZoneBytes(starts)

__rdzone_rm(starts) == zones' = zones \ starts

(* Mutation: the range ends one byte further.                              *)
SweepEnd_Past(start, size) == start + size + 1

(* The last address of the range is the first behind the block.            *)
SweepEnd(start, size) == start + size

__rdzone_rm_between(start, size) ==
  \E gone \in Store!SweepOutcomes(Registered, start, SweepEnd(start, size)) :
    zones' = zones \ gone

Reports(p, w) ==
  p \in coloured /\ Store!NeighbourCheck(Registered, p, w % WidthModulus)

-----------------------------------------------------------------------------
(* Functions with a struct on the stack                                    *)

Init ==
  /\ coloured = {} /\ zones = {} /\ frames = {} /\ blocks = {}
  /\ status = "run" /\ innocent = TRUE /\ damaged = FALSE
  /\ moves \in Programs

Enter(shape, base) ==
  LET o == [base |-> base, shape |-> shape]
  IN  /\ status = "run"
      /\ Region(o) \subseteq StackAddr
      /\ \A f \in frames : base + shape.size <= f.base
      /\ frames' = frames \cup {o}
      /\ __rdzone_add(Redzones(o))
      /\ UNCHANGED <<blocks, status, innocent, damaged>>

IsTop(f) == f \in frames /\ \A g \in frames : f.base <= g.base

(* Mutation: the last redzone stays registered.                            *)
Return_KeepsLast(f) ==
  /\ status = "run"
  /\ IsTop(f)
  /\ frames' = frames \ {f}
  /\ __rdzone_rm({z \in At(f, f.shape.zones) : z + RZ < f.base + f.shape.size})
  /\ UNCHANGED <<coloured, blocks, status, innocent, damaged>>

(* Mutation: all redzones from the object's base on are removed.           *)
Return_Sweeps(f) ==
  /\ status = "run"
  /\ IsTop(f)
  /\ frames' = frames \ {f}
  /\ __rdzone_rm({z \in zones : z >= f.base})
  /\ UNCHANGED <<coloured, blocks, status, innocent, damaged>>

(* Only the redzones found directly under the alloca are removed again.    *)
Return(f) ==
  /\ status = "run"
  /\ IsTop(f)
  /\ frames' = frames \ {f}
  /\ __rdzone_rm(At(f, f.shape.zones))
  /\ UNCHANGED <<coloured, blocks, status, innocent, damaged>>

(* The top frame and possibly more are left without a return instruction.  *)
Longjmp(f) ==
  /\ status = "run" /\ "longjmp" \in moves
  /\ f \in frames
  /\ frames' = {g \in frames : g.base > f.base}
  /\ UNCHANGED <<coloured, zones, blocks, status, innocent, damaged>>

-----------------------------------------------------------------------------
(* The heap.  malloc and free are the C library's: a block is any free     *)
(* range, its bytes are what they were or cleared, and between two blocks  *)
(* there is a header.  A failed malloc returns NULL, whose redzones are    *)
(* painted before the program can look at it.                              *)

Instrumented(shape) == shape.zones \cup shape.kept # {}

Vacant(o, others) ==
  /\ Region(o) \subseteq HeapAddr
  /\ \A b \in others : o.base + o.shape.size < b.base \/ b.base + b.shape.size < o.base

Malloc(shape, base) ==
  LET o == [base |-> base, shape |-> shape]
  IN  /\ status = "run"
      /\ Vacant(o, blocks)
      /\ blocks' = blocks \cup {o}
      /\ __rdzone_add(Redzones(o))
      /\ UNCHANGED <<frames, status, innocent, damaged>>

Calloc(shape, base) ==
  LET o == [base |-> base, shape |-> shape]
  IN  /\ status = "run"
      /\ Vacant(o, blocks)
      /\ blocks' = blocks \cup {o}
      /\ zones' = zones \cup Redzones(o)
      /\ coloured' = (coloured \ Region(o)) \cup ZoneBytes(Redzones(o))
      /\ UNCHANGED <<frames, status, innocent, damaged>>

MallocFails(shape) ==
  /\ status = "run" /\ "exhaust" \in moves
  /\ Instrumented(shape)
  /\ status' = "crash"
  /\ UNCHANGED <<coloured, zones, frames, blocks, innocent, damaged>>

(* Mutation: the redzones of the old block are removed last.               *)
Realloc_RemovesOld(b, shape, base) ==
  LET o == [base |-> base, shape |-> shape]
  IN  /\ status = "run" /\ "realloc" \in moves
      /\ b \in blocks /\ Instrumented(b.shape) /\ Instrumented(shape)
      /\ Vacant(o, IF base = b.base THEN blocks \ {b} ELSE blocks)
      /\ blocks' = (blocks \ {b}) \cup {o}
      /\ zones' = (zones \cup Redzones(o)) \ Redzones(b)
      /\ coloured' = coloured \cup ZoneBytes(Redzones(o))
      /\ UNCHANGED <<frames, status, innocent, damaged>>

(* The block moves, or grows in place, with its contents.                  *)
Realloc(b, shape, base) ==
  LET o == [base |-> base, shape |-> shape]
      moved == {i \in 0 .. b.shape.size - 1 : i < shape.size}
  IN  /\ status = "run" /\ "realloc" \in moves
      /\ b \in blocks /\ Instrumented(b.shape) /\ Instrumented(shape)
      /\ Vacant(o, IF base = b.base THEN blocks \ {b} ELSE blocks)
      /\ blocks' = (blocks \ {b}) \cup {o}
      /\ zones' = zones \cup Redzones(o)
      /\ coloured' = (coloured \ At(o, moved))
                      \cup At(o, {i \in moved : b.base + i \in coloured})
                      \cup ZoneBytes(Redzones(o))
      /\ UNCHANGED <<frames, status, innocent, damaged>>

(* The allocator may keep a link in the block's first byte.                *)
Freed(b) ==
  /\ status = "run"
  /\ b \in blocks
  /\ blocks' = blocks \ {b}
  /\ coloured' \in {coloured, coloured \ {b.base}}
  /\ UNCHANGED <<frames, status, innocent, damaged>>

(* insert_heap_free found one allocation, of the given shape.              *)
FreeTraced(b, shape) ==
  /\ "trace" \in moves
  /\ Instrumented(shape)
  /\ shape = b.shape \/ "mislead" \in moves
  /\ Freed(b)
  /\ __rdzone_rm_between(b.base, shape.swept)

(* It found none and inserted nothing.                                     *)
FreeUntraced(b) ==
  /\ Instrumented(b.shape) => "leak" \in moves
  /\ Freed(b)
  /\ UNCHANGED zones

-----------------------------------------------------------------------------
(* Accesses.  The check comes first; a load or store it reports does not   *)
(* happen.  Library code and memcpy intrinsics write without a check.      *)

Written(p, w) == coloured' \in {coloured \cup Bytes(p, w), coloured \ Bytes(p, w)}

Reported(p, w) ==
  /\ status = "run"
  /\ Bytes(p, w) \subseteq Addr
  /\ Reports(p, w)
  /\ status' = "report"
  /\ innocent' = (innocent /\ Legal(p, w))
  /\ UNCHANGED <<coloured, zones, frames, blocks, damaged>>

Passed(p, w) ==
  /\ status = "run"
  /\ Bytes(p, w) \subseteq Addr
  /\ ~Reports(p, w)
  /\ innocent' = (innocent /\ Legal(p, w))
  /\ UNCHANGED <<zones, frames, blocks, status>>

Load(p, w) == Passed(p, w) /\ UNCHANGED <<coloured, damaged>>

(* Mutation: the check is placed behind the store.                         *)
StoreTo_Late(p, w) ==
  /\ status = "run"
  /\ Bytes(p, w) \subseteq Addr
  /\ Written(p, w)
  /\ status' = IF Reports(p, w) THEN "report" ELSE "run"
  /\ innocent' = (innocent /\ Legal(p, w))
  /\ damaged' = (damaged \/ (~Reports(p, w) /\ Touches(p, w)))
  /\ UNCHANGED <<zones, frames, blocks>>

StoreTo(p, w) ==
  /\ Passed(p, w)
  /\ Written(p, w)
  /\ damaged' = (damaged \/ Touches(p, w))

LibcWrite(p, w) ==
  /\ status = "run" /\ "libc" \in moves
  /\ Bytes(p, w) \subseteq Addr
  /\ Written(p, w)
  /\ innocent' = (innocent /\ Legal(p, w))
  /\ damaged' = (damaged \/ Touches(p, w))
  /\ UNCHANGED <<zones, frames, blocks, status>>

Step ==
  \/ \E shape \in StackShapes, base \in StackAddr : Enter(shape, base)
  \/ \E f \in frames : Return(f) \/ Longjmp(f)
  \/ \E shape \in HeapShapes, base \in HeapAddr :
       \/ Malloc(shape, base)
       \/ Calloc(shape, base)
       \/ \E b \in blocks : Realloc(b, shape, base)
  \/ \E shape \in HeapShapes : MallocFails(shape)
  \/ \E b \in blocks : FreeUntraced(b) \/ \E shape \in HeapShapes : FreeTraced(b, shape)
  \/ \E p \in Addr, w \in Widths :
       Reported(p, w) \/ Load(p, w) \/ StoreTo(p, w) \/ LibcWrite(p, w)

Next == Step /\ UNCHANGED moves

Spec == Init /\ [][Next]_vars

-----------------------------------------------------------------------------
(* Properties *)

Placed ==
  /\ \A o \in frames : Region(o) \subseteq StackAddr
  /\ \A o \in blocks : Region(o) \subseteq HeapAddr

Apart == \A o1, o2 \in Live : o1 # o2 => Region(o1) \cap Region(o2) = {}

(* Live objects lie in the stack or the heap and keep apart.               *)
TypeOK ==
  /\ coloured \subseteq Addr /\ zones \subseteq Addr
  /\ frames \subseteq Objects(StackAddr, StackShapes)
  /\ blocks \subseteq Objects(HeapAddr, HeapShapes)
  /\ status \in {"run", "report", "crash"}
  /\ innocent \in BOOLEAN /\ damaged \in BOOLEAN /\ moves \in Programs
  /\ Placed /\ Apart

(***************************************************************************)
(* Every byte of a registered redzone of a live object is coloured, as     *)
(* long as no write that was let through has hit such a redzone: painting, *)
(* clearing, moving and reusing memory never lose the colour the check     *)
(* looks for first, whatever the program does and however its frees are    *)
(* traced.                                                                 *)
(***************************************************************************)
Painted == ~damaged => ZoneBytes(zones \cap LiveZones) \subseteq coloured

(***************************************************************************)
(* Where no free sweeps, every redzone of every live object is registered: *)
(* the removals of returns, and frames abandoned or blocks reused with     *)
(* stale redzones in them, never unregister a redzone that is in use.      *)
(***************************************************************************)
Guarded == "trace" \notin moves => LiveZones \subseteq zones

(***************************************************************************)
(* Where frees sweep: the range of a sweep, its last address included,     *)
(* holds no redzone of another block, if the free was traced to the block  *)
(* that is freed.                                                          *)
(***************************************************************************)
SweepsInside ==
  \A b, c \in blocks :
    b # c => Redzones(c) \cap (b.base .. SweepEnd(b.base, b.shape.swept)) = {}

(***************************************************************************)
(* A step unregisters redzones of the objects that stay live only if it    *)
(* frees a block that lies below them (remove_between may then delete      *)
(* redzones above its range): no free, whatever it was traced to, and no   *)
(* return, longjmp or reallocation unprotects an object below.             *)
(***************************************************************************)
SparesBelow ==
  [][\A o \in Live \cap Live' :
       \/ Redzones(o) \cap zones \subseteq zones'
       \/ "trace" \in moves /\ \E b \in blocks \ blocks' : b.base < o.base]_vars

(***************************************************************************)
(* Where no free sweeps, an access that starts in a redzone of a live      *)
(* object is reported, unless a write that was let through has hit a       *)
(* redzone before.                                                         *)
(***************************************************************************)
Caught ==
  "trace" \notin moves /\ ~damaged =>
    \A p \in ZoneBytes(LiveZones), w \in Widths : Reports(p, w)

(* Programs whose redzones all disappear with their objects.               *)
Tidy ==
  /\ moves \subseteq {"libc"}
  /\ \A s \in StackShapes : s.kept \subseteq s.zones

(***************************************************************************)
(* A program that stays within its own data is never stopped, if it leaves *)
(* functions by returns, has no structs nested in its structs on the stack *)
(* and keeps the structs it allocates: stack memory may be reused in any   *)
(* way, and plain heap memory too.                                         *)
(***************************************************************************)
SafeTidy == Tidy => (status # "run" => ~innocent)

(* Whatever the program does, it is not stopped while it stays within its  *)
(* own data: what run_tests.py expects of the programs it lists as safe.   *)
SafeRuns == status # "run" => ~innocent

(***************************************************************************)
(* An access that runs into a redzone of a live object is reported also    *)
(* when it starts in front of it, which _CheckPoison calls a partial       *)
(* overflow.                                                               *)
(***************************************************************************)
PartialCaught ==
  ~damaged => \A p \in Addr, w \in Widths : Touches(p, w) => Reports(p, w)

=============================================================================
