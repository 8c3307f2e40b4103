-------------------------------- MODULE Heap --------------------------------
(***************************************************************************)
(* The heap of one execution context: malloc and its kin (yos-memory.c),   *)
(* sbrk and brk (yos-runtime.c), all over the linear memory of the guest.  *)
(*                                                                         *)
(* Memory is counted in cells of 8 bytes, the header and the alignment of  *)
(* a block.  A cell is a pair of words: a header is <<size, next>>, data   *)
(* is what the guest wrote.  One thread runs a context, so a call is one   *)
(* step.  fork is followed into the child, whose program starts anew on a  *)
(* copy of the memory; the parent's heap stays as it is.                   *)
(***************************************************************************)
EXTENDS Integers

CONSTANTS HeapBase,    \* __heap_base, in cells
          MemSize,     \* wasm_mem_size, in cells
          Sizes,       \* the sizes guests ask for, rounded up to cells
          Increments,  \* the increments guests pass to sbrk, in cells
          Targets,     \* the addresses guests pass to brk, in cells
          Tags,        \* what guests write into their memory
          Calls        \* what the guest does, a subset of AllCalls

AllCalls == {"malloc", "calloc", "free", "realloc", "sbrk", "brk", "fork"}

Word == 536870912      \* 2^32 bytes: where a uint32_t wraps around
LowLimit == 512        \* free() takes no block below 4096 bytes
USED == -1             \* BLOCK_USED_MARKER
NULL == 0

ASSUME HeapAssumption ==
  /\ HeapBase \in Nat /\ MemSize \in Nat
  /\ LowLimit <= HeapBase /\ HeapBase < MemSize /\ MemSize < Word
  /\ Sizes \subseteq 0 .. Word
  /\ Increments \subseteq (-MemSize) .. MemSize
  /\ Targets \subseteq HeapBase .. MemSize
  /\ Tags \subseteq Nat \ {0}
  /\ Calls \subseteq AllCalls

VARIABLES
  heap,     \* linear memory from HeapBase on, ctx->heap_end, ctx->free_list_head
  \* What the guest knows, for the properties only:
  areas,    \* the memory it owns and what it wrote there
  handed    \* every pointer malloc ever returned

vars == <<heap, areas, handed>>

-----------------------------------------------------------------------------
(* Words of memory *)

Cell == HeapBase .. (MemSize - 1)
ZeroCell == <<0, 0>>

\* read32 of both words: 0 outside the memory.
Read(h, c) == IF c \in Cell THEN h.mem[c] ELSE ZeroCell
SizeAt(h, block) == Read(h, block)[1]
NextAt(h, block) == Read(h, block)[2]

\* write32: nothing outside the memory.
SetNext(h, block, next) ==
  IF block \in Cell THEN [h EXCEPT !.mem[block] = <<SizeAt(h, block), next>>] ELSE h

-----------------------------------------------------------------------------
(* The free list *)

Visits == 0 .. (MemSize - HeapBase)

\* curr of find_free_block after n turns of its loop.
Trail(h) ==
  LET curr[n \in Visits] == IF n = 0 THEN h.free_list_head ELSE NextAt(h, curr[n - 1])
  IN  curr

\* Faulty form: the first block on the list is taken, whatever its size.
AnySize(h, block, size) == TRUE

LargeEnough(h, block, size) == SizeAt(h, block) >= size

\* The turn at which the loop stops.
LastTurn(h, size) ==
  LET stops(n) == Trail(h)[n] = NULL \/ LargeEnough(h, Trail(h)[n], size)
  IN  CHOOSE n \in Visits : stops(n) /\ \A m \in 0 .. (n - 1) : ~stops(m)

Unlink(h, n) ==
  LET curr == Trail(h)[n]
      cut  == IF n = 0 THEN [h EXCEPT !.free_list_head = NextAt(h, curr)]
              ELSE SetNext(h, Trail(h)[n - 1], NextAt(h, curr))
  IN  SetNext(cut, curr, USED)

AddToFreeList(h, block) ==
  [SetNext(h, block, h.free_list_head) EXCEPT !.free_list_head = block]

-----------------------------------------------------------------------------
(* malloc, free and realloc as functions of the heap *)

Result(h, ptr) == [heap |-> h, ptr |-> ptr]

\* Faulty form: the break is raised by the data, without the header.
TotalNoHeader(size) == size % Word

Total(size) == (1 + size) % Word

\* Faulty form: the end of the memory is not checked.
OnlyWraps(old, new) == new < old

OutOfMemory(old, new) == new > MemSize \/ new < old

\* A new block at the break, in uint32_t arithmetic.
Grow(h, size) ==
  LET old == h.heap_end
      new == (old + Total(size)) % Word
  IN  IF OutOfMemory(old, new) THEN Result(h, NULL)
      ELSE Result([h EXCEPT !.heap_end = new,
                            !.mem = [c \in Cell |->
                               IF c = old THEN <<size % Word, USED>>
                               ELSE IF c \in (old + 1) .. (old + size) THEN ZeroCell
                               ELSE @[c]]],
                  old + 1)

\* find_free_block takes the size as a uint32_t.
MallocOf(h, size) ==
  LET n == LastTurn(h, size % Word)
  IN  IF size = 0 THEN Result(h, NULL)
      ELSE IF Trail(h)[n] # NULL THEN Result(Unlink(h, n), Trail(h)[n] + 1)
      ELSE Grow(h, size)

\* Faulty form: the marker is not looked at.
TakenBack(h, block) == block < h.heap_end /\ block >= LowLimit

\* free() takes the block back.
Freeable(h, block) ==
  block < h.heap_end /\ block >= LowLimit /\ NextAt(h, block) = USED

FreeOf(h, ptr) == IF Freeable(h, ptr - 1) THEN AddToFreeList(h, ptr - 1) ELSE h

\* Faulty form: the old data is not carried over.
NotCopied(h, src, dst, n) == h

Copied(h, src, dst, n) ==
  [h EXCEPT !.mem = [c \in Cell |->
     IF c \in dst .. (dst + n - 1) THEN Read(h, src + (c - dst)) ELSE @[c]]]

ReallocOf(h, ptr, size) ==
  LET old == SizeAt(h, ptr - 1)
      new == MallocOf(h, size)
  IN  IF size = 0 THEN Result(FreeOf(h, ptr), NULL)
      ELSE IF size <= old THEN Result(h, ptr)
      ELSE IF new.ptr = NULL THEN new
      ELSE Result(FreeOf(Copied(new.heap, ptr, new.ptr, old), ptr), new.ptr)

-----------------------------------------------------------------------------
(* The calls *)

\* Memory the guest owns; it knows that the first "kept" cells hold tag.
Area(kind, ptr, size, kept, tag) ==
  [kind |-> kind, ptr |-> ptr, size |-> size, kept |-> kept, tag |-> tag]

Blocks == {a \in areas : a.kind = "block"}
Own == {a \in areas : a.kind # "inherited"}

Init ==
  /\ heap = [mem |-> [c \in Cell |-> ZeroCell], heap_end |-> HeapBase,
             free_list_head |-> NULL]
  /\ areas = {}
  /\ handed = {}

Handed(ptr) == handed' = handed \cup ({ptr} \ {NULL})

Malloc ==
  /\ "malloc" \in Calls
  /\ \E size \in Sizes :
       LET r == MallocOf(heap, size)
       IN  /\ heap' = r.heap
           /\ areas' = areas \cup
                IF r.ptr = NULL THEN {} ELSE {Area("block", r.ptr, size, 0, 0)}
           /\ Handed(r.ptr)

\* The product cannot overflow a size_t: its factors are uint32_t.  Only a
\* block from above the break is known to be zero.
Calloc ==
  /\ "calloc" \in Calls
  /\ \E size \in Sizes :
       LET r == MallocOf(heap, size)
           zeros == IF r.heap.heap_end = heap.heap_end THEN 0 ELSE size
       IN  /\ heap' = r.heap
           /\ areas' = areas \cup
                IF r.ptr = NULL THEN {} ELSE {Area("block", r.ptr, size, zeros, 0)}
           /\ Handed(r.ptr)

\* Of a block, or once more of one that was freed.
Free ==
  /\ "free" \in Calls
  /\ \E ptr \in handed :
       /\ heap' = FreeOf(heap, ptr)
       /\ areas' = {a \in areas : a.kind # "block" \/ a.ptr # ptr}
  /\ UNCHANGED handed

\* realloc(NULL, size) is Malloc.
Realloc ==
  /\ "realloc" \in Calls
  /\ \E a \in Blocks, size \in Sizes :
       LET r == ReallocOf(heap, a.ptr, size)
           b == Area("block", r.ptr, size, IF a.kept < size THEN a.kept ELSE size, a.tag)
       IN  /\ heap' = r.heap
           /\ areas' = IF size = 0 THEN areas \ {a}
                       ELSE IF r.ptr = NULL THEN areas
                       ELSE (areas \ {a}) \cup {b}
           /\ Handed(r.ptr)

\* The guest fills one of its areas.
Fill ==
  /\ \E a \in Own, tag \in Tags :
       /\ heap' = [heap EXCEPT !.mem = [c \in Cell |->
             IF c \in a.ptr .. (a.ptr + a.size - 1) THEN <<tag, tag>> ELSE @[c]]]
       /\ areas' = (areas \ {a}) \cup {[a EXCEPT !.kept = a.size, !.tag = tag]}
  /\ UNCHANGED handed

\* A negative increment fails: the new break is below the old one, or wraps.
Sbrk ==
  /\ "sbrk" \in Calls
  /\ \E inc \in Increments :
       LET old == heap.heap_end
           new == (old + inc) % Word
       IN  /\ inc # 0 /\ ~OutOfMemory(old, new)
           /\ heap' = [heap EXCEPT !.heap_end = new,
                                   !.mem = [c \in Cell |->
                                      IF c \in old .. (new - 1) THEN ZeroCell ELSE @[c]]]
           /\ areas' = areas \cup {Area("break", old, inc, inc, 0)}
  /\ UNCHANGED handed

\* The guest gives up what it got from sbrk above the target, and does not
\* move the break below a block of malloc.
Brk ==
  /\ "brk" \in Calls
  /\ \E target \in Targets :
       /\ \A ptr \in handed : ptr + SizeAt(heap, ptr - 1) <= target
       /\ heap' = [heap EXCEPT !.heap_end = target]
       /\ areas' = {a \in areas : a.kind = "inherited" \/ a.ptr + a.size <= target} \cup
            IF target > heap.heap_end
            THEN {Area("break", heap.heap_end, target - heap.heap_end, 0, 0)} ELSE {}
  /\ UNCHANGED handed

\* The child: exec_ctx_init_wasm sets the break anew, calloc the list head,
\* and the memory is the snapshot of the parent's.  Bound: a child that
\* inherited blocks does not fork.
Fork ==
  /\ "fork" \in Calls /\ areas = Own
  /\ heap' = [heap EXCEPT !.heap_end = HeapBase, !.free_list_head = NULL]
  /\ areas' = {Area("inherited", a.ptr, a.size, 0, 0) : a \in Own}
  /\ handed' = {}

Next == Malloc \/ Calloc \/ Free \/ Realloc \/ Fill \/ Sbrk \/ Brk \/ Fork

Spec == Init /\ [][Next]_vars

-----------------------------------------------------------------------------
(* Properties *)

\* Every variable has its type, and the break stays inside the memory.
TypeOK ==
  /\ heap.heap_end \in HeapBase .. MemSize
  /\ heap.free_list_head \in {NULL} \cup Cell
  /\ \A c \in Cell : heap.mem[c] \in Int \X Int
  /\ handed \subseteq Cell
  /\ \A a \in areas : a.ptr \in HeapBase .. MemSize /\ a.size >= a.kept

\* What an area takes up, the header of a block included.
Extent(a) == (IF a.kind = "block" THEN a.ptr - 1 ELSE a.ptr) .. (a.ptr + a.size - 1)

\* No two areas the guest owns share a cell, and all lie below the break,
\* where malloc and sbrk do not go again.
AreasDisjoint ==
  /\ \A a, b \in Own : a = b \/ Extent(a) \cap Extent(b) = {}
  /\ \A a \in Own : a.ptr + a.size <= heap.heap_end

\* The free list ends, and holds each block that was handed out and is not
\* owned, once: a double free is noticed, and no block is lost or leaked.
FreeListSound ==
  LET listed == {Trail(heap)[n] : n \in Visits} \ {NULL}
  IN  /\ \E n \in Visits : Trail(heap)[n] = NULL
      /\ listed = {ptr - 1 : ptr \in handed \ {a.ptr : a \in Blocks}}

\* A block is as large as what was asked for, also after it was used again
\* or reallocated in place.
BigEnough == \A a \in Blocks : SizeAt(heap, a.ptr - 1) >= a.size

\* The guest finds in its memory what it last wrote there, and zeros where
\* sbrk and fresh memory promised them, whatever calls came between.
ContentsKept ==
  \A a \in Own : \A c \in a.ptr .. (a.ptr + a.kept - 1) : heap.mem[c] = <<a.tag, a.tag>>

\* yos-types.h, of heap_end and free_list_head: "each fork gets independent
\* copy".  The child's blocks spare those it inherited with the memory.
InheritedSpared ==
  \A a \in areas \ Own, b \in Own : (a.ptr .. (a.ptr + a.size - 1)) \cap Extent(b) = {}

=============================================================================
