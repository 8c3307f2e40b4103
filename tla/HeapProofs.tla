----------------------------- MODULE HeapProofs -----------------------------
(***************************************************************************)
(* Proofs about module Heap: no two areas of the guest overlap, the free   *)
(* list holds exactly the blocks that were given back, a block is as large *)
(* as what was asked for, and the guest finds what it wrote.               *)
(*                                                                         *)
(* The argument separates the blocks from what the guest knows of them.    *)
(* WellFormed says of a heap, the pointers ever handed out and those in    *)
(* use that the blocks lie apart below the break and that the free list is *)
(* a chain through those not in use.  Lemmas say what malloc, free and a   *)
(* write to data do to a well-formed heap; IInv ties it to the areas.      *)
(***************************************************************************)
EXTENDS Heap, TLAPS, WellFoundedInduction, FiniteSetTheorems

\* Requests stay clear of the wrap of a uint32_t: with its header a block is
\* smaller than 2^32 bytes, and no negative increment reaches into the memory
\* from its far end.  A memory of at most 2 GB meets the second for all.
ClearOfWrap ==
  /\ \A size \in Sizes : size < Word - 1
  /\ \A inc \in Increments : inc >= MemSize - Word

-----------------------------------------------------------------------------
(* Numbers *)

\* A set of natural numbers that is not empty has a least one.
LEMMA LeastNumber ==
  ASSUME NEW T \in SUBSET Nat, T # {}
  PROVE  \E x \in T : \A y \in T : x <= y
<1> DEFINE R == StrictSubsetOrdering(Nat)
           I == {0 .. n : n \in T}
<1>1. I \subseteq FiniteSubsetsOf(Nat) /\ I # {}
  <2>1. ASSUME NEW n \in T
        PROVE  IsFiniteSet(0 .. n)
    BY FS_Interval
  <2>2. ASSUME NEW n \in T
        PROVE  0 .. n \in SUBSET Nat
    OBVIOUS
  <2>3. QED
    BY <2>1, <2>2, Zenon DEF FiniteSubsetsOf
<1>2. IsWellFoundedOn(R, FiniteSubsetsOf(Nat))
  BY FS_StrictSubsetOrderingWellFounded
<1> HIDE DEF I, R
<1>3. PICK i \in I : \A j \in I : ~ (<<j, i>> \in R)
  BY <1>1, <1>2, WFMin
<1> USE DEF I, R
<1>4. PICK x \in T : i = 0 .. x
  BY <1>3
<1>5. ASSUME NEW y \in T, y < x
      PROVE  FALSE
  <2>1. 0 .. y \in I /\ 0 .. y \subseteq 0 .. x /\ x \notin 0 .. y /\ x \in 0 .. x
    BY <1>5
  <2>2. <<0 .. y, i>> \in R
    BY <2>1, <1>4 DEF StrictSubsetOrdering
  <2>3. QED
    BY <1>3, <2>1, <2>2
<1>6. QED
  BY <1>5

\* Arithmetic of uint32_t, on numbers that wrap at most once.
LEMMA Wrap ==
  /\ Word \in Nat /\ Word > 2
  /\ \A x \in Int : x >= 0 /\ x < Word => x % Word = x
  /\ \A x \in Int : x >= Word /\ x < 2 * Word => x % Word = x - Word
  /\ \A x \in Int : x >= -Word /\ x < 0 => x % Word = x + Word
<1>1. Word \in Nat /\ Word > 2
  BY SMT DEF Word
<1>2. ASSUME NEW x \in Int, x >= 0, x < Word
      PROVE  x % Word = x
  BY <1>1, <1>2, SMT
<1>3. ASSUME NEW x \in Int, x >= Word, x < 2 * Word
      PROVE  x % Word = x - Word
  BY <1>1, <1>3, SMT
<1>4. ASSUME NEW x \in Int, x >= -Word, x < 0
      PROVE  x % Word = x + Word
  BY <1>1, <1>4, SMT
<1>5. QED
  BY <1>1, <1>2, <1>3, <1>4

-----------------------------------------------------------------------------
(* Words of memory *)

HeapType ==
  [mem : [Cell -> Int \X Int], heap_end : HeapBase .. MemSize, free_list_head : Int]

LEMMA CellFacts ==
  /\ Cell \subseteq Nat
  /\ \A c \in Cell : c >= LowLimit /\ c # NULL /\ c # USED /\ c < MemSize /\ c >= HeapBase
  /\ HeapBase \in Nat /\ MemSize \in Nat /\ HeapBase < MemSize /\ MemSize < Word
  /\ NULL \notin Cell
BY HeapAssumption DEF Cell, LowLimit, NULL, USED

\* What SetNext does to each word.
LEMMA SetNextFacts ==
  ASSUME NEW h \in HeapType, NEW b \in Cell, NEW next \in Int
  PROVE  /\ SetNext(h, b, next) \in HeapType
         /\ SetNext(h, b, next).heap_end = h.heap_end
         /\ SetNext(h, b, next).free_list_head = h.free_list_head
         /\ \A c \in Cell : c # b => SetNext(h, b, next).mem[c] = h.mem[c]
         /\ \A c : SizeAt(SetNext(h, b, next), c) = SizeAt(h, c)
         /\ \A c : NextAt(SetNext(h, b, next), c) = IF c = b THEN next ELSE NextAt(h, c)
<1> DEFINE s == SetNext(h, b, next)
<1>1. h.mem[b] \in Int \X Int /\ SizeAt(h, b) = h.mem[b][1]
  BY DEF HeapType, SizeAt, Read
<1>2. s = [h EXCEPT !.mem[b] = <<h.mem[b][1], next>>]
  BY <1>1 DEF SetNext
<1>3. /\ s \in HeapType
      /\ s.heap_end = h.heap_end
      /\ s.free_list_head = h.free_list_head
      /\ \A c \in Cell : s.mem[c] = IF c = b THEN <<h.mem[b][1], next>> ELSE h.mem[c]
  BY <1>1, <1>2 DEF HeapType
<1>4. \A c : /\ SizeAt(s, c) = SizeAt(h, c)
             /\ NextAt(s, c) = IF c = b THEN next ELSE NextAt(h, c)
  BY <1>3 DEF SizeAt, NextAt, Read
<1>5. QED
  BY <1>3, <1>4

\* What free does to each word when it takes a block back.
LEMMA AddToFreeListFacts ==
  ASSUME NEW h \in HeapType, NEW b \in Cell
  PROVE  /\ AddToFreeList(h, b) \in HeapType
         /\ AddToFreeList(h, b).heap_end = h.heap_end
         /\ AddToFreeList(h, b).free_list_head = b
         /\ \A c \in Cell : c # b => AddToFreeList(h, b).mem[c] = h.mem[c]
         /\ \A c : SizeAt(AddToFreeList(h, b), c) = SizeAt(h, c)
         /\ \A c : NextAt(AddToFreeList(h, b), c) =
                     IF c = b THEN h.free_list_head ELSE NextAt(h, c)
<1> DEFINE s == SetNext(h, b, h.free_list_head)
           t == AddToFreeList(h, b)
<1>1. h.free_list_head \in Int /\ b \in Int
  BY CellFacts DEF HeapType
<1>2. /\ s \in HeapType
      /\ s.heap_end = h.heap_end
      /\ \A c \in Cell : c # b => s.mem[c] = h.mem[c]
      /\ \A c : SizeAt(s, c) = SizeAt(h, c)
      /\ \A c : NextAt(s, c) = IF c = b THEN h.free_list_head ELSE NextAt(h, c)
  <2>1. PICK next \in Int : next = h.free_list_head
    BY <1>1
  <2>2. s = SetNext(h, b, next)
    BY <2>1
  <2>3. QED
    BY <2>1, <2>2, SetNextFacts
<1>3. t = [s EXCEPT !.free_list_head = b]
  BY DEF AddToFreeList
<1> HIDE DEF s, t
<1>4. /\ t \in HeapType
      /\ t.heap_end = s.heap_end
      /\ t.free_list_head = b
      /\ t.mem = s.mem
  BY <1>1, <1>2, <1>3 DEF HeapType
<1>5. \A c : SizeAt(t, c) = SizeAt(s, c) /\ NextAt(t, c) = NextAt(s, c)
  BY <1>4 DEF SizeAt, NextAt, Read
<1>6. QED
  BY <1>2, <1>4, <1>5 DEF t

-----------------------------------------------------------------------------
(* The blocks and the free list *)

\* The blocks behind the pointers H lie below the break, apart from each
\* other; those in use, L, are the ones with the marker.
Layout(h, H, L) ==
  /\ L \subseteq H /\ H \subseteq Nat
  /\ \A p \in H : /\ p - 1 \in Cell
                  /\ SizeAt(h, p - 1) \in Nat \ {0}
                  /\ p + SizeAt(h, p - 1) <= h.heap_end
  /\ \A p, q \in H : p < q => p + SizeAt(h, p - 1) < q
  /\ \A p \in L : NextAt(h, p - 1) = USED

\* f is the free list: k blocks, from the head to NULL.
IsChain(h, f, k) ==
  /\ k \in Nat
  /\ f \in [0 .. k -> Int]
  /\ f[0] = h.free_list_head
  /\ f[k] = NULL
  /\ \A i \in 0 .. (k - 1) : f[i] \in Cell /\ NextAt(h, f[i]) = f[i + 1]

\* It goes through each of the headers in B once.
Through(f, k, B) ==
  /\ \A i \in 0 .. (k - 1) : f[i] \in B
  /\ \A i, j \in 0 .. (k - 1) : f[i] = f[j] => i = j
  /\ \A b \in B : \E i \in 0 .. (k - 1) : f[i] = b

Headers(P) == {p - 1 : p \in P}

WellFormed(h, H, L) ==
  /\ h \in HeapType
  /\ Layout(h, H, L)
  /\ \E k \in Nat : \E f \in [0 .. k -> Int] :
       IsChain(h, f, k) /\ Through(f, k, Headers(H \ L))

\* A list that goes through no cell twice ends within Visits.
LEMMA ChainFits ==
  ASSUME NEW h, NEW k, NEW f, NEW B, IsChain(h, f, k), Through(f, k, B)
  PROVE  k \in Visits
<1> DEFINE g == [i \in 0 .. (k - 1) |-> f[i]]
<1>1. k \in Nat /\ k - 1 \in Int /\ 0 \in Int
  BY DEF IsChain
<1>2. g \in [0 .. (k - 1) -> Cell] /\ \A i, j \in 0 .. (k - 1) : g[i] = g[j] => i = j
  BY DEF IsChain, Through
<1> HIDE DEF g
<1>3. g \in Injection(0 .. (k - 1), Cell)
  BY <1>2, Zenon DEF Injection, IsInjective
<1>4. /\ IsFiniteSet(Cell)
      /\ Cardinality(Cell) = MemSize - HeapBase
  BY FS_Interval, CellFacts DEF Cell
<1>5. Cardinality(0 .. (k - 1)) <= Cardinality(Cell)
  BY <1>3, <1>4, FS_Injection
<1>6. Cardinality(0 .. (k - 1)) = k
  BY <1>1, FS_Interval
<1>7. QED
  BY <1>1, <1>4, <1>5, <1>6, CellFacts DEF Visits

\* The loop of find_free_block walks along the list, then stays at NULL.
LEMMA TrailIsChain ==
  ASSUME NEW h \in HeapType, NEW k \in Visits, NEW f, IsChain(h, f, k)
  PROVE  Trail(h) = [n \in Visits |-> IF n < k THEN f[n] ELSE NULL]
<1> DEFINE Step(g) == [n \in Visits |-> IF n = 0 THEN h.free_list_head ELSE NextAt(h, g[n - 1])]
           walk == [n \in Visits |-> IF n < k THEN f[n] ELSE NULL]
           T == {m \in Visits : Trail(h)[m] # walk[m]}
<1>1. /\ \A n \in Visits : n \in Nat /\ (n # 0 => n - 1 \in Visits)
      /\ 0 \in Visits
  BY CellFacts DEF Visits
<1>2. walk = Step(walk)
  <2>1. NextAt(h, NULL) = NULL
    BY CellFacts DEF NextAt, Read, ZeroCell, NULL
  <2>2. ASSUME NEW n \in Visits
        PROVE  walk[n] = Step(walk)[n]
    <3>1. CASE n = 0
      BY <3>1, <1>1 DEF IsChain
    <3>2. CASE n # 0 /\ n <= k
      <4>1. n - 1 \in 0 .. (k - 1) /\ n - 1 \in Visits /\ walk[n - 1] = f[n - 1]
        BY <3>2, <1>1
      <4>2. NextAt(h, f[n - 1]) = f[n]
        BY <4>1, <1>1 DEF IsChain
      <4>3. f[n] = walk[n]
        BY <3>2, <1>1 DEF IsChain
      <4>4. QED
        BY <3>2, <4>1, <4>2, <4>3
    <3>3. CASE n # 0 /\ ~ (n <= k)
      <4>1. n - 1 \in Visits /\ walk[n - 1] = NULL /\ walk[n] = NULL
        BY <3>3, <1>1
      <4>2. QED
        BY <3>3, <4>1, <2>1
    <3>4. QED
      BY <3>1, <3>2, <3>3
  <2>3. QED
    BY <2>2
<1> HIDE DEF walk
<1>3. Trail(h) = Step(Trail(h))
  BY <1>2, Zenon DEF Trail
<1> HIDE DEF Step
<1>4. \A n \in Visits : n # 0 => (Trail(h)[n] = NextAt(h, Trail(h)[n - 1]) /\ walk[n] = NextAt(h, walk[n - 1]))
  BY <1>2, <1>3, Zenon DEF Step
<1>5. Trail(h)[0] = walk[0]
  BY <1>1, <1>2, <1>3 DEF Step
<1>6. T = {}
  <2>1. SUFFICES ASSUME T # {} PROVE FALSE
    OBVIOUS
  <2>2. T \in SUBSET Nat
    BY <1>1
  <2>3. PICK x \in T : \A y \in T : x <= y
    BY <2>1, <2>2, LeastNumber
  <2>4. x \in Visits /\ x # 0 /\ Trail(h)[x] # walk[x]
    BY <2>3, <1>5
  <2>5. x - 1 \in Visits /\ x - 1 \notin T
    BY <2>2, <2>3, <2>4, <1>1
  <2>6. Trail(h)[x - 1] = walk[x - 1]
    BY <2>5
  <2>7. QED
    BY <2>4, <2>6, <1>4
<1>7. \A n \in Visits : Trail(h)[n] = walk[n]
  BY <1>6
<1>8. Trail(h) = [n \in Visits |-> Trail(h)[n]] /\ walk = [n \in Visits |-> walk[n]]
  BY <1>2, <1>3 DEF Step
<1>9. QED
  BY <1>7, <1>8, Zenon DEF walk

\* A block has its header and data below the break, and no two share a cell.
LEMMA LayoutFacts ==
  ASSUME NEW h \in HeapType, NEW H, NEW L, Layout(h, H, L)
  PROVE  /\ \A p \in H : /\ p \in Nat /\ p - 1 \in Cell /\ p \in Cell
                         /\ SizeAt(h, p - 1) \in Nat \ {0}
                         /\ p + SizeAt(h, p - 1) <= h.heap_end
                         /\ p - 1 < h.heap_end
         /\ h.heap_end \in Nat /\ h.heap_end <= MemSize /\ h.heap_end >= HeapBase
         /\ H \subseteq Nat /\ L \subseteq H
<1>1. h.heap_end \in Nat /\ h.heap_end <= MemSize /\ h.heap_end >= HeapBase
  BY CellFacts DEF HeapType
<1>2. ASSUME NEW p \in H, DOMAIN h.mem = Cell
      PROVE  p \in Nat /\ p \in Cell
  BY <1>1, CellFacts DEF Layout, Cell
<1>3. QED
  BY <1>1, <1>2, CellFacts DEF Layout, HeapType

\* A heap with the same headers and list is as well formed, whatever became
\* of the data and wherever the break is above the blocks.
LEMMA SameHeaders ==
  ASSUME NEW h, NEW H, NEW L, WellFormed(h, H, L), NEW t \in HeapType,
         t.free_list_head = h.free_list_head,
         \A p \in H : /\ SizeAt(t, p - 1) = SizeAt(h, p - 1)
                      /\ NextAt(t, p - 1) = NextAt(h, p - 1)
                      /\ p + SizeAt(h, p - 1) <= t.heap_end
  PROVE  WellFormed(t, H, L)
<1>1. Layout(t, H, L)
  BY DEF WellFormed, Layout
<1>2. PICK k \in Nat : \E f \in [0 .. k -> Int] :
        IsChain(h, f, k) /\ Through(f, k, Headers(H \ L))
  BY DEF WellFormed
<1>3. PICK f \in [0 .. k -> Int] : IsChain(h, f, k) /\ Through(f, k, Headers(H \ L))
  BY <1>2
<1>4. \A i \in 0 .. (k - 1) : NextAt(t, f[i]) = NextAt(h, f[i])
  BY <1>3 DEF Through, Headers
<1>5. IsChain(t, f, k)
  BY <1>3, <1>4 DEF IsChain
<1>6. QED
  BY <1>1, <1>3, <1>5 DEF WellFormed

\* free puts a block in use on the list, and does nothing to one that is on
\* the list already.
LEMMA FreeOfFacts ==
  ASSUME NEW h, NEW H, NEW L, WellFormed(h, H, L), NEW p \in H
  PROVE  /\ WellFormed(FreeOf(h, p), H, L \ {p})
         /\ FreeOf(h, p).heap_end = h.heap_end
         /\ \A c \in Cell : c + 1 \notin H => FreeOf(h, p).mem[c] = h.mem[c]
         /\ \A c : SizeAt(FreeOf(h, p), c) = SizeAt(h, c)
<1> DEFINE b == p - 1
           t == AddToFreeList(h, b)
<1>1. h \in HeapType /\ Layout(h, H, L) /\ b \in Cell /\ b \in Int /\ p = b + 1 /\ b < h.heap_end /\ H \subseteq Nat
  BY LayoutFacts, CellFacts DEF WellFormed
<1>2. PICK k \in Nat : \E f \in [0 .. k -> Int] :
        IsChain(h, f, k) /\ Through(f, k, Headers(H \ L))
  BY DEF WellFormed
<1>3. PICK f \in [0 .. k -> Int] : IsChain(h, f, k) /\ Through(f, k, Headers(H \ L))
  BY <1>2
<1>4. CASE p \in L
  <2>1. FreeOf(h, p) = t
    BY <1>1, <1>4, CellFacts DEF FreeOf, Freeable, Layout
  <2>2. /\ t \in HeapType
        /\ t.heap_end = h.heap_end
        /\ t.free_list_head = b
        /\ \A c \in Cell : c # b => t.mem[c] = h.mem[c]
        /\ \A c : SizeAt(t, c) = SizeAt(h, c)
        /\ \A c : NextAt(t, c) = IF c = b THEN h.free_list_head ELSE NextAt(h, c)
    BY <1>1, AddToFreeListFacts
  <2> HIDE DEF t
  <2>3. Layout(t, H, L \ {p})
    BY <1>1, <2>2 DEF Layout
  <2> DEFINE g == [i \in 0 .. (k + 1) |-> IF i = 0 THEN b ELSE f[i - 1]]
  <2>4. b \notin Headers(H \ L)
    BY <1>1, <1>4 DEF Headers
  <2>5. Headers(H \ (L \ {p})) = Headers(H \ L) \cup {b}
    BY <1>1 DEF Headers
  <2>6. k + 1 \in Nat /\ g \in [0 .. (k + 1) -> Int] /\ g[0] = b /\ g[k + 1] = NULL
    BY <1>1, <1>3 DEF IsChain
  <2>7. ASSUME NEW i \in 0 .. k
        PROVE  g[i] \in Cell /\ NextAt(t, g[i]) = g[i + 1]
    <3>1. CASE i = 0
      BY <3>1, <1>1, <1>3, <2>2 DEF IsChain
    <3>2. CASE i # 0
      <4>1. i - 1 \in 0 .. (k - 1) /\ g[i] = f[i - 1] /\ g[i + 1] = f[i]
        BY <3>2
      <4>2. f[i - 1] \in Cell /\ NextAt(h, f[i - 1]) = f[i] /\ f[i - 1] # b
        BY <4>1, <1>3, <2>4 DEF IsChain, Through
      <4>3. QED
        BY <4>1, <4>2, <2>2
    <3>3. QED
      BY <3>1, <3>2
  <2>8. IsChain(t, g, k + 1)
    <3> HIDE DEF g
    <3>1. (k + 1) - 1 = k
      OBVIOUS
    <3>2. QED
      BY <2>2, <2>6, <2>7, <3>1 DEF IsChain
  <2>9. Through(g, k + 1, Headers(H \ (L \ {p})))
    <3>1. \A i \in 0 .. k : g[i] = IF i = 0 THEN b ELSE f[i - 1]
      OBVIOUS
    <3>2. \A i \in 0 .. k : i # 0 => i - 1 \in 0 .. (k - 1)
      OBVIOUS
    <3>3. \A i \in 0 .. (k - 1) : i + 1 \in 0 .. k /\ g[i + 1] = f[i] /\ f[i] # b
      BY <1>3, <2>4 DEF Through
    <3>4. \A i, j \in 0 .. k : g[i] = g[j] => i = j
      <4> HIDE DEF g
      <4>1. SUFFICES ASSUME NEW i \in 0 .. k, NEW j \in 0 .. k, g[i] = g[j]
                     PROVE  i = j
        OBVIOUS
      <4>2. CASE i = 0 \/ j = 0
        BY <4>1, <4>2, <3>1, <3>2, <3>3
      <4>3. CASE i # 0 /\ j # 0
        <5>1. i - 1 = j - 1
          BY <4>1, <4>3, <3>1, <3>2, <1>3 DEF Through
        <5>2. QED
          BY <5>1
      <4>4. QED
        BY <4>2, <4>3
    <3>5. ASSUME NEW i \in 0 .. k
          PROVE  g[i] \in Headers(H \ L) \cup {b}
      <4> HIDE DEF g
      <4>1. i # 0 => f[i - 1] \in Headers(H \ L)
        BY <3>2, <1>3 DEF Through
      <4>2. QED
        BY <4>1, <3>1
    <3>6. \A c \in Headers(H \ L) \cup {b} : \E i \in 0 .. k : g[i] = c
      <4>1. g[0] = b /\ 0 \in 0 .. k
        OBVIOUS
      <4> HIDE DEF g
      <4>2. ASSUME NEW c \in Headers(H \ L)
            PROVE  \E i \in 0 .. k : g[i] = c
        <5>1. PICK i \in 0 .. (k - 1) : f[i] = c
          BY <1>3 DEF Through
        <5>2. QED
          BY <5>1, <3>3
      <4>3. QED
        BY <4>1, <4>2
    <3>7. (k + 1) - 1 = k
      OBVIOUS
    <3> HIDE DEF g
    <3>8. QED
      BY <3>4, <3>5, <3>6, <3>7, <2>5 DEF Through
  <2>10. WellFormed(t, H, L \ {p})
    BY <2>2, <2>3, <2>6, <2>8, <2>9 DEF WellFormed
  <2>11. QED
    BY <1>1, <2>1, <2>2, <2>10
<1>5. CASE p \notin L
  <2>1. b \in Headers(H \ L)
    BY <1>5 DEF Headers
  <2>2. PICK i \in 0 .. (k - 1) : f[i] = b
    BY <2>1, <1>3 DEF Through
  <2>3. NextAt(h, b) = f[i + 1] /\ (f[i + 1] \in Cell \/ f[i + 1] = NULL)
    <3>1. NextAt(h, b) = f[i + 1]
      BY <2>2, <1>3 DEF IsChain
    <3>2. i + 1 \in 0 .. (k - 1) \/ i + 1 = k
      BY <2>2
    <3>3. QED
      BY <3>1, <3>2, <1>3 DEF IsChain
  <2>4. FreeOf(h, p) = h
    BY <2>3, CellFacts DEF FreeOf, Freeable, USED, NULL
  <2>5. L \ {p} = L
    BY <1>5
  <2>6. QED
    BY <2>4, <2>5
<1>6. QED
  BY <1>4, <1>5

\* The search stops at a block that is large enough, or behind the last one.
LEMMA LastTurnFacts ==
  ASSUME NEW h \in HeapType, NEW k \in Visits, NEW f, IsChain(h, f, k), NEW size
  PROVE  LET n == LastTurn(h, size)
         IN  /\ n \in 0 .. k
             /\ n = k => Trail(h)[n] = NULL
             /\ n < k => Trail(h)[n] = f[n] /\ LargeEnough(h, f[n], size)
             /\ 0 < n => Trail(h)[n - 1] = f[n - 1]
<1> DEFINE T == {m \in Visits : Trail(h)[m] = NULL \/ LargeEnough(h, Trail(h)[m], size)}
           stops(m) == Trail(h)[m] = NULL \/ LargeEnough(h, Trail(h)[m], size)
           n == LastTurn(h, size)
<1>1. /\ \A m \in Visits : m \in Nat
      /\ \A m \in Visits : \A l \in 0 .. m : l \in Visits
      /\ k \in Nat /\ k \in Visits
  BY CellFacts DEF Visits
<1>2. \A m \in Visits : Trail(h)[m] = IF m < k THEN f[m] ELSE NULL
  BY TrailIsChain
<1>3. k \in T
  BY <1>1, <1>2
<1>4. PICK x \in T : \A y \in T : x <= y
  BY <1>1, <1>3, LeastNumber
<1>5. x \in Visits /\ stops(x) /\ \A m \in 0 .. (x - 1) : ~ stops(m)
  BY <1>1, <1>4
<1>6. n \in Visits /\ stops(n) /\ \A m \in 0 .. (n - 1) : ~ stops(m)
  <2>1. n = CHOOSE m \in Visits : stops(m) /\ \A l \in 0 .. (m - 1) : ~ stops(l)
    BY DEF LastTurn
  <2> HIDE DEF n, stops, T
  <2>2. QED
    BY <1>5, <2>1, Zenon
<1> HIDE DEF n
<1>7. n \in Nat /\ ~ (k < n)
  BY <1>1, <1>2, <1>6
<1>8. n = k => Trail(h)[n] = NULL
  BY <1>1, <1>2
<1>9. n < k => Trail(h)[n] = f[n] /\ LargeEnough(h, f[n], size)
  <2>1. SUFFICES ASSUME n < k
                 PROVE  Trail(h)[n] = f[n] /\ LargeEnough(h, f[n], size)
    OBVIOUS
  <2>2. Trail(h)[n] = f[n]
    BY <2>1, <1>2, <1>6
  <2>3. f[n] # NULL
    BY <2>1, <1>7, CellFacts DEF IsChain
  <2>4. QED
    BY <2>2, <2>3, <1>6
<1>10. 0 < n => Trail(h)[n - 1] = f[n - 1]
  <2>1. SUFFICES ASSUME 0 < n PROVE Trail(h)[n - 1] = f[n - 1]
    OBVIOUS
  <2>2. n - 1 \in 0 .. n /\ n - 1 < k
    BY <2>1, <1>1, <1>7
  <2>3. n - 1 \in Visits
    BY <2>2, <1>1, <1>6
  <2>4. QED
    BY <2>2, <2>3, <1>2
<1>11. QED
  BY <1>1, <1>7, <1>8, <1>9, <1>10 DEF n

\* malloc takes a block off the list wherever it is there, and marks it.
LEMMA UnlinkFacts ==
  ASSUME NEW h, NEW H, NEW L, WellFormed(h, H, L),
         NEW k \in Nat, NEW f, IsChain(h, f, k), Through(f, k, Headers(H \ L)),
         NEW n \in 0 .. (k - 1),
         Trail(h)[n] = f[n], 0 < n => Trail(h)[n - 1] = f[n - 1]
  PROVE  /\ f[n] + 1 \in H \ L
         /\ WellFormed(Unlink(h, n), H, L \cup {f[n] + 1})
         /\ Unlink(h, n).heap_end = h.heap_end
         /\ \A c \in Cell : c + 1 \notin H => Unlink(h, n).mem[c] = h.mem[c]
         /\ \A c : SizeAt(Unlink(h, n), c) = SizeAt(h, c)
<1> DEFINE b == f[n]
           after == NextAt(h, b)
           cut == IF n = 0 THEN [h EXCEPT !.free_list_head = after]
                  ELSE SetNext(h, f[n - 1], after)
           t == SetNext(cut, b, USED)
           g == [i \in 0 .. (k - 1) |-> IF i < n THEN f[i] ELSE f[i + 1]]
<1>1. /\ h \in HeapType /\ Layout(h, H, L)
      /\ k \in Nat /\ f \in [0 .. k -> Int] /\ f[0] = h.free_list_head /\ f[k] = NULL
      /\ \A i \in 0 .. (k - 1) : f[i] \in Cell /\ NextAt(h, f[i]) = f[i + 1]
  BY DEF WellFormed, IsChain
<1>2. /\ \A i \in 0 .. (k - 1) : f[i] \in Headers(H \ L)
      /\ \A i, j \in 0 .. (k - 1) : f[i] = f[j] => i = j
      /\ \A c \in Headers(H \ L) : \E i \in 0 .. (k - 1) : f[i] = c
  BY DEF Through
<1>3. /\ n + 1 \in 0 .. k /\ k - 1 \in Nat
      /\ b \in Cell /\ after = f[n + 1] /\ after \in Int /\ b \in Int
  BY <1>1, CellFacts
<1>4. PICK p \in H \ L : b = p - 1
  BY <1>2 DEF Headers
<1>5. p = b + 1 /\ p \in Nat /\ \A q \in H : q \in Nat
  BY <1>1, <1>4 DEF Layout
<1>6. Unlink(h, n) = t
  BY <1>1 DEF Unlink
<1>7. /\ cut \in HeapType
      /\ cut.heap_end = h.heap_end
      /\ cut.free_list_head = IF n = 0 THEN f[1] ELSE f[0]
      /\ \A c \in Cell : n = 0 \/ c # f[n - 1] => cut.mem[c] = h.mem[c]
      /\ \A c : SizeAt(cut, c) = SizeAt(h, c)
      /\ \A c : NextAt(cut, c) = IF n # 0 /\ c = f[n - 1] THEN f[n + 1] ELSE NextAt(h, c)
  <2>1. CASE n = 0
    <3>1. cut = [h EXCEPT !.free_list_head = f[1]]
      BY <2>1, <1>3
    <3> HIDE DEF cut
    <3>2. /\ cut \in HeapType
          /\ cut.heap_end = h.heap_end
          /\ cut.free_list_head = f[1]
          /\ cut.mem = h.mem
      BY <3>1, <2>1, <1>1, <1>3 DEF HeapType
    <3>3. \A c : SizeAt(cut, c) = SizeAt(h, c) /\ NextAt(cut, c) = NextAt(h, c)
      BY <3>2 DEF SizeAt, NextAt, Read
    <3>4. QED
      BY <2>1, <3>2, <3>3
  <2>2. CASE n # 0
    <3>1. n - 1 \in 0 .. (k - 1) /\ f[n - 1] \in Cell
      BY <2>2, <1>1
    <3>2. PICK d \in Cell, next \in Int : d = f[n - 1] /\ next = f[n + 1]
      BY <3>1, <1>3
    <3>3. cut = SetNext(h, d, next)
      BY <2>2, <3>2, <1>3
    <3> HIDE DEF cut
    <3>4. /\ cut \in HeapType
          /\ cut.heap_end = h.heap_end
          /\ cut.free_list_head = h.free_list_head
          /\ \A c \in Cell : c # d => cut.mem[c] = h.mem[c]
          /\ \A c : SizeAt(cut, c) = SizeAt(h, c)
          /\ \A c : NextAt(cut, c) = IF c = d THEN next ELSE NextAt(h, c)
      <4>1. h \in HeapType
        BY <1>1
      <4>2. QED
        BY <4>1, <3>3, SetNextFacts, Z3
    <3>5. QED
      BY <2>2, <3>2, <3>4, <1>1
  <2>3. QED
    BY <2>1, <2>2
<1> HIDE DEF cut
<1>8. /\ t \in HeapType
      /\ t.heap_end = h.heap_end
      /\ t.free_list_head = IF n = 0 THEN f[1] ELSE f[0]
      /\ \A c \in Cell : c # b /\ (n = 0 \/ c # f[n - 1]) => t.mem[c] = h.mem[c]
      /\ \A c : SizeAt(t, c) = SizeAt(h, c)
      /\ \A c : NextAt(t, c) = IF c = b THEN USED
                               ELSE IF n # 0 /\ c = f[n - 1] THEN f[n + 1] ELSE NextAt(h, c)
  <2>1. PICK d \in Cell, next \in Int : d = b /\ next = USED
    BY <1>3 DEF USED
  <2>2. t = SetNext(cut, d, next)
    BY <2>1
  <2> HIDE DEF t
  <2>3. /\ t \in HeapType
        /\ t.heap_end = cut.heap_end
        /\ t.free_list_head = cut.free_list_head
        /\ \A c \in Cell : c # d => t.mem[c] = cut.mem[c]
        /\ \A c : SizeAt(t, c) = SizeAt(cut, c)
        /\ \A c : NextAt(t, c) = IF c = d THEN next ELSE NextAt(cut, c)
    <3>1. cut \in HeapType
      BY <1>7
    <3>2. QED
      BY <3>1, <2>2, SetNextFacts, Z3
  <2>4. QED
    BY <2>1, <2>3, <1>7
<1> HIDE DEF t
<1>9. \A c \in Cell : c + 1 \notin H => t.mem[c] = h.mem[c]
  <2>1. ASSUME NEW c \in Cell, c + 1 \notin H
        PROVE  c # b /\ (n = 0 \/ c # f[n - 1])
    <3>1. c # b
      BY <2>1, <1>4, <1>5
    <3>2. ASSUME n # 0, c = f[n - 1]
          PROVE  FALSE
      <4>1. n - 1 \in 0 .. (k - 1)
        BY <3>2
      <4>2. PICK q \in H \ L : c = q - 1
        BY <4>1, <3>2, <1>2 DEF Headers
      <4>3. QED
        BY <4>2, <2>1, <1>5
    <3>3. QED
      BY <3>1, <3>2
  <2>2. QED
    BY <2>1, <1>8
<1>10. Layout(t, H, L \cup {p})
  <2>1. \A q \in L : q - 1 # b /\ (n # 0 => q - 1 # f[n - 1])
    <3>1. n # 0 => n - 1 \in 0 .. (k - 1)
      OBVIOUS
    <3>2. \A q \in L, r \in H \ L : q - 1 # r - 1
      BY <1>1, <1>5 DEF Layout
    <3>3. QED
      BY <3>1, <3>2, <1>2, <1>3 DEF Headers
  <2>2. \A q \in L \cup {p} : NextAt(t, q - 1) = USED
    BY <2>1, <1>4, <1>8, <1>1 DEF Layout
  <2>3. QED
    BY <2>2, <1>1, <1>8 DEF Layout
<1>11. Headers(H \ (L \cup {p})) = Headers(H \ L) \ {b}
  <2>1. \A q \in H : q - 1 = b <=> q = p
    BY <1>4, <1>5
  <2>2. QED
    BY <2>1 DEF Headers
<1>12. /\ k - 1 \in Nat
       /\ g \in [0 .. (k - 1) -> Int]
       /\ \A i \in 0 .. (k - 1) : g[i] = IF i < n THEN f[i] ELSE f[i + 1]
  <2>1. \A i \in 0 .. (k - 1) : f[i] \in Int /\ f[i + 1] \in Int
    BY <1>1
  <2>2. QED
    BY <2>1, <1>3
<1> HIDE DEF g
<1>13. IsChain(t, g, k - 1)
  <2>1. g[0] = t.free_list_head
    <3>1. 0 \in 0 .. (k - 1)
      BY <1>3
    <3>2. CASE n = 0
      BY <3>1, <3>2, <1>8, <1>12
    <3>3. CASE n # 0
      BY <3>1, <3>3, <1>8, <1>12
    <3>4. QED
      BY <3>2, <3>3
  <2>2. g[k - 1] = NULL
    BY <1>1, <1>3, <1>12
  <2>3. ASSUME NEW i \in 0 .. ((k - 1) - 1)
        PROVE  g[i] \in Cell /\ NextAt(t, g[i]) = g[i + 1]
    <3>1. i \in 0 .. (k - 1) /\ i + 1 \in 0 .. (k - 1) /\ n \in 0 .. (k - 1)
      BY <1>3
    <3>2. CASE i + 1 < n
      <4>1. g[i] = f[i] /\ g[i + 1] = f[i + 1]
        BY <3>1, <3>2, <1>12
      <4>2. f[i] # b /\ n - 1 \in 0 .. (k - 1) /\ f[i] # f[n - 1]
        BY <3>1, <3>2, <1>2
      <4>3. QED
        BY <4>1, <4>2, <3>1, <1>1, <1>8
    <3>3. CASE i + 1 = n
      <4>1. g[i] = f[i] /\ g[i + 1] = f[n + 1] /\ i = n - 1 /\ n # 0
        BY <3>1, <3>3, <1>12
      <4>2. f[i] # b
        BY <3>1, <3>3, <1>2
      <4>3. QED
        BY <4>1, <4>2, <3>1, <1>1, <1>8
    <3>4. CASE n <= i
      <4>1. g[i] = f[i + 1] /\ g[i + 1] = f[(i + 1) + 1]
        BY <3>1, <3>4, <1>12
      <4>2. f[i + 1] # b /\ (n # 0 => f[i + 1] # f[n - 1])
        <5>1. i + 1 # n /\ (n # 0 => n - 1 \in 0 .. (k - 1) /\ i + 1 # n - 1)
          BY <3>1, <3>4
        <5>2. QED
          BY <5>1, <3>1, <1>2
      <4>3. QED
        BY <4>1, <4>2, <3>1, <1>1, <1>8
    <3>5. QED
      BY <3>1, <3>2, <3>3, <3>4
  <2>4. QED
    BY <2>1, <2>2, <2>3, <1>12 DEF IsChain
<1>14. Through(g, k - 1, Headers(H \ L) \ {b})
  <2> DEFINE old(i) == IF i < n THEN i ELSE i + 1
  <2>1. \A i \in 0 .. ((k - 1) - 1) : /\ old(i) \in 0 .. (k - 1) /\ old(i) # n
                                      /\ g[i] = f[old(i)]
    BY <1>3, <1>12
  <2>2. \A i, j \in 0 .. ((k - 1) - 1) : old(i) = old(j) => i = j
    OBVIOUS
  <2>3. \A i \in 0 .. (k - 1) : i # n => \E j \in 0 .. ((k - 1) - 1) : old(j) = i
    <3>1. ASSUME NEW i \in 0 .. (k - 1), i # n
          PROVE  \E j \in 0 .. ((k - 1) - 1) : old(j) = i
      <4>1. CASE i < n
        <5>1. i \in 0 .. ((k - 1) - 1) /\ old(i) = i
          BY <4>1, <1>3
        <5>2. QED
          BY <5>1
      <4>2. CASE n < i
        <5>1. i - 1 \in 0 .. ((k - 1) - 1) /\ old(i - 1) = i
          BY <4>2, <1>3
        <5>2. QED
          BY <5>1
      <4>3. QED
        BY <3>1, <4>1, <4>2
    <3>2. QED
      BY <3>1
  <2> HIDE DEF old
  <2>4. ASSUME NEW i \in 0 .. ((k - 1) - 1)
        PROVE  g[i] \in Headers(H \ L) \ {b}
    <3>1. old(i) \in 0 .. (k - 1) /\ old(i) # n /\ g[i] = f[old(i)]
      BY <2>1
    <3>2. f[old(i)] # f[n]
      BY <3>1, <1>2
    <3>3. QED
      BY <3>1, <3>2, <1>2
  <2>5. \A i, j \in 0 .. ((k - 1) - 1) : g[i] = g[j] => i = j
    BY <2>1, <2>2, <1>2
  <2>6. ASSUME NEW c \in Headers(H \ L) \ {b}
        PROVE  \E j \in 0 .. ((k - 1) - 1) : g[j] = c
    <3>1. PICK i \in 0 .. (k - 1) : f[i] = c
      BY <1>2
    <3>2. PICK j \in 0 .. ((k - 1) - 1) : old(j) = i
      BY <3>1, <2>3
    <3>3. QED
      BY <3>1, <3>2, <2>1
  <2>7. QED
    BY <2>4, <2>5, <2>6 DEF Through
<1>15. WellFormed(t, H, L \cup {p})
  BY <1>8, <1>10, <1>11, <1>12, <1>13, <1>14 DEF WellFormed
<1>16. QED
  BY <1>4, <1>5, <1>6, <1>8, <1>9, <1>15

-----------------------------------------------------------------------------
(* malloc *)

\* What a heap h with the blocks H and L has become when malloc took a block:
\* one that was free, or a new one from above the break, which is zero.
Took(h, H, L, size, r) ==
  /\ r.ptr \notin L /\ r.ptr # NULL
  /\ WellFormed(r.heap, H \cup {r.ptr}, L \cup {r.ptr})
  /\ SizeAt(r.heap, r.ptr - 1) >= size
  /\ \A p \in H : SizeAt(r.heap, p - 1) = SizeAt(h, p - 1)
  /\ \A c \in Cell : c < h.heap_end /\ c + 1 \notin H => r.heap.mem[c] = h.mem[c]
  /\ \/ r.ptr \in H /\ r.heap.heap_end = h.heap_end
     \/ /\ r.ptr = h.heap_end + 1
        /\ r.heap.heap_end = h.heap_end + 1 + size
        /\ \A c \in r.ptr .. (r.ptr + size - 1) : r.heap.mem[c] = ZeroCell

\* At the break, sizes that do not wrap find a place above every block or none.
LEMMA GrowFacts ==
  ASSUME NEW h, NEW H, NEW L, WellFormed(h, H, L),
         NEW size \in Nat, 0 < size, size < Word - 1
  PROVE  Grow(h, size) = Result(h, NULL) \/ Took(h, H, L, size, Grow(h, size))
<1> DEFINE old == h.heap_end
           new == (old + Total(size)) % Word
           r == Grow(h, size)
<1>1. /\ h \in HeapType /\ Layout(h, H, L)
      /\ old \in Nat /\ old <= MemSize /\ old >= HeapBase /\ MemSize < Word /\ MemSize \in Nat
      /\ Word \in Nat /\ Word > 2 /\ HeapBase \in Nat
  BY LayoutFacts, CellFacts, Wrap DEF WellFormed
<1>2. Total(size) = 1 + size /\ size % Word = size
  BY <1>1, Wrap DEF Total
<1>3. new = IF old + 1 + size < Word THEN old + 1 + size ELSE old + 1 + size - Word
  <2>1. old + (1 + size) \in Int /\ old + (1 + size) >= 0 /\ old + (1 + size) < 2 * Word
    BY <1>1
  <2>2. QED
    BY <1>1, <1>2, <2>1, Wrap
<1>4. CASE OutOfMemory(old, new)
  BY <1>4 DEF Grow
<1>5. CASE ~ OutOfMemory(old, new)
  <2>1. new = old + 1 + size /\ new <= MemSize
    BY <1>1, <1>3, <1>5 DEF OutOfMemory
  <2> DEFINE mem == [c \in Cell |-> IF c = old THEN <<size % Word, USED>>
                                    ELSE IF c \in (old + 1) .. (old + size) THEN ZeroCell
                                    ELSE h.mem[c]]
             t == [h EXCEPT !.heap_end = new, !.mem = mem]
  <2>2. r = Result(t, old + 1)
    BY <1>5 DEF Grow
  <2>3. r.ptr = old + 1 /\ r.heap = t
    BY <2>2 DEF Result
  <2>4. mem \in [Cell -> Int \X Int]
    BY <1>1, <1>2 DEF HeapType, ZeroCell, USED
  <2>5. /\ t \in HeapType
        /\ t.heap_end = new
        /\ t.free_list_head = h.free_list_head
        /\ t.mem = mem
    <3> HIDE DEF new, mem
    <3>1. new \in HeapBase .. MemSize
      BY <2>1, <1>1
    <3>2. QED
      BY <3>1, <2>4, <1>1 DEF HeapType
  <2>6. old \in Cell
    BY <1>1, <2>1 DEF Cell
  <2>7. SizeAt(t, old) = size /\ NextAt(t, old) = USED
    BY <2>5, <2>6, <1>2 DEF SizeAt, NextAt, Read
  <2>8. \A c \in Cell : c < old => t.mem[c] = h.mem[c]
    BY <2>5, <1>1, CellFacts
  <2>9. \A c \in Cell : c \in (old + 1) .. (old + size) => t.mem[c] = ZeroCell
    BY <2>5, <1>1, CellFacts
  <2>10. (old + 1) .. (old + size) \subseteq Cell
    BY <1>1, <2>1 DEF Cell
  <2> HIDE DEF mem, t, new, r
  <2>11. /\ \A p \in H : /\ p \in Nat /\ p - 1 \in Cell /\ p - 1 < old
                         /\ SizeAt(h, p - 1) \in Nat \ {0}
                         /\ p + SizeAt(h, p - 1) <= old
         /\ L \subseteq H
    BY <1>1, LayoutFacts
  <2>12. \A p \in H : SizeAt(t, p - 1) = SizeAt(h, p - 1) /\ NextAt(t, p - 1) = NextAt(h, p - 1)
    BY <2>8, <2>11 DEF SizeAt, NextAt, Read
  <2>13. old + 1 \notin H
    BY <2>11, <1>1
  <2>14. WellFormed(t, H, L)
    BY <2>1, <2>5, <2>11, <2>12, <1>1, SameHeaders
  <2>15. Layout(t, H \cup {old + 1}, L \cup {old + 1})
    <3>1. (old + 1) - 1 = old /\ old + 1 \in Nat
      BY <1>1
    <3>2. \A p \in H \cup {old + 1} : /\ p - 1 \in Cell
                                      /\ SizeAt(t, p - 1) \in Nat \ {0}
                                      /\ p + SizeAt(t, p - 1) <= t.heap_end
      BY <3>1, <2>1, <2>5, <2>6, <2>7, <2>11, <2>12, <1>1
    <3>3. ASSUME NEW p \in H \cup {old + 1}, NEW q \in H \cup {old + 1}, p < q
          PROVE  p + SizeAt(t, p - 1) < q
      <4>1. p \in H
        BY <3>3, <2>11, <1>1
      <4>2. CASE q \in H
        BY <3>3, <4>1, <4>2, <2>12, <1>1 DEF Layout
      <4>3. CASE q = old + 1
        BY <4>1, <4>3, <2>11, <2>12, <1>1
      <4>4. QED
        BY <4>2, <4>3
    <3>4. \A p \in L \cup {old + 1} : NextAt(t, p - 1) = USED
      BY <3>1, <2>7, <2>11, <2>12, <1>1 DEF Layout
    <3>5. H \cup {old + 1} \subseteq Nat /\ L \cup {old + 1} \subseteq H \cup {old + 1}
      BY <3>1, <2>11
    <3>6. QED
      BY <3>2, <3>3, <3>4, <3>5 DEF Layout
  <2>16. (H \cup {old + 1}) \ (L \cup {old + 1}) = H \ L
    BY <2>13, <2>11
  <2>17. WellFormed(t, H \cup {old + 1}, L \cup {old + 1})
    BY <2>14, <2>15, <2>16 DEF WellFormed
  <2>18. r.ptr \notin L /\ r.ptr # NULL /\ r.ptr - 1 = old /\ (r.ptr + size) - 1 = old + size
    BY <2>3, <2>11, <2>13, <1>1 DEF NULL
  <2>19. ASSUME NEW c \in r.ptr .. (r.ptr + size - 1)
         PROVE  r.heap.mem[c] = ZeroCell
    <3>1. c \in (old + 1) .. (old + size)
      BY <2>3, <1>1
    <3>2. QED
      BY <3>1, <2>3, <2>9, <2>10
  <2>20. SizeAt(r.heap, r.ptr - 1) >= size
    BY <2>3, <2>7, <2>18
  <2>21. Took(h, H, L, size, r)
    BY <2>1, <2>3, <2>5, <2>8, <2>12, <2>17, <2>18, <2>19, <2>20 DEF Took
  <2>22. QED
    BY <2>21 DEF r
<1>6. QED
  BY <1>4, <1>5

\* malloc finds no memory and changes nothing, or takes a block that is large
\* enough and that the guest does not own yet.
LEMMA MallocOfFacts ==
  ASSUME NEW h, NEW H, NEW L, WellFormed(h, H, L),
         NEW size \in Nat, size < Word - 1
  PROVE  \/ MallocOf(h, size) = Result(h, NULL)
         \/ size # 0 /\ Took(h, H, L, size, MallocOf(h, size))
<1> DEFINE r == MallocOf(h, size)
           n == LastTurn(h, size)
<1>1. CASE size = 0
  BY <1>1 DEF MallocOf
<1>2. CASE size # 0
  <2>1. size % Word = size
    BY Wrap
  <2>2. r = IF Trail(h)[n] # NULL THEN Result(Unlink(h, n), Trail(h)[n] + 1) ELSE Grow(h, size)
    BY <1>2, <2>1 DEF MallocOf
  <2>3. PICK k \in Nat : \E f \in [0 .. k -> Int] :
          IsChain(h, f, k) /\ Through(f, k, Headers(H \ L))
    BY DEF WellFormed
  <2>4. PICK f \in [0 .. k -> Int] : IsChain(h, f, k) /\ Through(f, k, Headers(H \ L))
    BY <2>3
  <2>5. k \in Visits /\ h \in HeapType
    BY <2>4, ChainFits DEF WellFormed
  <2>6. /\ n \in 0 .. k
        /\ n = k => Trail(h)[n] = NULL
        /\ n < k => Trail(h)[n] = f[n] /\ LargeEnough(h, f[n], size)
        /\ 0 < n => Trail(h)[n - 1] = f[n - 1]
    BY <2>4, <2>5, LastTurnFacts
  <2> HIDE DEF n
  <2>7. CASE n = k
    <3>1. r = Grow(h, size)
      BY <2>2, <2>6, <2>7
    <3>2. QED
      BY <3>1, <1>2, GrowFacts
  <2>8. CASE n # k
    <3>1. n \in 0 .. (k - 1) /\ Trail(h)[n] = f[n] /\ LargeEnough(h, f[n], size)
      BY <2>6, <2>8
    <3>2. f[n] \in Cell /\ f[n] # NULL /\ f[n] \in Nat
      BY <3>1, <2>4, CellFacts DEF IsChain
    <3>3. r = Result(Unlink(h, n), f[n] + 1)
      BY <2>2, <3>1, <3>2
    <3> DEFINE t == Unlink(h, n)
    <3>4. /\ f[n] + 1 \in H \ L
          /\ WellFormed(t, H, L \cup {f[n] + 1})
          /\ t.heap_end = h.heap_end
          /\ \A c \in Cell : c + 1 \notin H => t.mem[c] = h.mem[c]
          /\ \A c : SizeAt(t, c) = SizeAt(h, c)
      <4>1. WellFormed(t, H, L \cup {f[n] + 1})
        BY <2>4, <2>6, <3>1, UnlinkFacts
      <4>2. QED
        BY <4>1, <2>4, <2>6, <3>1, UnlinkFacts
    <3> HIDE DEF t
    <3>5. r.ptr = f[n] + 1 /\ r.heap = t /\ r.ptr - 1 = f[n] /\ r.ptr # NULL
      BY <3>2, <3>3 DEF t, Result, NULL
    <3> HIDE DEF r
    <3>6. H \cup {r.ptr} = H
      BY <3>4, <3>5
    <3>7. SizeAt(r.heap, r.ptr - 1) >= size
      BY <3>1, <3>4, <3>5 DEF LargeEnough
    <3>8. Took(h, H, L, size, r)
      BY <3>4, <3>5, <3>6, <3>7 DEF Took
    <3>9. QED
      BY <3>8, <1>2 DEF r
  <2>9. QED
    BY <2>7, <2>8
<1>3. QED
  BY <1>1, <1>2

-----------------------------------------------------------------------------
(* What the guest knows *)

AreaType ==
  [kind : {"block", "break", "inherited"}, ptr : HeapBase .. MemSize,
   size : Nat, kept : Nat, tag : Nat]

BlocksOf(A) == {a \in A : a.kind = "block"}
BreaksOf(A) == {a \in A : a.kind = "break"}
OwnOf(A) == {a \in A : a.kind # "inherited"}
Live(A) == {a.ptr : a \in BlocksOf(A)}

\* The cells the guest may write to.
Data(a) == a.ptr .. (a.ptr + a.size - 1)

\* Each block the guest owns is one of H and large enough; what it got from
\* sbrk or brk lies below the break, apart from every block and each other.
Fits(h, H, A) ==
  /\ A \subseteq AreaType
  /\ \A a \in A : a.kept <= a.size
  /\ \A a \in BlocksOf(A) : a.ptr \in H /\ a.size <= SizeAt(h, a.ptr - 1)
  /\ \A a, b \in BlocksOf(A) : a.ptr = b.ptr => a = b
  /\ \A a \in BreaksOf(A) :
       /\ a.ptr + a.size <= h.heap_end
       /\ \A p \in H : p + SizeAt(h, p - 1) <= a.ptr \/ a.ptr + a.size < p
       /\ \A b \in BreaksOf(A) : \/ a = b
                                 \/ a.ptr + a.size <= b.ptr
                                 \/ b.ptr + b.size <= a.ptr

Holds(h, a) == \A c \in a.ptr .. (a.ptr + a.kept - 1) : h.mem[c] = <<a.tag, a.tag>>

Kept(h, A) == \A a \in OwnOf(A) : Holds(h, a)

\* What an area the guest owns holds is below the break, and no header.
LEMMA OwnData ==
  ASSUME NEW h \in HeapType, NEW H, NEW L, NEW A, Layout(h, H, L), Fits(h, H, A),
         NEW a \in OwnOf(A), NEW c \in Data(a)
  PROVE  c \in Cell /\ c < h.heap_end /\ c + 1 \notin H
<1>1. /\ a.ptr \in Nat /\ a.ptr >= HeapBase /\ a.size \in Nat /\ c \in Nat
      /\ a.ptr <= c /\ c < a.ptr + a.size
      /\ a \in BlocksOf(A) \/ a \in BreaksOf(A)
  BY CellFacts DEF OwnOf, BlocksOf, BreaksOf, Fits, AreaType, Data
<1>2. /\ \A p \in H : /\ p \in Nat /\ p - 1 \in Cell /\ p \in Cell
                      /\ SizeAt(h, p - 1) \in Nat \ {0}
                      /\ p + SizeAt(h, p - 1) <= h.heap_end
      /\ h.heap_end \in Nat /\ h.heap_end <= MemSize /\ h.heap_end >= HeapBase
  BY LayoutFacts
<1>3. CASE a \in BlocksOf(A)
  <2>1. a.ptr \in H /\ a.size <= SizeAt(h, a.ptr - 1)
    BY <1>3 DEF Fits
  <2>2. c < h.heap_end
    BY <1>1, <1>2, <2>1
  <2>3. ASSUME NEW q \in H, q = c + 1
        PROVE  FALSE
    <3>1. a.ptr < q
      BY <2>3, <1>1, <1>2
    <3>2. a.ptr + SizeAt(h, a.ptr - 1) < q
      BY <2>1, <3>1 DEF Layout
    <3>3. QED
      BY <2>1, <2>3, <3>2, <1>1, <1>2
  <2>4. QED
    BY <2>2, <2>3, <1>1, <1>2, CellFacts DEF Cell
<1>4. CASE a \in BreaksOf(A)
  <2>1. a.ptr + a.size <= h.heap_end
    BY <1>4 DEF Fits
  <2>2. c < h.heap_end
    BY <1>1, <1>2, <2>1
  <2>3. ASSUME NEW q \in H, q = c + 1
        PROVE  FALSE
    <3>1. q + SizeAt(h, q - 1) <= a.ptr \/ a.ptr + a.size < q
      BY <1>4 DEF Fits
    <3>2. QED
      BY <2>3, <3>1, <1>1, <1>2
  <2>4. QED
    BY <2>2, <2>3, <1>1, <1>2, CellFacts DEF Cell
<1>5. QED
  BY <1>1, <1>3, <1>4

\* Two areas the guest owns lie apart, the headers of blocks included.
LEMMA OwnApart ==
  ASSUME NEW h \in HeapType, NEW H, NEW L, NEW A, Layout(h, H, L), Fits(h, H, A),
         NEW a \in OwnOf(A), NEW b \in OwnOf(A), a # b
  PROVE  Extent(a) \cap Extent(b) = {}
<1>1. ASSUME NEW x \in OwnOf(A)
      PROVE  /\ x.ptr \in Nat /\ x.size \in Nat
             /\ \/ x \in BlocksOf(A) /\ x.kind = "block"
                \/ x \in BreaksOf(A) /\ x.kind # "block"
  BY CellFacts DEF OwnOf, BlocksOf, BreaksOf, Fits, AreaType
<1>2. \A p \in H : p \in Nat /\ SizeAt(h, p - 1) \in Nat \ {0}
  BY LayoutFacts
<1>3. ASSUME NEW x \in BlocksOf(A), NEW y \in BlocksOf(A), x # y, x \in OwnOf(A), y \in OwnOf(A)
      PROVE  Extent(x) \cap Extent(y) = {}
  <2>1. /\ x.ptr \in H /\ y.ptr \in H /\ x.ptr # y.ptr
        /\ x.size <= SizeAt(h, x.ptr - 1) /\ y.size <= SizeAt(h, y.ptr - 1)
    BY <1>3 DEF Fits
  <2>2. \/ x.ptr + SizeAt(h, x.ptr - 1) < y.ptr
        \/ y.ptr + SizeAt(h, y.ptr - 1) < x.ptr
    <3>1. x.ptr < y.ptr \/ y.ptr < x.ptr
      BY <2>1, <1>1, <1>3
    <3>2. \A p, q \in H : p < q => p + SizeAt(h, p - 1) < q
      BY DEF Layout
    <3>3. QED
      BY <2>1, <3>1, <3>2
  <2>3. x.ptr + x.size < y.ptr \/ y.ptr + y.size < x.ptr
    BY <2>1, <2>2, <1>1, <1>2, <1>3
  <2>4. QED
    BY <2>3, <1>1, <1>3 DEF Extent
<1>4. ASSUME NEW x \in BlocksOf(A), NEW y \in BreaksOf(A), x \in OwnOf(A), y \in OwnOf(A),
             y.kind # "block", x.kind = "block"
      PROVE  Extent(x) \cap Extent(y) = {}
  <2>1. x.ptr \in H /\ x.size <= SizeAt(h, x.ptr - 1)
    BY DEF Fits
  <2>2. x.ptr + SizeAt(h, x.ptr - 1) <= y.ptr \/ y.ptr + y.size < x.ptr
    BY <2>1 DEF Fits
  <2>3. x.ptr + x.size <= y.ptr \/ y.ptr + y.size <= x.ptr - 1
    BY <2>1, <2>2, <1>1, <1>2, <1>4
  <2>4. QED
    BY <2>3, <1>1, <1>4 DEF Extent
<1>5. ASSUME a \in BreaksOf(A), b \in BreaksOf(A), a.kind # "block", b.kind # "block"
      PROVE  Extent(a) \cap Extent(b) = {}
  <2>1. a.ptr + a.size <= b.ptr \/ b.ptr + b.size <= a.ptr
    BY <1>5 DEF Fits
  <2>2. QED
    BY <2>1, <1>1, <1>5 DEF Extent
<1>6. QED
  BY <1>1, <1>3, <1>4, <1>5

\* Writing to data leaves a heap well formed.
LEMMA DataWritten ==
  ASSUME NEW h, NEW H, NEW L, WellFormed(h, H, L), NEW t \in HeapType,
         t.free_list_head = h.free_list_head,
         \A p \in H : t.mem[p - 1] = h.mem[p - 1] /\ p + SizeAt(h, p - 1) <= t.heap_end
  PROVE  /\ WellFormed(t, H, L)
         /\ \A p \in H : SizeAt(t, p - 1) = SizeAt(h, p - 1)
<1>1. \A p \in H : p - 1 \in Cell
  BY DEF WellFormed, Layout
<1>2. \A p \in H : SizeAt(t, p - 1) = SizeAt(h, p - 1) /\ NextAt(t, p - 1) = NextAt(h, p - 1)
  BY <1>1 DEF SizeAt, NextAt, Read
<1>3. QED
  BY <1>2, SameHeaders

\* Areas stay as they are when the heap changes around them: the blocks keep
\* their sizes, the data stays, and a new block is above the old break.
LEMMA Carried ==
  ASSUME NEW h, NEW H, NEW L, NEW A, WellFormed(h, H, L), Fits(h, H, A), Kept(h, A),
         NEW t \in HeapType, NEW H2, t.heap_end >= h.heap_end,
         H \subseteq H2, \A p \in H2 \ H : p \in Nat /\ p > h.heap_end,
         \A p \in H : SizeAt(t, p - 1) = SizeAt(h, p - 1),
         \A a \in OwnOf(A) : \A c \in Data(a) : t.mem[c] = h.mem[c]
  PROVE  Fits(t, H2, A) /\ Kept(t, A)
<1>1. \A a \in A : /\ a.ptr \in Nat /\ a.size \in Nat /\ a.kept \in Nat /\ a.kept <= a.size
  BY CellFacts DEF Fits, AreaType
<1>2. h.heap_end \in Nat /\ t.heap_end \in Nat
  BY CellFacts DEF WellFormed, HeapType
<1>3. ASSUME NEW a \in BreaksOf(A)
      PROVE  /\ a.ptr + a.size <= t.heap_end
             /\ \A p \in H2 : p + SizeAt(t, p - 1) <= a.ptr \/ a.ptr + a.size < p
  <2>1. a \in A /\ a.ptr + a.size <= h.heap_end
    BY DEF BreaksOf, Fits
  <2>2. ASSUME NEW p \in H2
        PROVE  p + SizeAt(t, p - 1) <= a.ptr \/ a.ptr + a.size < p
    <3>1. CASE p \in H
      BY <3>1 DEF Fits
    <3>2. CASE p \notin H
      BY <3>2, <1>1, <1>2, <2>1
    <3>3. QED
      BY <3>1, <3>2
  <2>3. QED
    BY <1>1, <1>2, <2>1, <2>2
<1>4. \A a \in BlocksOf(A) : a.ptr \in H2 /\ a.size <= SizeAt(t, a.ptr - 1)
  BY DEF Fits
<1>5. Fits(t, H2, A)
  BY <1>3, <1>4 DEF Fits
<1>6. ASSUME NEW a \in OwnOf(A), NEW c \in a.ptr .. (a.ptr + a.kept - 1)
      PROVE  t.mem[c] = <<a.tag, a.tag>>
  <2>1. c \in Data(a)
    BY <1>1 DEF Data, OwnOf
  <2>2. QED
    BY <2>1 DEF Kept, Holds
<1>7. QED
  BY <1>5, <1>6 DEF Kept, Holds

\* One more block.
LEMMA BlockAdded ==
  ASSUME NEW h, NEW H, NEW A, Fits(h, H, A), Kept(h, A),
         NEW n \in AreaType, n.kind = "block", n.kept <= n.size,
         n.ptr \in H, n.ptr \notin Live(A), n.size <= SizeAt(h, n.ptr - 1),
         Holds(h, n)
  PROVE  /\ Fits(h, H, A \cup {n})
         /\ Kept(h, A \cup {n})
         /\ Live(A \cup {n}) = Live(A) \cup {n.ptr}
<1>1. BlocksOf(A \cup {n}) = BlocksOf(A) \cup {n}
  BY DEF BlocksOf
<1>2. BreaksOf(A \cup {n}) = BreaksOf(A)
  BY DEF BreaksOf
<1>3. OwnOf(A \cup {n}) = OwnOf(A) \cup {n}
  BY DEF OwnOf
<1>4. \A a \in BlocksOf(A) : a.ptr # n.ptr
  BY DEF Live
<1>5. Fits(h, H, A \cup {n})
  BY <1>1, <1>2, <1>4 DEF Fits
<1>6. Kept(h, A \cup {n})
  BY <1>3 DEF Kept
<1>7. QED
  BY <1>1, <1>5, <1>6 DEF Live

\* Fewer areas.
LEMMA AreasDropped ==
  ASSUME NEW h, NEW H, NEW A, Fits(h, H, A), Kept(h, A), NEW A2 \in SUBSET A
  PROVE  Fits(h, H, A2) /\ Kept(h, A2)
BY DEF Fits, Kept, OwnOf, BlocksOf, BreaksOf

\* The areas stay as they are when malloc takes a block.
LEMMA TookKeeps ==
  ASSUME NEW h, NEW H, NEW A, WellFormed(h, H, Live(A)), Fits(h, H, A), Kept(h, A),
         NEW size \in Nat, NEW r, Took(h, H, Live(A), size, r)
  PROVE  /\ Fits(r.heap, H \cup {r.ptr}, A) /\ Kept(r.heap, A)
         /\ r.heap \in HeapType /\ r.ptr \in Cell /\ r.ptr \in HeapBase .. MemSize
         /\ \A a \in OwnOf(A) : \A c \in Data(a) : r.heap.mem[c] = h.mem[c]
<1> DEFINE t == r.heap
           H2 == H \cup {r.ptr}
<1>1. /\ WellFormed(t, H2, Live(A) \cup {r.ptr})
      /\ \A p \in H : SizeAt(t, p - 1) = SizeAt(h, p - 1)
      /\ \A c \in Cell : c < h.heap_end /\ c + 1 \notin H => t.mem[c] = h.mem[c]
      /\ \/ r.ptr \in H /\ t.heap_end = h.heap_end
         \/ r.ptr = h.heap_end + 1 /\ t.heap_end = h.heap_end + 1 + size
  BY DEF Took
<1>2. t \in HeapType /\ h \in HeapType /\ Layout(h, H, Live(A)) /\ Layout(t, H2, Live(A) \cup {r.ptr})
  BY <1>1 DEF WellFormed
<1>3. h.heap_end \in Nat
  BY <1>2, CellFacts DEF HeapType
<1>4. r.ptr \in Cell /\ r.ptr \in HeapBase .. MemSize
  <2>1. r.ptr \in H2
    OBVIOUS
  <2>2. r.ptr \in Cell
    BY <1>2, <2>1, LayoutFacts
  <2>3. r.ptr \in HeapBase .. MemSize
    BY <2>2, HeapAssumption DEF Cell
  <2>4. QED
    BY <2>2, <2>3
<1>5. t.heap_end >= h.heap_end /\ \A p \in H2 \ H : p \in Nat /\ p > h.heap_end
  BY <1>1, <1>3
<1>6. ASSUME NEW a \in OwnOf(A), NEW c \in Data(a)
      PROVE  t.mem[c] = h.mem[c]
  BY <1>1, <1>2, OwnData
<1> HIDE DEF t
<1>7. Fits(t, H2, A) /\ Kept(t, A)
  BY <1>1, <1>2, <1>5, <1>6, Carried
<1>8. QED
  BY <1>2, <1>4, <1>6, <1>7 DEF t

\* malloc and calloc: the new area, zero as far as it is fresh.
LEMMA NewBlock ==
  ASSUME NEW h, NEW H, NEW A, WellFormed(h, H, Live(A)), Fits(h, H, A), Kept(h, A),
         NEW size \in Nat, NEW r, Took(h, H, Live(A), size, r),
         NEW kept \in {0, size}, kept = 0 \/ r.heap.heap_end # h.heap_end,
         NEW n, n = Area("block", r.ptr, size, kept, 0)
  PROVE  /\ WellFormed(r.heap, H \cup {r.ptr}, Live(A \cup {n}))
         /\ Fits(r.heap, H \cup {r.ptr}, A \cup {n})
         /\ Kept(r.heap, A \cup {n})
<1>1. /\ Fits(r.heap, H \cup {r.ptr}, A) /\ Kept(r.heap, A)
      /\ r.ptr \in HeapBase .. MemSize /\ r.ptr \in Nat
  BY TookKeeps, CellFacts
<1>2. /\ n \in AreaType /\ n.kind = "block" /\ n.ptr = r.ptr /\ n.size = size
      /\ n.kept = kept /\ n.tag = 0 /\ n.kept <= n.size
  BY <1>1 DEF Area, AreaType
<1>3. n.ptr \notin Live(A) /\ n.size <= SizeAt(r.heap, n.ptr - 1)
  <2>1. SizeAt(r.heap, r.ptr - 1) >= size
    BY DEF Took
  <2>2. WellFormed(r.heap, H \cup {r.ptr}, Live(A) \cup {r.ptr})
    BY DEF Took
  <2>3. SizeAt(r.heap, r.ptr - 1) \in Nat
    BY <2>2 DEF WellFormed, Layout
  <2>4. QED
    BY <1>2, <2>1, <2>3 DEF Took
<1>4. ASSUME NEW c \in n.ptr .. (n.ptr + n.kept - 1)
      PROVE  r.heap.mem[c] = <<n.tag, n.tag>>
  <2>1. kept # 0
    BY <1>1, <1>2, <1>4
  <2>2. c \in r.ptr .. (r.ptr + size - 1) /\ r.heap.heap_end # h.heap_end
    BY <1>2, <2>1
  <2>3. r.heap.mem[c] = ZeroCell
    BY <2>2 DEF Took
  <2>4. QED
    BY <1>2, <2>3 DEF ZeroCell
<1> DEFINE t == r.heap
           H2 == H \cup {r.ptr}
<1>5. n.ptr \in H2
  BY <1>2
<1>6. /\ Fits(t, H2, A \cup {n})
      /\ Kept(t, A \cup {n})
      /\ Live(A \cup {n}) = Live(A) \cup {n.ptr}
  <2>1. /\ Fits(t, H2, A) /\ Kept(t, A)
        /\ n.size <= SizeAt(t, n.ptr - 1)
        /\ Holds(t, n)
    BY <1>1, <1>3, <1>4 DEF Holds
  <2> HIDE DEF t, H2
  <2>2. QED
    BY <1>2, <1>3, <1>5, <2>1, BlockAdded
<1>7. QED
  BY <1>2, <1>6 DEF Took

\* free: the area is gone.
LEMMA Released ==
  ASSUME NEW h, NEW H, NEW A, WellFormed(h, H, Live(A)), Fits(h, H, A), Kept(h, A),
         NEW p \in H, NEW A2, A2 = {a \in A : a.kind # "block" \/ a.ptr # p}
  PROVE  /\ WellFormed(FreeOf(h, p), H, Live(A2))
         /\ Fits(FreeOf(h, p), H, A2)
         /\ Kept(FreeOf(h, p), A2)
<1> DEFINE t == FreeOf(h, p)
<1>1. Live(A2) = Live(A) \ {p}
  BY DEF Live, BlocksOf
<1>2. WellFormed(t, H, Live(A) \ {p})
  BY FreeOfFacts
<1>3. /\ t.heap_end = h.heap_end
      /\ \A c \in Cell : c + 1 \notin H => t.mem[c] = h.mem[c]
      /\ \A c : SizeAt(t, c) = SizeAt(h, c)
  BY <1>2, FreeOfFacts
<1> HIDE DEF t
<1>4. t \in HeapType /\ h \in HeapType /\ Layout(h, H, Live(A)) /\ h.heap_end \in Nat
  BY <1>2, CellFacts DEF WellFormed, HeapType
<1>5. ASSUME NEW a \in OwnOf(A), NEW c \in Data(a)
      PROVE  t.mem[c] = h.mem[c]
  BY <1>3, <1>4, OwnData
<1>6. Fits(t, H, A) /\ Kept(t, A)
  <2>1. t.heap_end >= h.heap_end
    BY <1>3, <1>4
  <2>2. \A q \in H \ H : q \in Nat /\ q > h.heap_end
    OBVIOUS
  <2>3. QED
    BY <1>3, <1>4, <1>5, <2>1, <2>2, Carried
<1>7. A2 \in SUBSET A
  OBVIOUS
<1>8. QED
  BY <1>1, <1>2, <1>6, <1>7, AreasDropped DEF t

\* What realloc copies into the data of a block in use.
LEMMA CopiedFacts ==
  ASSUME NEW h, NEW H, NEW L, WellFormed(h, H, L), NEW q \in H,
         NEW p \in H, NEW n \in Nat, n <= SizeAt(h, q - 1), n <= SizeAt(h, p - 1)
  PROVE  /\ WellFormed(Copied(h, p, q, n), H, L)
         /\ Copied(h, p, q, n).heap_end = h.heap_end
         /\ \A c \in Cell : ~ (q <= c /\ c < q + n) => Copied(h, p, q, n).mem[c] = h.mem[c]
         /\ \A c \in Cell : q <= c /\ c < q + n => Copied(h, p, q, n).mem[c] = h.mem[p + (c - q)]
         /\ \A x \in H : SizeAt(Copied(h, p, q, n), x - 1) = SizeAt(h, x - 1)
<1> DEFINE t == Copied(h, p, q, n)
           mem == [c \in Cell |-> IF c \in q .. (q + n - 1) THEN Read(h, p + (c - q)) ELSE h.mem[c]]
<1>1. h \in HeapType /\ Layout(h, H, L) /\ h.heap_end \in Nat /\ h.heap_end <= MemSize
  BY LayoutFacts DEF WellFormed
<1>2. \A x \in H : /\ x \in Nat /\ x - 1 \in Cell /\ x \in Cell
                   /\ SizeAt(h, x - 1) \in Nat \ {0}
                   /\ x + SizeAt(h, x - 1) <= h.heap_end
  BY <1>1, LayoutFacts
<1>3. \A x : Read(h, x) \in Int \X Int
  BY <1>1 DEF HeapType, Read, ZeroCell
<1>4. mem \in [Cell -> Int \X Int]
  BY <1>1, <1>3 DEF HeapType
<1>5. t = [h EXCEPT !.mem = mem]
  BY DEF Copied
<1>6. /\ \A c \in Cell : ~ (q <= c /\ c < q + n) => mem[c] = h.mem[c]
      /\ \A c \in Cell : q <= c /\ c < q + n => mem[c] = Read(h, p + (c - q))
  BY <1>2, CellFacts
<1> HIDE DEF mem, t
<1>7. t \in HeapType /\ t.heap_end = h.heap_end /\ t.free_list_head = h.free_list_head /\ t.mem = mem
  BY <1>1, <1>4, <1>5 DEF HeapType
<1>8. ASSUME NEW c \in Cell, q <= c, c < q + n
      PROVE  mem[c] = h.mem[p + (c - q)]
  <2>1. p + (c - q) \in Int /\ p <= p + (c - q) /\ p + (c - q) < p + n
    BY <1>2, <1>8, CellFacts
  <2>2. p \in Cell /\ p + n <= h.heap_end
    BY <1>1, <1>2
  <2>3. p + (c - q) < MemSize /\ p + (c - q) >= HeapBase
    BY <1>1, <2>1, <2>2, CellFacts
  <2>4. p + (c - q) \in Cell
    BY <2>1, <2>3, CellFacts DEF Cell
  <2>5. QED
    BY <1>6, <1>8, <2>4 DEF Read
<1>9. ASSUME NEW x \in H
      PROVE  t.mem[x - 1] = h.mem[x - 1] /\ x + SizeAt(h, x - 1) <= t.heap_end
  <2>1. x <= q \/ q + SizeAt(h, q - 1) < x
    <3>1. q < x => q + SizeAt(h, q - 1) < x
      BY <1>1 DEF Layout
    <3>2. QED
      BY <3>1, <1>2
  <2>2. x - 1 \in Cell /\ ~ (q <= x - 1 /\ x - 1 < q + n)
    BY <1>2, <2>1
  <2>3. QED
    BY <1>2, <1>6, <1>7, <2>2
<1>10. WellFormed(t, H, L) /\ \A x \in H : SizeAt(t, x - 1) = SizeAt(h, x - 1)
  BY <1>7, <1>9, DataWritten
<1>11. QED
  BY <1>6, <1>7, <1>8, <1>10 DEF t

\* realloc to a new block: it holds what the old one held, which is free.
MovedHeap(h, a, r) == FreeOf(Copied(r.heap, a.ptr, r.ptr, SizeAt(h, a.ptr - 1)), a.ptr)
MovedAreas(A, a, size, r) == (A \ {a}) \cup {Area("block", r.ptr, size, a.kept, a.tag)}

LEMMA Moved ==
  ASSUME NEW h, NEW H, NEW A, WellFormed(h, H, Live(A)), Fits(h, H, A), Kept(h, A),
         NEW a \in BlocksOf(A), NEW size \in Nat, SizeAt(h, a.ptr - 1) < size,
         NEW r, Took(h, H, Live(A), size, r)
  PROVE  /\ WellFormed(MovedHeap(h, a, r), H \cup {r.ptr}, Live(MovedAreas(A, a, size, r)))
         /\ Fits(MovedHeap(h, a, r), H \cup {r.ptr}, MovedAreas(A, a, size, r))
         /\ Kept(MovedHeap(h, a, r), MovedAreas(A, a, size, r))
<1> PICK old : old = SizeAt(h, a.ptr - 1)
  OBVIOUS
<1> PICK b : b = Area("block", r.ptr, size, a.kept, a.tag)
  OBVIOUS
<1> PICK t : t = FreeOf(Copied(r.heap, a.ptr, r.ptr, old), a.ptr)
  OBVIOUS
<1> PICK A2 : A2 = (A \ {a}) \cup {b}
  OBVIOUS
<1> DEFINE H2 == H \cup {r.ptr}
           L2 == Live(A) \cup {r.ptr}
           g == r.heap
           w == Copied(g, a.ptr, r.ptr, old)
           p == a.ptr
           q == r.ptr
<1>1. /\ p \in H /\ p \in Live(A) /\ a.size <= old /\ a \in AreaType /\ a.kept <= a.size
      /\ a \in OwnOf(A) /\ a \in A /\ a.kind = "block"
  BY DEF Fits, BlocksOf, Live, OwnOf
<1>2. /\ a.size \in Nat /\ a.kept \in Nat /\ a.tag \in Nat
      /\ h \in HeapType /\ Layout(h, H, Live(A))
  BY <1>1 DEF AreaType, WellFormed
<1>3. /\ WellFormed(g, H2, L2) /\ q \notin Live(A) /\ SizeAt(g, q - 1) >= size
      /\ \A x \in H : SizeAt(g, x - 1) = SizeAt(h, x - 1)
  BY DEF Took
<1>4. /\ Fits(g, H2, A) /\ Kept(g, A) /\ g \in HeapType /\ q \in HeapBase .. MemSize
  BY TookKeeps
<1>5. /\ old \in Nat /\ old <= SizeAt(g, p - 1) /\ old <= SizeAt(g, q - 1)
      /\ SizeAt(g, q - 1) \in Nat /\ p \in H2 /\ q \in H2 /\ p \in Nat /\ q \in Nat
  <2>1. SizeAt(h, p - 1) \in Nat /\ SizeAt(g, q - 1) \in Nat /\ p \in H2 /\ q \in H2
    BY <1>1, <1>2, <1>3 DEF WellFormed, Layout
  <2>2. H2 \subseteq Nat
    BY <1>3 DEF WellFormed, Layout
  <2>3. QED
    BY <1>1, <1>3, <2>1, <2>2
<1> HIDE DEF g, H2, L2
<1>6. WellFormed(w, H2, L2)
  BY <1>3, <1>5, CopiedFacts
<1>7. /\ w.heap_end = g.heap_end
      /\ \A c \in Cell : ~ (q <= c /\ c < q + old) => w.mem[c] = g.mem[c]
      /\ \A c \in Cell : q <= c /\ c < q + old => w.mem[c] = g.mem[p + (c - q)]
      /\ \A x \in H2 : SizeAt(w, x - 1) = SizeAt(g, x - 1)
  BY <1>3, <1>5, CopiedFacts
<1> HIDE DEF w
<1>8. t = FreeOf(w, p)
  BY DEF w, g
<1>9. WellFormed(t, H2, L2 \ {p})
  BY <1>5, <1>6, <1>8, FreeOfFacts
<1>10. /\ t.heap_end = w.heap_end
       /\ \A c \in Cell : c + 1 \notin H2 => t.mem[c] = w.mem[c]
       /\ \A c : SizeAt(t, c) = SizeAt(w, c)
  <2> DEFINE z == FreeOf(w, p)
  <2>1. /\ z.heap_end = w.heap_end
        /\ \A c \in Cell : c + 1 \notin H2 => z.mem[c] = w.mem[c]
        /\ \A c : SizeAt(z, c) = SizeAt(w, c)
    BY <1>5, <1>6, FreeOfFacts
  <2>2. QED
    BY <1>8, <2>1
<1>11. t \in HeapType /\ Layout(g, H2, L2) /\ g.heap_end \in Nat /\ g.heap_end <= MemSize
  BY <1>3, <1>9, LayoutFacts DEF WellFormed
<1>12. ASSUME NEW x \in OwnOf(A), NEW c \in Data(x)
       PROVE  t.mem[c] = g.mem[c]
  <2>1. c \in Cell /\ c + 1 \notin H2
    BY <1>3, <1>4, <1>11, OwnData
  <2>2. ~ (q <= c /\ c < q + old)
    <3>1. /\ x.ptr \in Nat /\ x.size \in Nat /\ x.ptr <= c /\ c < x.ptr + x.size /\ c \in Nat
          /\ x \in BlocksOf(A) \/ x \in BreaksOf(A)
      BY <2>1, <1>4, CellFacts DEF OwnOf, BlocksOf, BreaksOf, Fits, AreaType, Data
    <3>2. CASE x \in BlocksOf(A)
      <4>1. x.ptr \in H2 /\ x.size <= SizeAt(g, x.ptr - 1) /\ x.ptr # q /\ SizeAt(g, x.ptr - 1) \in Nat
        BY <3>2, <1>3, <1>4, <1>11 DEF Fits, Live, Layout
      <4>2. /\ x.ptr < q => x.ptr + SizeAt(g, x.ptr - 1) < q
            /\ q < x.ptr => q + SizeAt(g, q - 1) < x.ptr
        BY <4>1, <1>5, <1>11 DEF Layout
      <4>3. QED
        BY <3>1, <4>1, <4>2, <1>5
    <3>3. CASE x \in BreaksOf(A)
      <4>1. q + SizeAt(g, q - 1) <= x.ptr \/ x.ptr + x.size < q
        BY <3>3, <1>4, <1>5 DEF Fits
      <4>2. QED
        BY <3>1, <4>1, <1>5
    <3>4. QED
      BY <3>1, <3>2, <3>3
  <2>3. QED
    BY <2>1, <2>2, <1>7, <1>10
<1>13. \A x \in H2 : SizeAt(t, x - 1) = SizeAt(g, x - 1)
  BY <1>7, <1>10
<1>14. Fits(t, H2, A) /\ Kept(t, A)
  <2>1. t.heap_end >= g.heap_end
    BY <1>7, <1>10, <1>11
  <2>2. WellFormed(g, H2, Live(A) \cup {q})
    BY <1>3 DEF L2
  <2>3. \A y \in H2 \ H2 : y \in Nat /\ y > g.heap_end
    OBVIOUS
  <2>4. QED
    BY <2>1, <2>2, <2>3, <1>4, <1>11, <1>12, <1>13, Carried
<1> DEFINE A1 == A \ {a}
<1>15. Fits(t, H2, A1) /\ Kept(t, A1)
  <2>1. A1 \in SUBSET A
    OBVIOUS
  <2>2. QED
    BY <2>1, <1>14, AreasDropped
<1>16. Live(A1) = Live(A) \ {p}
  <2>1. \A x \in BlocksOf(A) : x.ptr = p => x = a
    BY DEF Fits
  <2>2. QED
    BY <2>1, <1>1 DEF Live, BlocksOf
<1>17. /\ b \in AreaType /\ b.kind = "block" /\ b.ptr = q /\ b.size = size
       /\ b.kept = a.kept /\ b.tag = a.tag /\ b.kept <= b.size
  BY <1>1, <1>2, <1>4, <1>5 DEF Area, AreaType
<1>18. b.ptr \in H2 /\ b.ptr \notin Live(A1) /\ b.size <= SizeAt(t, b.ptr - 1)
  BY <1>3, <1>5, <1>13, <1>16, <1>17
<1>19. Holds(t, b)
  <2>1. SUFFICES ASSUME NEW c \in q .. (q + a.kept - 1)
                 PROVE  t.mem[c] = <<a.tag, a.tag>>
    BY <1>17 DEF Holds
  <2>2. c \in Nat /\ q <= c /\ c < q + old /\ c < q + a.kept
    BY <1>1, <1>2, <1>5
  <2>3. q + SizeAt(g, q - 1) <= g.heap_end
    BY <1>5, <1>11 DEF Layout
  <2>4. c < g.heap_end
    BY <2>2, <2>3, <1>5, <1>11
  <2>5. c \in Cell
    BY <2>2, <2>4, <1>4, <1>5, <1>11, CellFacts DEF Cell
  <2>6. c + 1 \notin H2
    <3>1. \A x \in H2 : q < x => q + SizeAt(g, q - 1) < x
      BY <1>5, <1>11 DEF Layout
    <3>2. QED
      BY <3>1, <2>2, <1>5
  <2>7. t.mem[c] = g.mem[p + (c - q)]
    BY <2>2, <2>5, <2>6, <1>7, <1>10
  <2>8. p + (c - q) \in p .. (p + a.kept - 1)
    BY <2>2, <1>2, <1>5
  <2>9. Holds(g, a)
    BY <1>1, <1>4 DEF Kept
  <2>10. QED
    BY <2>7, <2>8, <2>9 DEF Holds
<1>20. /\ Fits(t, H2, A1 \cup {b}) /\ Kept(t, A1 \cup {b})
       /\ Live(A1 \cup {b}) = Live(A1) \cup {b.ptr}
  <2> HIDE DEF A1
  <2>1. QED
    BY <1>15, <1>17, <1>18, <1>19, BlockAdded
<1>21. Live(A2) = L2 \ {p}
  BY <1>1, <1>3, <1>16, <1>17, <1>20 DEF L2
<1>22. /\ WellFormed(t, H \cup {r.ptr}, Live(A2))
       /\ Fits(t, H \cup {r.ptr}, A2)
       /\ Kept(t, A2)
  BY <1>9, <1>20, <1>21 DEF H2
<1>23. t = MovedHeap(h, a, r) /\ A2 = MovedAreas(A, a, size, r)
  BY DEF MovedHeap, MovedAreas
<1>24. QED
  BY <1>22, <1>23

-----------------------------------------------------------------------------
(* The invariant *)

IInv ==
  /\ WellFormed(heap, handed, Live(areas))
  /\ Fits(heap, handed, areas)
  /\ Kept(heap, areas)

\* A heap without blocks and with an empty list.
LEMMA Empty ==
  ASSUME NEW h \in HeapType, h.free_list_head = NULL
  PROVE  WellFormed(h, {}, {})
<1> DEFINE f == [i \in 0 .. 0 |-> NULL]
<1>1. IsChain(h, f, 0)
  BY DEF IsChain, NULL
<1>2. Through(f, 0, Headers({} \ {}))
  BY DEF Through, Headers
<1>3. f \in [0 .. 0 -> Int] /\ 0 \in Nat
  BY DEF NULL
<1>4. Layout(h, {}, {})
  BY DEF Layout
<1> HIDE DEF f
<1>5. QED
  BY <1>1, <1>2, <1>3, <1>4 DEF WellFormed

LEMMA InitIInv == Init => IInv
<1> SUFFICES ASSUME Init PROVE IInv
  OBVIOUS
<1>1. heap \in HeapType /\ heap.free_list_head = NULL
  BY CellFacts DEF Init, HeapType, ZeroCell, NULL
<1>2. handed = {} /\ Live(areas) = {} /\ areas = {}
  BY DEF Init, Live, BlocksOf
<1>3. WellFormed(heap, handed, Live(areas))
  BY <1>1, <1>2, Empty
<1>4. QED
  BY <1>2, <1>3 DEF IInv, Fits, Kept, OwnOf, BlocksOf, BreaksOf

\* The sizes a guest asks for, and the pointer it gets.
LEMMA SizeFacts ==
  ASSUME ClearOfWrap, NEW size \in Sizes
  PROVE  size \in Nat /\ size < Word - 1
BY HeapAssumption, Wrap DEF ClearOfWrap

LEMMA HandedFacts ==
  ASSUME NEW ptr, Handed(ptr)
  PROVE  handed' = IF ptr = NULL THEN handed ELSE handed \cup {ptr}
BY DEF Handed

LEMMA MallocStep ==
  ASSUME ClearOfWrap, IInv, Malloc
  PROVE  IInv'
<1>1. PICK size \in Sizes :
        /\ heap' = MallocOf(heap, size).heap
        /\ areas' = areas \cup IF MallocOf(heap, size).ptr = NULL THEN {}
                               ELSE {Area("block", MallocOf(heap, size).ptr, size, 0, 0)}
        /\ Handed(MallocOf(heap, size).ptr)
  BY DEF Malloc
<1> DEFINE r == MallocOf(heap, size)
           n == Area("block", r.ptr, size, 0, 0)
<1>2. size \in Nat /\ size < Word - 1
  BY SizeFacts
<1>3. r = Result(heap, NULL) \/ Took(heap, handed, Live(areas), size, r)
  BY <1>2, MallocOfFacts DEF IInv
<1>4. /\ heap' = r.heap
      /\ areas' = areas \cup IF r.ptr = NULL THEN {} ELSE {n}
      /\ handed' = IF r.ptr = NULL THEN handed ELSE handed \cup {r.ptr}
  BY <1>1, HandedFacts
<1> HIDE DEF r
<1>5. CASE r = Result(heap, NULL)
  BY <1>4, <1>5 DEF Result, IInv
<1>6. CASE Took(heap, handed, Live(areas), size, r)
  <2>1. areas' = areas \cup {n} /\ handed' = handed \cup {r.ptr}
    BY <1>4, <1>6 DEF Took
  <2>2. /\ WellFormed(r.heap, handed \cup {r.ptr}, Live(areas \cup {n}))
        /\ Fits(r.heap, handed \cup {r.ptr}, areas \cup {n})
        /\ Kept(r.heap, areas \cup {n})
    <3>1. 0 \in {0, size}
      OBVIOUS
    <3>2. QED
      BY <1>2, <1>6, <3>1, NewBlock DEF IInv
  <2>3. QED
    BY <1>4, <2>1, <2>2 DEF IInv
<1>7. QED
  BY <1>3, <1>5, <1>6

LEMMA CallocStep ==
  ASSUME ClearOfWrap, IInv, Calloc
  PROVE  IInv'
<1> DEFINE zeros(s) == IF MallocOf(heap, s).heap.heap_end = heap.heap_end THEN 0 ELSE s
<1>1. PICK size \in Sizes :
        /\ heap' = MallocOf(heap, size).heap
        /\ areas' = areas \cup IF MallocOf(heap, size).ptr = NULL THEN {}
                               ELSE {Area("block", MallocOf(heap, size).ptr, size, zeros(size), 0)}
        /\ Handed(MallocOf(heap, size).ptr)
  BY DEF Calloc
<1> DEFINE r == MallocOf(heap, size)
           kept == zeros(size)
           n == Area("block", r.ptr, size, kept, 0)
<1>2. size \in Nat /\ size < Word - 1
  BY SizeFacts
<1>3. r = Result(heap, NULL) \/ Took(heap, handed, Live(areas), size, r)
  BY <1>2, MallocOfFacts DEF IInv
<1>4. /\ heap' = r.heap
      /\ areas' = areas \cup IF r.ptr = NULL THEN {} ELSE {n}
      /\ handed' = IF r.ptr = NULL THEN handed ELSE handed \cup {r.ptr}
  BY <1>1, HandedFacts
<1>5. kept \in {0, size} /\ (kept = 0 \/ r.heap.heap_end # heap.heap_end)
  OBVIOUS
<1> HIDE DEF r, kept
<1>6. CASE r = Result(heap, NULL)
  BY <1>4, <1>6 DEF Result, IInv
<1>7. CASE Took(heap, handed, Live(areas), size, r)
  <2>1. areas' = areas \cup {n} /\ handed' = handed \cup {r.ptr}
    BY <1>4, <1>7 DEF Took
  <2>2. /\ WellFormed(r.heap, handed \cup {r.ptr}, Live(areas \cup {n}))
        /\ Fits(r.heap, handed \cup {r.ptr}, areas \cup {n})
        /\ Kept(r.heap, areas \cup {n})
    BY <1>2, <1>5, <1>7, NewBlock DEF IInv
  <2>3. QED
    BY <1>4, <2>1, <2>2 DEF IInv
<1>8. QED
  BY <1>3, <1>6, <1>7

LEMMA FreeStep ==
  ASSUME IInv, Free
  PROVE  IInv'
<1>1. PICK p \in handed :
        /\ heap' = FreeOf(heap, p)
        /\ areas' = {a \in areas : a.kind # "block" \/ a.ptr # p}
  BY DEF Free
<1>2. handed' = handed
  BY DEF Free
<1>3. /\ WellFormed(FreeOf(heap, p), handed, Live(areas'))
      /\ Fits(FreeOf(heap, p), handed, areas')
      /\ Kept(FreeOf(heap, p), areas')
  <2>1. PICK A2 : A2 = areas'
    OBVIOUS
  <2>2. A2 = {a \in areas : a.kind # "block" \/ a.ptr # p}
    BY <1>1, <2>1
  <2>3. QED
    BY <2>1, <2>2, Released DEF IInv
<1>4. QED
  BY <1>1, <1>2, <1>3 DEF IInv

LEMMA ReallocStep ==
  ASSUME ClearOfWrap, IInv, Realloc
  PROVE  IInv'
<1> DEFINE b(a, size) == Area("block", ReallocOf(heap, a.ptr, size).ptr, size,
                              IF a.kept < size THEN a.kept ELSE size, a.tag)
<1>1. PICK a \in Blocks, size \in Sizes :
        /\ heap' = ReallocOf(heap, a.ptr, size).heap
        /\ areas' = IF size = 0 THEN areas \ {a}
                    ELSE IF ReallocOf(heap, a.ptr, size).ptr = NULL THEN areas
                    ELSE (areas \ {a}) \cup {b(a, size)}
        /\ Handed(ReallocOf(heap, a.ptr, size).ptr)
  BY DEF Realloc
<1> DEFINE p == a.ptr
           old == SizeAt(heap, p - 1)
           new == MallocOf(heap, size)
           r == ReallocOf(heap, p, size)
           n == b(a, size)
<1>2. size \in Nat /\ size < Word - 1
  BY SizeFacts
<1>3. /\ a \in BlocksOf(areas) /\ a \in areas /\ a.kind = "block" /\ p \in handed
      /\ a \in AreaType /\ a.size \in Nat /\ a.kept \in Nat /\ a.tag \in Nat
      /\ a.kept <= a.size /\ a.size <= old /\ a \in OwnOf(areas) /\ a.ptr \in HeapBase .. MemSize
      /\ \A x \in BlocksOf(areas) : x.ptr = p => x = a
  BY DEF IInv, Fits, Blocks, BlocksOf, OwnOf, AreaType
<1>4. /\ heap \in HeapType /\ Layout(heap, handed, Live(areas))
      /\ WellFormed(heap, handed, Live(areas))
      /\ Fits(heap, handed, areas) /\ Kept(heap, areas)
  BY DEF IInv, WellFormed
<1>5. old \in Nat /\ p \in Nat /\ p # NULL
  <2>1. p \in Nat /\ old \in Nat /\ p \in Cell
    BY <1>3, <1>4, LayoutFacts
  <2>2. QED
    BY <2>1, CellFacts
<1>6. /\ heap' = r.heap
      /\ areas' = IF size = 0 THEN areas \ {a} ELSE IF r.ptr = NULL THEN areas
                  ELSE (areas \ {a}) \cup {n}
      /\ handed' = IF r.ptr = NULL THEN handed ELSE handed \cup {r.ptr}
  BY <1>1, HandedFacts
<1>7. r = IF size = 0 THEN Result(FreeOf(heap, p), NULL)
          ELSE IF size <= old THEN Result(heap, p)
          ELSE IF new.ptr = NULL THEN new
          ELSE Result(FreeOf(Copied(new.heap, p, new.ptr, old), p), new.ptr)
  BY DEF ReallocOf
<1>8. n = Area("block", r.ptr, size, IF a.kept < size THEN a.kept ELSE size, a.tag)
  OBVIOUS
<1> HIDE DEF r, b, old, new
\* Size 0 frees the block.
<1>9. CASE size = 0
  <2>1. r.ptr = NULL /\ r.heap = FreeOf(heap, p)
    BY <1>7, <1>9 DEF Result
  <2>2. heap' = FreeOf(heap, p) /\ areas' = areas \ {a} /\ handed' = handed
    BY <1>6, <1>9, <2>1
  <2>3. areas \ {a} = {x \in areas : x.kind # "block" \/ x.ptr # p}
    BY <1>3 DEF BlocksOf
  <2> DEFINE A2 == areas \ {a}
  <2>4. A2 = {x \in areas : x.kind # "block" \/ x.ptr # p}
    BY <2>3
  <2> HIDE DEF A2
  <2>5. /\ WellFormed(FreeOf(heap, p), handed, Live(A2))
        /\ Fits(FreeOf(heap, p), handed, A2)
        /\ Kept(FreeOf(heap, p), A2)
    BY <2>4, <1>3, <1>4, Released
  <2>6. areas' = A2
    BY <2>2 DEF A2
  <2>7. QED
    BY <2>2, <2>5, <2>6 DEF IInv
\* The block is large enough: it stays where it is.
<1>10. CASE size # 0 /\ size <= old
  <2>1. r.ptr = p /\ r.heap = heap
    BY <1>7, <1>10 DEF Result
  <2>2. heap' = heap /\ areas' = (areas \ {a}) \cup {n} /\ handed' = handed
    BY <1>3, <1>5, <1>6, <1>10, <2>1
  <2> DEFINE A1 == areas \ {a}
  <2>3. Fits(heap, handed, A1) /\ Kept(heap, A1)
    BY <1>4, AreasDropped
  <2>4. Live(A1) = Live(areas) \ {p} /\ p \in Live(areas)
    BY <1>3 DEF Live, BlocksOf
  <2>5. /\ n \in AreaType /\ n.kind = "block" /\ n.ptr = p /\ n.size = size /\ n.kept <= n.size
        /\ n.tag = a.tag /\ n.kept <= a.kept /\ n.kept \in Nat
    BY <1>2, <1>3, <1>8, <2>1 DEF Area, AreaType
  <2>6. Holds(heap, n)
    <3>1. Holds(heap, a)
      BY <1>3, <1>4 DEF Kept
    <3>2. n.ptr .. (n.ptr + n.kept - 1) \subseteq a.ptr .. (a.ptr + a.kept - 1)
      BY <2>5, <1>3, <1>5
    <3>3. QED
      BY <3>1, <3>2, <2>5 DEF Holds
  <2>7. n.ptr \in handed /\ n.ptr \notin Live(A1) /\ n.size <= SizeAt(heap, n.ptr - 1)
    BY <2>4, <2>5, <1>3, <1>10 DEF old
  <2> HIDE DEF A1
  <2>8. /\ Fits(heap, handed, A1 \cup {n}) /\ Kept(heap, A1 \cup {n})
        /\ Live(A1 \cup {n}) = Live(A1) \cup {n.ptr}
    BY <2>3, <2>5, <2>6, <2>7, BlockAdded
  <2>9. Live(A1 \cup {n}) = Live(areas)
    BY <2>4, <2>5, <2>8
  <2>10. areas' = A1 \cup {n}
    BY <2>2 DEF A1
  <2>11. QED
    BY <1>4, <2>2, <2>8, <2>9, <2>10 DEF IInv
\* It moves, or there is no memory and it stays.
<1>11. CASE size # 0 /\ ~ (size <= old)
  <2>1. new = Result(heap, NULL) \/ Took(heap, handed, Live(areas), size, new)
    BY <1>2, <1>4, MallocOfFacts DEF new
  <2>2. CASE new = Result(heap, NULL)
    <3>1. r.ptr = NULL /\ r.heap = heap
      BY <1>7, <1>11, <2>2 DEF Result
    <3>2. heap' = heap /\ areas' = areas /\ handed' = handed
      BY <3>1, <1>6, <1>11
    <3>3. QED
      BY <3>2 DEF IInv
  <2>3. CASE Took(heap, handed, Live(areas), size, new)
    <3>1. new.ptr # NULL
      BY <2>3 DEF Took
    <3> DEFINE t == MovedHeap(heap, a, new)
               A2 == MovedAreas(areas, a, size, new)
    <3>2. r.ptr = new.ptr /\ r.heap = t
      BY <1>7, <1>11, <3>1 DEF Result, MovedHeap, old
    <3>3. n = Area("block", new.ptr, size, a.kept, a.tag)
      BY <1>2, <1>3, <1>5, <1>8, <1>11, <3>2
    <3>4. heap' = t /\ areas' = A2 /\ handed' = handed \cup {new.ptr}
      BY <3>1, <3>2, <3>3, <1>6, <1>11 DEF MovedAreas
    <3>5. SizeAt(heap, a.ptr - 1) < size
      BY <1>2, <1>5, <1>11 DEF old
    <3>6. /\ WellFormed(t, handed \cup {new.ptr}, Live(A2))
          /\ Fits(t, handed \cup {new.ptr}, A2)
          /\ Kept(t, A2)
      BY <1>2, <1>3, <1>4, <2>3, <3>5, Moved
    <3>7. QED
      BY <3>4, <3>6 DEF IInv
  <2>4. QED
    BY <2>1, <2>2, <2>3
<1>12. QED
  BY <1>9, <1>10, <1>11

LEMMA FillStep ==
  ASSUME IInv, Fill
  PROVE  IInv'
<1>1. PICK a \in Own, tag \in Tags :
        /\ heap' = [heap EXCEPT !.mem = [c \in Cell |->
              IF c \in a.ptr .. (a.ptr + a.size - 1) THEN <<tag, tag>> ELSE heap.mem[c]]]
        /\ areas' = (areas \ {a}) \cup {[a EXCEPT !.kept = a.size, !.tag = tag]}
  BY DEF Fill
<1> DEFINE n == [a EXCEPT !.kept = a.size, !.tag = tag]
           mem == [c \in Cell |-> IF c \in Data(a) THEN <<tag, tag>> ELSE heap.mem[c]]
           A1 == areas \ {a}
<1>2. /\ heap \in HeapType /\ Layout(heap, handed, Live(areas))
      /\ WellFormed(heap, handed, Live(areas))
      /\ Fits(heap, handed, areas) /\ Kept(heap, areas)
      /\ handed' = handed
  BY DEF IInv, WellFormed, Fill
<1>3. /\ a \in OwnOf(areas) /\ a \in areas /\ a \in AreaType /\ a.size \in Nat
      /\ a.kind # "inherited" /\ tag \in Nat
  BY <1>2, HeapAssumption DEF Own, OwnOf, Fits, AreaType
<1>4. mem \in [Cell -> Int \X Int]
  BY <1>2, <1>3 DEF HeapType
<1>5. /\ \A c \in Cell : c \in Data(a) => mem[c] = <<tag, tag>>
      /\ \A c \in Cell : c \notin Data(a) => mem[c] = heap.mem[c]
  OBVIOUS
<1>6. heap' = [heap EXCEPT !.mem = mem]
  BY <1>1 DEF Data
<1> HIDE DEF mem
<1>7. /\ heap' \in HeapType /\ heap'.heap_end = heap.heap_end
      /\ heap'.free_list_head = heap.free_list_head /\ heap'.mem = mem
  BY <1>2, <1>4, <1>6 DEF HeapType
<1> DEFINE t == heap'
<1>8. ASSUME NEW p \in handed
      PROVE  t.mem[p - 1] = heap.mem[p - 1] /\ p + SizeAt(heap, p - 1) <= t.heap_end
  <2>1. p - 1 \in Cell /\ (p - 1) + 1 = p /\ p + SizeAt(heap, p - 1) <= heap.heap_end
    BY <1>2 DEF Layout
  <2>2. p - 1 \notin Data(a)
    BY <2>1, <1>2, <1>3, OwnData
  <2>3. QED
    BY <2>1, <2>2, <1>5, <1>7
<1> HIDE DEF t
<1>9. WellFormed(t, handed, Live(areas)) /\ \A p \in handed : SizeAt(t, p - 1) = SizeAt(heap, p - 1)
  <2>1. t \in HeapType /\ t.free_list_head = heap.free_list_head
    BY <1>7 DEF t
  <2>2. QED
    BY <2>1, <1>2, <1>8, DataWritten
<1>10. /\ n \in AreaType /\ n.kind = a.kind /\ n.ptr = a.ptr /\ n.size = a.size
       /\ n.kept = a.size /\ n.tag = tag
  BY <1>3 DEF AreaType
<1>11. areas' = A1 \cup {n}
  BY <1>1
<1> HIDE DEF n
<1>12. /\ BlocksOf(A1 \cup {n}) \subseteq (BlocksOf(areas) \ {a}) \cup {n}
       /\ BreaksOf(A1 \cup {n}) \subseteq (BreaksOf(areas) \ {a}) \cup {n}
       /\ OwnOf(A1 \cup {n}) = OwnOf(A1) \cup {n}
       /\ n \in BlocksOf(A1 \cup {n}) <=> a \in BlocksOf(areas)
       /\ n \in BreaksOf(A1 \cup {n}) <=> a \in BreaksOf(areas)
  BY <1>3, <1>10 DEF BlocksOf, BreaksOf, OwnOf
<1>13. Live(A1 \cup {n}) = Live(areas)
  BY <1>3, <1>10 DEF Live, BlocksOf
<1>14. Fits(t, handed, A1 \cup {n})
  <2>1. /\ A1 \cup {n} \subseteq AreaType
        /\ \A x \in A1 \cup {n} : x.kept <= x.size
    BY <1>2, <1>3, <1>10 DEF Fits
  <2>2. \A x \in BlocksOf(A1 \cup {n}) : x.ptr \in handed /\ x.size <= SizeAt(t, x.ptr - 1)
    BY <1>2, <1>9, <1>10, <1>12 DEF Fits
  <2>3. \A x, y \in BlocksOf(A1 \cup {n}) : x.ptr = y.ptr => x = y
    BY <1>2, <1>10, <1>12 DEF Fits
  <2>4. ASSUME NEW x \in BreaksOf(A1 \cup {n})
        PROVE  /\ x.ptr + x.size <= t.heap_end
               /\ \A p \in handed : p + SizeAt(t, p - 1) <= x.ptr \/ x.ptr + x.size < p
    BY <1>2, <1>7, <1>9, <1>10, <1>12 DEF Fits, t
  <2>5. ASSUME NEW x \in BreaksOf(A1 \cup {n}), NEW y \in BreaksOf(A1 \cup {n}), x # y
        PROVE  x.ptr + x.size <= y.ptr \/ y.ptr + y.size <= x.ptr
    BY <2>5, <1>2, <1>10, <1>12 DEF Fits
  <2>6. QED
    BY <2>1, <2>2, <2>3, <2>4, <2>5 DEF Fits
<1>15. Kept(t, A1 \cup {n})
  <2>1. Holds(t, n)
    <3>1. ASSUME NEW c \in Data(a)
          PROVE  t.mem[c] = <<tag, tag>>
      <4>1. c \in Cell
        BY <1>2, <1>3, OwnData
      <4>2. QED
        BY <4>1, <1>5, <1>7 DEF t
    <3>2. QED
      BY <3>1, <1>10 DEF Holds, Data
  <2>2. ASSUME NEW x \in OwnOf(A1)
        PROVE  Holds(t, x)
    <3>1. x \in OwnOf(areas) /\ x # a
      BY DEF OwnOf
    <3>2. Extent(a) \cap Extent(x) = {}
      BY <3>1, <1>2, <1>3, OwnApart
    <3>3. /\ x.ptr \in Nat /\ x.size \in Nat /\ x.kept \in Nat /\ x.kept <= x.size
          /\ a.ptr \in Nat
      BY <3>1, <1>2, <1>3, CellFacts DEF Fits, OwnOf, AreaType
    <3>4. \A c \in x.ptr .. (x.ptr + x.kept - 1) : c \in Data(x)
      BY <3>3 DEF Data
    <3>5. Data(x) \subseteq Extent(x) /\ Data(a) \subseteq Extent(a)
      BY <3>3, <1>3 DEF Data, Extent
    <3>6. \A c \in Data(x) : c \in Cell /\ c \notin Data(a)
      BY <3>1, <3>2, <3>5, <1>2, OwnData
    <3>7. \A c \in Data(x) : t.mem[c] = heap.mem[c]
      BY <3>6, <1>5, <1>7 DEF t
    <3>8. Holds(heap, x)
      BY <3>1, <1>2 DEF Kept
    <3>9. QED
      BY <3>4, <3>7, <3>8 DEF Holds
  <2>3. QED
    BY <2>1, <2>2, <1>12 DEF Kept
<1>16. QED
  BY <1>2, <1>9, <1>11, <1>13, <1>14, <1>15 DEF IInv, t

\* sbrk raises the break or fails: a negative increment wraps out of memory.
LEMMA Raised ==
  ASSUME ClearOfWrap, NEW old \in Nat, old >= HeapBase, old <= MemSize,
         NEW inc \in Increments, inc # 0,
         NEW new, new = (old + inc) % Word, ~ OutOfMemory(old, new)
  PROVE  inc \in Nat /\ new = old + inc /\ new \in HeapBase .. MemSize
<1>1. /\ inc \in Int /\ inc >= -MemSize /\ inc <= MemSize /\ inc >= MemSize - Word
      /\ MemSize \in Nat /\ MemSize < Word /\ HeapBase \in Nat /\ HeapBase > 0 /\ Word \in Nat
  BY HeapAssumption, Wrap DEF ClearOfWrap, LowLimit
<1>2. old + inc \in Int /\ old + inc >= -Word /\ old + inc < 2 * Word
  BY <1>1
<1>3. new = IF old + inc < 0 THEN old + inc + Word
            ELSE IF old + inc < Word THEN old + inc ELSE old + inc - Word
  BY <1>1, <1>2, Wrap
<1>4. new <= MemSize /\ new >= old
  BY <1>1, <1>2, <1>3 DEF OutOfMemory
<1>5. QED
  BY <1>1, <1>3, <1>4

LEMMA SbrkStep ==
  ASSUME ClearOfWrap, IInv, Sbrk
  PROVE  IInv'
<1> DEFINE old == heap.heap_end
<1>1. PICK inc \in Increments :
        /\ inc # 0 /\ ~ OutOfMemory(old, (old + inc) % Word)
        /\ heap' = [heap EXCEPT !.heap_end = (old + inc) % Word,
                                !.mem = [c \in Cell |->
                                   IF c \in old .. (((old + inc) % Word) - 1) THEN ZeroCell
                                   ELSE heap.mem[c]]]
        /\ areas' = areas \cup {Area("break", old, inc, inc, 0)}
  BY DEF Sbrk
<1> DEFINE new == (old + inc) % Word
           n == Area("break", old, inc, inc, 0)
           mem == [c \in Cell |-> IF c \in old .. (new - 1) THEN ZeroCell ELSE heap.mem[c]]
<1>2. /\ heap \in HeapType /\ Layout(heap, handed, Live(areas))
      /\ WellFormed(heap, handed, Live(areas))
      /\ Fits(heap, handed, areas) /\ Kept(heap, areas)
      /\ handed' = handed
      /\ old \in Nat /\ old <= MemSize /\ old >= HeapBase
  BY LayoutFacts DEF IInv, WellFormed, Sbrk
<1>3. inc \in Nat /\ inc # 0 /\ new = old + inc /\ new \in HeapBase .. MemSize /\ new \in Nat
  BY <1>1, <1>2, Raised, CellFacts
<1>4. mem \in [Cell -> Int \X Int]
  BY <1>2 DEF HeapType, ZeroCell
<1>5. /\ \A c \in Cell : c < old => mem[c] = heap.mem[c]
      /\ \A c \in Cell : c \in old .. (new - 1) => mem[c] = ZeroCell
  BY <1>2, <1>3, CellFacts
<1>6. heap' = [heap EXCEPT !.heap_end = new, !.mem = mem]
  BY <1>1
<1> HIDE DEF new, mem
<1>7. /\ heap' \in HeapType /\ heap'.heap_end = new
      /\ heap'.free_list_head = heap.free_list_head /\ heap'.mem = mem
  BY <1>2, <1>3, <1>4, <1>6 DEF HeapType
<1> DEFINE t == heap'
<1>8. \A p \in handed : /\ p - 1 \in Cell /\ p - 1 < old /\ p \in Nat
                        /\ SizeAt(heap, p - 1) \in Nat /\ p + SizeAt(heap, p - 1) <= old
  BY <1>2, LayoutFacts
<1>9. /\ \A p \in handed : t.mem[p - 1] = heap.mem[p - 1] /\ p + SizeAt(heap, p - 1) <= t.heap_end
      /\ t \in HeapType /\ t.free_list_head = heap.free_list_head /\ t.heap_end >= heap.heap_end
  BY <1>2, <1>3, <1>5, <1>7, <1>8
<1>10. \A a \in OwnOf(areas) : \A c \in Data(a) : t.mem[c] = heap.mem[c]
  BY <1>2, <1>5, <1>7, OwnData
<1> HIDE DEF t
<1>11. WellFormed(t, handed, Live(areas)) /\ \A p \in handed : SizeAt(t, p - 1) = SizeAt(heap, p - 1)
  BY <1>2, <1>9, DataWritten
<1>12. Fits(t, handed, areas) /\ Kept(t, areas)
  <2>1. \A p \in handed \ handed : p \in Nat /\ p > heap.heap_end
    OBVIOUS
  <2>2. QED
    BY <2>1, <1>2, <1>9, <1>10, <1>11, Carried
<1>13. /\ n \in AreaType /\ n.kind = "break" /\ n.ptr = old /\ n.size = inc
       /\ n.kept = inc /\ n.tag = 0
  BY <1>2, <1>3, CellFacts DEF Area, AreaType
<1>14. areas' = areas \cup {n}
  BY <1>1
<1> HIDE DEF n
<1>15. /\ BlocksOf(areas \cup {n}) = BlocksOf(areas)
       /\ BreaksOf(areas \cup {n}) = BreaksOf(areas) \cup {n}
       /\ OwnOf(areas \cup {n}) = OwnOf(areas) \cup {n}
  BY <1>13 DEF BlocksOf, BreaksOf, OwnOf
<1>16. Live(areas \cup {n}) = Live(areas)
  BY <1>15 DEF Live
<1>17. t.heap_end = old + inc
  BY <1>3, <1>7 DEF t
<1>18. Fits(t, handed, areas \cup {n})
  <2>1. \A p \in handed : p + SizeAt(t, p - 1) <= n.ptr
    BY <1>8, <1>11, <1>13
  <2>2. \A x \in BreaksOf(areas) : x.ptr + x.size <= n.ptr
    BY <1>2, <1>13 DEF Fits
  <2>3. n.ptr + n.size <= t.heap_end
    BY <1>2, <1>3, <1>13, <1>17
  <2>4. n.kept <= n.size
    BY <1>3, <1>13
  <2>5. QED
    BY <2>1, <2>2, <2>3, <2>4, <1>12, <1>13, <1>15 DEF Fits
<1>19. Holds(t, n)
  <2>1. SUFFICES ASSUME NEW c \in old .. (old + inc - 1) PROVE t.mem[c] = <<0, 0>>
    BY <1>13 DEF Holds
  <2>2. c \in Cell /\ c \in old .. (new - 1)
    BY <1>2, <1>3, CellFacts DEF Cell
  <2>3. QED
    BY <2>2, <1>5, <1>7 DEF t, ZeroCell
<1>20. Kept(t, areas \cup {n})
  BY <1>12, <1>15, <1>19 DEF Kept
<1>21. QED
  BY <1>2, <1>11, <1>14, <1>16, <1>18, <1>20 DEF IInv, t

\* brk drops no block: the guest keeps the break above them.
LEMMA BrkStep ==
  ASSUME IInv, Brk
  PROVE  IInv'
<1> DEFINE old == heap.heap_end
           left(target) == {a \in areas : a.kind = "inherited" \/ a.ptr + a.size <= target}
<1>1. PICK target \in Targets :
        /\ \A ptr \in handed : ptr + SizeAt(heap, ptr - 1) <= target
        /\ heap' = [heap EXCEPT !.heap_end = target]
        /\ areas' = left(target) \cup
             IF target > old THEN {Area("break", old, target - old, 0, 0)} ELSE {}
  BY DEF Brk
<1> DEFINE n == Area("break", old, target - old, 0, 0)
           A1 == left(target)
           t == heap'
<1>2. /\ heap \in HeapType /\ Layout(heap, handed, Live(areas))
      /\ WellFormed(heap, handed, Live(areas))
      /\ Fits(heap, handed, areas) /\ Kept(heap, areas)
      /\ handed' = handed
      /\ old \in Nat /\ old <= MemSize /\ old >= HeapBase
  BY LayoutFacts DEF IInv, WellFormed, Brk
<1>3. target \in HeapBase .. MemSize /\ target \in Nat
  BY HeapAssumption
<1>4. t \in HeapType /\ t.heap_end = target /\ t.free_list_head = heap.free_list_head /\ t.mem = heap.mem
  BY <1>1, <1>2, <1>3 DEF HeapType
<1>5. A1 \in SUBSET areas
  OBVIOUS
<1>6. Live(A1) = Live(areas)
  <2>1. ASSUME NEW a \in BlocksOf(areas)
        PROVE  a \in BlocksOf(A1)
    <3>1. a \in areas /\ a.kind = "block" /\ a.ptr \in handed /\ a.size <= SizeAt(heap, a.ptr - 1)
      BY <1>2 DEF BlocksOf, Fits
    <3>2. a.ptr + SizeAt(heap, a.ptr - 1) <= target
      BY <3>1, <1>1
    <3>3. a.ptr \in Nat /\ a.size \in Nat /\ SizeAt(heap, a.ptr - 1) \in Nat
      BY <3>1, <1>2, CellFacts DEF Fits, AreaType, Layout
    <3>4. a.ptr + a.size <= target
      BY <3>1, <3>2, <3>3, <1>3
    <3>5. QED
      BY <3>1, <3>4 DEF BlocksOf
  <2>2. QED
    BY <2>1 DEF Live, BlocksOf
<1>7. \A a \in BreaksOf(A1) : a.ptr + a.size <= target
  BY DEF BreaksOf
<1>8. Fits(heap, handed, A1) /\ Kept(heap, A1)
  BY <1>2, <1>5, AreasDropped
<1> HIDE DEF t, A1, left
<1>9. \A p \in handed : /\ p \in Nat /\ p - 1 \in Cell
                        /\ t.mem[p - 1] = heap.mem[p - 1]
                        /\ SizeAt(heap, p - 1) \in Nat
                        /\ p + SizeAt(heap, p - 1) <= t.heap_end
                        /\ p + SizeAt(heap, p - 1) <= old
  BY <1>1, <1>2, <1>4, LayoutFacts
<1>10. WellFormed(t, handed, Live(areas)) /\ \A p \in handed : SizeAt(t, p - 1) = SizeAt(heap, p - 1)
  BY <1>2, <1>4, <1>9, DataWritten
<1>11. Fits(t, handed, A1) /\ Kept(t, A1)
  <2>1. Kept(t, A1)
    BY <1>4, <1>8 DEF Kept, Holds
  <2>2. Fits(t, handed, A1)
    <3>1. \A a \in BlocksOf(A1) : a.ptr \in handed /\ a.size <= SizeAt(t, a.ptr - 1)
      BY <1>8, <1>10 DEF Fits
    <3>2. \A a \in BreaksOf(A1) :
            /\ a.ptr + a.size <= t.heap_end
            /\ \A p \in handed : p + SizeAt(t, p - 1) <= a.ptr \/ a.ptr + a.size < p
      BY <1>4, <1>7, <1>8, <1>10 DEF Fits
    <3>3. QED
      BY <3>1, <3>2, <1>8 DEF Fits
  <2>3. QED
    BY <2>1, <2>2
<1>12. CASE ~ (target > old)
  <2>1. areas' = A1
    BY <1>1, <1>12 DEF A1
  <2>2. QED
    BY <2>1, <1>2, <1>6, <1>10, <1>11 DEF IInv, t
<1>13. CASE target > old
  <2>1. areas' = A1 \cup {n}
    BY <1>1, <1>13 DEF A1
  <2>2. /\ n \in AreaType /\ n.kind = "break" /\ n.ptr = old /\ n.size = target - old
        /\ n.kept = 0 /\ n.size \in Nat
    BY <1>2, <1>3, <1>13, CellFacts DEF Area, AreaType
  <2> HIDE DEF n
  <2>3. /\ BlocksOf(A1 \cup {n}) = BlocksOf(A1)
        /\ BreaksOf(A1 \cup {n}) = BreaksOf(A1) \cup {n}
        /\ OwnOf(A1 \cup {n}) = OwnOf(A1) \cup {n}
    BY <2>2 DEF BlocksOf, BreaksOf, OwnOf
  <2>4. Live(A1 \cup {n}) = Live(areas)
    BY <2>3, <1>6 DEF Live
  <2>5. Fits(t, handed, A1 \cup {n})
    <3>1. \A p \in handed : p + SizeAt(t, p - 1) <= n.ptr
      BY <2>2, <1>9, <1>10
    <3>2. \A x \in BreaksOf(A1) : x.ptr + x.size <= n.ptr
      BY <2>2, <1>8 DEF Fits
    <3>3. n.ptr + n.size <= t.heap_end
      BY <2>2, <1>2, <1>3, <1>4
    <3>4. n.kept <= n.size
      BY <2>2
    <3>5. QED
      BY <2>2, <2>3, <3>1, <3>2, <3>3, <3>4, <1>11 DEF Fits
  <2>6. Holds(t, n)
    BY <2>2, <1>2 DEF Holds
  <2>7. Kept(t, A1 \cup {n})
    BY <2>3, <2>6, <1>11 DEF Kept
  <2>8. QED
    BY <2>1, <2>4, <2>5, <2>7, <1>2, <1>10 DEF IInv, t
<1>14. QED
  BY <1>12, <1>13

\* The child starts with an empty heap over memory it inherited.
LEMMA ForkStep ==
  ASSUME IInv, Fork
  PROVE  IInv'
<1>1. /\ heap' = [heap EXCEPT !.heap_end = HeapBase, !.free_list_head = NULL]
      /\ areas' = {Area("inherited", a.ptr, a.size, 0, 0) : a \in Own}
      /\ handed' = {}
  BY DEF Fork
<1>2. heap \in HeapType
  BY DEF IInv, WellFormed
<1>3. heap' \in HeapType /\ heap'.free_list_head = NULL
  <2>1. HeapBase \in HeapBase .. MemSize /\ NULL \in Int
    BY CellFacts DEF NULL
  <2>2. QED
    BY <1>1, <1>2, <2>1 DEF HeapType
<1>4. \A n \in areas' : n \in AreaType /\ n.kind = "inherited" /\ n.kept = 0
  BY <1>1 DEF Own, Area, AreaType, IInv, Fits
<1>5. BlocksOf(areas') = {} /\ BreaksOf(areas') = {} /\ OwnOf(areas') = {}
  BY <1>4 DEF BlocksOf, BreaksOf, OwnOf
<1>6. Live(areas') = {}
  BY <1>5 DEF Live
<1>7. WellFormed(heap', {}, {})
  BY <1>3, Empty
<1>8. Fits(heap', {}, areas')
  <2>1. \A n \in areas' : n.kept <= n.size
    BY <1>4 DEF AreaType
  <2>2. QED
    BY <1>4, <1>5, <2>1 DEF Fits
<1>9. Kept(heap', areas')
  BY <1>5 DEF Kept
<1>10. QED
  BY <1>1, <1>6, <1>7, <1>8, <1>9 DEF IInv

-----------------------------------------------------------------------------
(* Theorems *)

LEMMA IndInv == ASSUME ClearOfWrap PROVE Spec => []IInv
<1>1. IInv /\ [Next]_vars => IInv'
  <2>1. SUFFICES ASSUME IInv, [Next]_vars PROVE IInv'
    OBVIOUS
  <2>2. CASE UNCHANGED vars
    BY <2>1, <2>2 DEF vars, IInv
  <2>3. QED
    BY <2>1, <2>2, MallocStep, CallocStep, FreeStep, ReallocStep, FillStep, SbrkStep,
       BrkStep, ForkStep DEF Next
<1>2. QED
  BY InitIInv, <1>1, PTL DEF Spec

LEMMA IInvFacts ==
  ASSUME IInv
  PROVE  /\ heap \in HeapType /\ Layout(heap, handed, Live(areas))
         /\ Fits(heap, handed, areas) /\ Kept(heap, areas)
         /\ Blocks = BlocksOf(areas) /\ Own = OwnOf(areas)
BY DEF IInv, WellFormed, Blocks, BlocksOf, Own, OwnOf

\* Every variable has its type, and the break stays inside the memory, also
\* when malloc and sbrk run out of it.
THEOREM TypesOfHeap == ASSUME ClearOfWrap PROVE Spec => []TypeOK
<1>1. ASSUME IInv PROVE TypeOK
  <2>1. PICK k \in Nat : \E f \in [0 .. k -> Int] :
          IsChain(heap, f, k) /\ Through(f, k, Headers(handed \ Live(areas)))
    BY <1>1 DEF IInv, WellFormed
  <2>2. PICK f \in [0 .. k -> Int] : IsChain(heap, f, k)
    BY <2>1
  <2>3. heap.free_list_head \in {NULL} \cup Cell
    <3>1. CASE k = 0
      BY <2>2, <3>1 DEF IsChain
    <3>2. CASE k # 0
      <4>1. 0 \in 0 .. (k - 1)
        BY <3>2
      <4>2. QED
        BY <2>2, <4>1 DEF IsChain
    <3>3. QED
      BY <3>1, <3>2
  <2>4. handed \subseteq Cell
    BY <1>1, IInvFacts, LayoutFacts
  <2>5. heap.heap_end \in HeapBase .. MemSize /\ \A c \in Cell : heap.mem[c] \in Int \X Int
    BY <1>1, IInvFacts DEF HeapType
  <2>6. \A a \in areas : a.ptr \in HeapBase .. MemSize /\ a.size >= a.kept
    BY <1>1, IInvFacts DEF Fits, AreaType
  <2>7. QED
    BY <2>3, <2>4, <2>5, <2>6 DEF TypeOK
<1>2. QED
  BY <1>1, IndInv, PTL

\* No two areas of the guest share a cell, whatever malloc, realloc, sbrk and
\* brk did in what order, and none reaches above the break.
THEOREM AreasStayApart == ASSUME ClearOfWrap PROVE Spec => []AreasDisjoint
<1>1. ASSUME IInv PROVE AreasDisjoint
  <2>1. ASSUME NEW a \in Own, NEW b \in Own, a # b
        PROVE  Extent(a) \cap Extent(b) = {}
    BY <1>1, <2>1, IInvFacts, OwnApart
  <2>2. ASSUME NEW a \in Own
        PROVE  a.ptr + a.size <= heap.heap_end
    <3>1. a \in BlocksOf(areas) \/ a \in BreaksOf(areas)
      BY <1>1, IInvFacts DEF Own, BlocksOf, BreaksOf, Fits, AreaType
    <3>2. CASE a \in BreaksOf(areas)
      BY <1>1, <3>2, IInvFacts DEF Fits
    <3>3. CASE a \in BlocksOf(areas)
      <4>1. a.ptr \in handed /\ a.size <= SizeAt(heap, a.ptr - 1) /\ a.size \in Nat
        BY <1>1, <3>3, IInvFacts DEF Fits, AreaType, BlocksOf
      <4>2. /\ a.ptr + SizeAt(heap, a.ptr - 1) <= heap.heap_end /\ a.ptr \in Nat
            /\ SizeAt(heap, a.ptr - 1) \in Nat /\ heap.heap_end \in Nat
        BY <1>1, <4>1, IInvFacts, LayoutFacts
      <4>3. QED
        BY <4>1, <4>2
    <3>4. QED
      BY <3>1, <3>2, <3>3
  <2>3. QED
    BY <2>1, <2>2 DEF AreasDisjoint
<1>2. QED
  BY <1>1, IndInv, PTL

\* The list that free and malloc keep ends, and goes through the blocks the
\* guest gave back and no other: free notices a double free, and no block is
\* lost between malloc, realloc and free.
THEOREM FreeListKept == ASSUME ClearOfWrap PROVE Spec => []FreeListSound
<1>1. ASSUME IInv PROVE FreeListSound
  <2>1. PICK k \in Nat : \E f \in [0 .. k -> Int] :
          IsChain(heap, f, k) /\ Through(f, k, Headers(handed \ Live(areas)))
    BY <1>1 DEF IInv, WellFormed
  <2>2. PICK f \in [0 .. k -> Int] :
          IsChain(heap, f, k) /\ Through(f, k, Headers(handed \ Live(areas)))
    BY <2>1
  <2>3. k \in Visits /\ heap \in HeapType
    BY <1>1, <2>2, ChainFits, IInvFacts
  <2>4. Trail(heap) = [n \in Visits |-> IF n < k THEN f[n] ELSE NULL]
    BY <2>2, <2>3, TrailIsChain
  <2>5. \A n \in 0 .. (k - 1) : n \in Visits /\ n < k /\ f[n] # NULL
    BY <2>2, <2>3, CellFacts DEF IsChain, Visits
  <2>6. \A n \in Visits : n < k => n \in 0 .. (k - 1)
    BY CellFacts DEF Visits
  <2>7. Trail(heap)[k] = NULL
    BY <2>3, <2>4
  <2>8. {Trail(heap)[n] : n \in Visits} \ {NULL} = {f[n] : n \in 0 .. (k - 1)}
    <3>1. ASSUME NEW x \in {Trail(heap)[n] : n \in Visits} \ {NULL}
          PROVE  x \in {f[n] : n \in 0 .. (k - 1)}
      BY <2>4, <2>6
    <3>2. ASSUME NEW n \in 0 .. (k - 1)
          PROVE  f[n] \in {Trail(heap)[m] : m \in Visits} \ {NULL}
      BY <2>4, <2>5
    <3>3. QED
      BY <3>1, <3>2
  <2>9. {f[n] : n \in 0 .. (k - 1)} = Headers(handed \ Live(areas))
    <3>1. \A n \in 0 .. (k - 1) : f[n] \in Headers(handed \ Live(areas))
      BY <2>2 DEF Through
    <3>2. \A b \in Headers(handed \ Live(areas)) : \E n \in 0 .. (k - 1) : f[n] = b
      BY <2>2 DEF Through
    <3>3. QED
      BY <3>1, <3>2
  <2>10. Headers(handed \ Live(areas)) = {ptr - 1 : ptr \in handed \ {a.ptr : a \in Blocks}}
    BY <1>1, IInvFacts DEF Headers, Live
  <2>11. QED
    BY <2>3, <2>7, <2>8, <2>9, <2>10 DEF FreeListSound
<1>2. QED
  BY <1>1, IndInv, PTL

\* A block from malloc, calloc or realloc is as large as what was asked for,
\* whichever free block it was.
THEOREM LargeEnoughBlocks == ASSUME ClearOfWrap PROVE Spec => []BigEnough
<1>1. ASSUME IInv PROVE BigEnough
  <2>1. ASSUME NEW a \in Blocks
        PROVE  SizeAt(heap, a.ptr - 1) >= a.size
    <3>1. a \in BlocksOf(areas) /\ a.ptr \in handed /\ a.size <= SizeAt(heap, a.ptr - 1)
      BY <1>1, IInvFacts DEF Fits
    <3>2. a.size \in Nat /\ SizeAt(heap, a.ptr - 1) \in Nat
      BY <1>1, <3>1, IInvFacts DEF Fits, AreaType, BlocksOf, Layout
    <3>3. QED
      BY <3>1, <3>2
  <2>2. QED
    BY <2>1 DEF BigEnough
<1>2. QED
  BY <1>1, IndInv, PTL

\* The guest reads what it last wrote, and zeros where calloc and sbrk gave it
\* fresh memory, across realloc and everything done to other areas.
THEOREM ContentsStay == ASSUME ClearOfWrap PROVE Spec => []ContentsKept
<1>1. ASSUME IInv PROVE ContentsKept
  BY <1>1, IInvFacts DEF ContentsKept, Kept, Holds
<1>2. QED
  BY <1>1, IndInv, PTL
=============================================================================
