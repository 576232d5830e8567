------------------------------- MODULE MDriver -------------------------------
(***************************************************************************)
(* The malloc driver (malloclab/mdriver.c) over the malloc package: a      *)
(* trace asks for blocks, resizes and frees them; eval_mm_valid checks     *)
(* each answer against the list of ranges in use and, after a realloc, the *)
(* data.  A trace is any legal sequence of requests.                       *)
(***************************************************************************)
EXTENDS Heap, FiniteSets

CONSTANTS Ids,    \* the numbers a trace gives its blocks
          Sizes,  \* the sizes it asks for
          Junk    \* what a word holds that nothing reads before it is written

ASSUME TraceAssumption == Sizes \subseteq Nat \ {0}

VARIABLES mem, brk,     \* the simulated heap
          ranges,       \* the extents of the payloads in use
          blocks,       \* what malloc and realloc returned; Null: not in use
          block_sizes,
          verdict       \* "valid" so far, or what malloc_error said last

vars == <<mem, brk, ranges, blocks, block_sizes, verdict>>
heap == [mem |-> mem, brk |-> brk]

Address == RootNode .. MAX_HEAP - 1
Full    == "out of memory"

\* The first block is the prologue.
Prologue == 2
\* From there sizes lead from block to block.
Chain(m, b) ==
  LET Inside(s) == s.bp < b /\ SizeOf(m, s.bp) >= DSIZE
      Past(s)   == [bp |-> NEXT_BLKP(m, s.bp), seen |-> s.seen \union {s.bp}]
  IN  While(Inside, Past, [bp |-> Prologue, seen |-> {}], b \div DSIZE)
AllBlocks(m, b) == Chain(m, b).seen
IsFree(m, bp)   == GET_ALLOC(m[HDRP(bp)]) = 0

\* The words that have a meaning: the sentinels, tags, nodes and payloads.
Meaning(m, b, pays) ==
  RootNode .. NilNode + Right
    \union 1 .. Prologue \union {b - 1}
    \union (UNION {{HDRP(p), FTRP(m, p)} : p \in AllBlocks(m, b)})
    \union (UNION {p .. p + Parent : p \in {q \in AllBlocks(m, b) : IsFree(m, q)}})
    \union (UNION {p.lo .. p.hi : p \in pays})
Forget(m, b, pays) ==
  LET keep == Meaning(m, b, pays)
  IN  [i \in Address |-> IF i \in keep THEN m[i] ELSE Junk]

------------------------------------------------------------------------------
IsAligned(lo) == lo % DSIZE = 0

\* The test of add_range: an end of the new range is inside the other one.
Overlaps(lo, hi, p) == (lo >= p.lo /\ lo <= p.hi) \/ (hi >= p.lo /\ hi <= p.hi)

RangeError(rs, b, lo, hi) ==
  IF ~IsAligned(lo) THEN "not aligned"
  ELSE IF ~({lo, hi} \subseteq 0 .. b - 1) THEN "outside heap"
  ELSE IF \E p \in rs : Overlaps(lo, hi, p) THEN "overlaps"
  ELSE "valid"

remove_range(rs, lo) == {p \in rs : p.lo # lo}
memset(m, lo, hi, x) == [i \in DOMAIN m |-> IF i \in lo .. hi THEN x ELSE m[i]]

\* After the call of malloc or realloc, r: the checks, which stop the trace at the
\* first error, and the new range, filled with i.
Accept(r, i, size, rs, preserved) ==
  LET lo == r.bp
      hi == lo + size - 1
      new == rs \union {[lo |-> lo, hi |-> hi]}
      err == IF lo = Null THEN Full ELSE RangeError(rs, r.brk, lo, hi)
  IN  /\ brk' = r.brk
      /\ verdict' = IF err = "valid" /\ ~preserved THEN "not preserved" ELSE err
      /\ ranges' = IF err = "valid" THEN new ELSE rs
      /\ IF verdict' = "valid"
         THEN /\ mem' = Forget(memset(r.mem, lo, hi, i), r.brk, new)
              /\ blocks' = [blocks EXCEPT ![i] = lo]
              /\ block_sizes' = [block_sizes EXCEPT ![i] = size]
         ELSE /\ mem' = Forget(r.mem, r.brk, ranges')
              /\ UNCHANGED <<blocks, block_sizes>>

Malloc(i, size) ==
  /\ verdict = "valid" /\ blocks[i] = Null
  /\ Accept(mm_malloc(heap, size), i, size, ranges, TRUE)

Realloc(i, size) ==
  LET kept == Min2(size, block_sizes[i])
  IN  /\ verdict = "valid" /\ blocks[i] # Null
      /\ \E r \in {mm_realloc(heap, blocks[i], size)} :
           Accept(r, i, size, IF r.bp = Null THEN ranges ELSE remove_range(ranges, blocks[i]),
                  \A k \in 0 .. kept - 1 : r.mem[r.bp + k] = i)

Free(i) ==
  /\ verdict = "valid" /\ blocks[i] # Null
  /\ ranges' = remove_range(ranges, blocks[i])
  /\ mem' = Forget(mm_free(mem, blocks[i]), brk, ranges')
  /\ blocks' = [blocks EXCEPT ![i] = Null]
  /\ block_sizes' = [block_sizes EXCEPT ![i] = 0]
  /\ UNCHANGED <<brk, verdict>>

\* The start of eval_mm_valid, on whatever the trace before has left in the memory.
Start(m) ==
  LET Ready(r) == [mem |-> Forget(r.mem, r.brk, {}), brk |-> r.brk,
                   verdict |-> IF r.bp = Null THEN Full ELSE "valid"]
  IN  Ready(mm_init(mem_reset_brk([mem |-> m, brk |-> 0])))

NewTrace ==
  /\ \E s \in {Start(mem)} : mem' = s.mem /\ brk' = s.brk /\ verdict' = s.verdict
  /\ ranges' = {}
  /\ blocks' = [i \in Ids |-> Null] /\ block_sizes' = [i \in Ids |-> 0]

Init ==
  /\ \E s \in {Start([i \in Address |-> 0])} :
       mem = s.mem /\ brk = s.brk /\ verdict = s.verdict
  /\ ranges = {}
  /\ blocks = [i \in Ids |-> Null] /\ block_sizes = [i \in Ids |-> 0]

Next ==
  \/ \E i \in Ids, size \in Sizes : Malloc(i, size) \/ Realloc(i, size)
  \/ \E i \in Ids : Free(i)
  \/ NewTrace

Spec == Init /\ [][Next]_vars

------------------------------------------------------------------------------
(***************************************************************************)
(* Properties.                                                             *)
(***************************************************************************)
Live       == {i \in Ids : blocks[i] # Null}
FreeBlocks == {bp \in AllBlocks(mem, brk) : IsFree(mem, bp)}
Used       == AllBlocks(mem, brk) \ (FreeBlocks \union {Prologue})

TypeOK ==
  /\ mem \in [Address -> Int \union Ids \union {Junk}]
  /\ brk \in 0 .. MAX_HEAP
  /\ blocks \in [Ids -> Address] /\ block_sizes \in [Ids -> Sizes \union {0}]
  /\ verdict \in {"valid", Full, "not aligned", "outside heap", "overlaps", "not preserved"}
  /\ verdict = "valid" =>
       ranges = {[lo |-> blocks[i], hi |-> blocks[i] + block_sizes[i] - 1] : i \in Live}

\* From the prologue, sizes lead to the epilogue at the end of the heap and to nothing
\* else, and each footer repeats its header, whatever was split, merged, moved down or
\* written by the user in between (place, coalesce, mm_realloc).
BlocksTile ==
  /\ Chain(mem, brk).bp = brk /\ mem[HDRP(brk)] = PACK(0, 1)
  /\ \A bp \in AllBlocks(mem, brk) : mem[FTRP(mem, bp)] = mem[HDRP(bp)]

\* Blocks that are allocated are those in use: nothing is lost, nor in use and free.
NoLeak == verdict = "valid" => Used = {blocks[i] : i \in Live}

\* The tree that is kept inside the free blocks has exactly these as nodes, under their
\* sizes, and links up as down (insert_free_block and remove_free_block around every
\* change of a tag).
TreeHoldsFreeBlocks ==
  /\ TreeOf(mem) = FreeBlocks
  /\ \A x \in FreeBlocks : mem[x] = SizeOf(mem, x)
  /\ Linked(mem)

\* No trace makes the driver find an error, other than that memory has run out: what
\* add_range and the check after a realloc look for does not happen.
DriverAccepts == verdict \in {"valid", Full}

\* The tags, the blocks in use and the ranges the driver keeps agree after any sequence of
\* requests, and the driver's own checks pass.
HeapIntact == TypeOK /\ BlocksTile /\ NoLeak /\ DriverAccepts

\* The free blocks and the tree made of them agree, and the tree is in order and balanced,
\* with equal keys as well.
TreeIntact == TreeHoldsFreeBlocks /\ RedBlack(mem)

\* A request that fails has taken nothing: the heap ends where it did, and the blocks in
\* use and free are the same (extend_heap's NULL in mm_malloc and in mm_realloc).
FailureChangesNothing ==
  [][verdict = "valid" /\ verdict' = Full =>
       brk' = brk /\ mem' = mem /\ ranges' = ranges]_vars

\* Two free blocks next to each other.
Neighbours(m, b) == {bp \in AllBlocks(m, b) : IsFree(m, bp) /\ IsFree(m, NEXT_BLKP(m, bp))}

\* Only a realloc that leaves a rest makes free neighbours; malloc and free never do
\* (coalesce's "immediate" merging; Carve's rest meets a free block only there).
OnlyReallocFragments ==
  [][verdict' = "valid" /\ Cardinality(Neighbours(mem', brk')) > Cardinality(Neighbours(mem, brk))
       => \E i \in Ids : blocks[i] # Null /\ blocks'[i] # Null /\ block_sizes'[i] # block_sizes[i]]_vars

\* The package is an allocator: see module Allocator.
AllocatorView ==
  INSTANCE Allocator WITH
    Limit <- MAX_HEAP,
    area  <- [i \in Ids |-> [lo |-> blocks[i], size |-> block_sizes[i]]],
    data  <- [i \in Ids |-> [k \in 1 .. block_sizes[i] |-> mem[blocks[i] + k - 1]]]
AllocatorSpec == AllocatorView!Spec
==============================================================================
