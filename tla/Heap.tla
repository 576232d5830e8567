-------------------------------- MODULE Heap ---------------------------------
(***************************************************************************)
(* The malloc package (malloclab/mm.c) and the memory it asks for          *)
(* (malloclab/memlib.c), as functions of the memory.  Addresses and sizes  *)
(* count words of four bytes; the heap starts at address 0.  A block is a  *)
(* header, a payload and a footer; a free block's payload begins with its  *)
(* node in the tree.                                                       *)
(***************************************************************************)
EXTENDS RedBlackTree

CONSTANTS CHUNKSIZE,  \* words the heap is extended by
          MAX_HEAP    \* words it can have

DSIZE        == 2
BLK_MIN_SIZE == 8

\* There is room for the prologue, and what the heap is extended by is a block.
ASSUME HeapAssumption == MAX_HEAP \in Nat /\ MAX_HEAP >= 4 /\ CHUNKSIZE \in Nat /\ CHUNKSIZE >= BLK_MIN_SIZE

Max2(a, b)   == IF a > b THEN a ELSE b
Min2(a, b)   == IF a < b THEN a ELSE b

\* Sizes are even, so their last bit is free for the allocated bit.
PACK(size, alloc) == size + alloc
GET_SIZE(word)    == word - (word % 2)
GET_ALLOC(word)   == word % 2

HDRP(bp)         == bp - 1
SizeOf(m, bp)    == GET_SIZE(m[HDRP(bp)])
FTRP(m, bp)      == bp + SizeOf(m, bp) - DSIZE
NEXT_BLKP(m, bp) == bp + SizeOf(m, bp)
PREV_BLKP(m, bp) == bp - GET_SIZE(m[bp - DSIZE])

\* Header and footer of a block.
Tag(m, bp, size, alloc) ==
  [m EXCEPT ![HDRP(bp)] = PACK(size, alloc), ![bp + size - DSIZE] = PACK(size, alloc)]

------------------------------------------------------------------------------
\* memlib.c. h is a heap: its memory and the end of its used part.
mem_reset_brk(h) == [h EXCEPT !.brk = 0]

mem_sbrk(h, incr) ==
  IF incr < 0 \/ h.brk + incr > MAX_HEAP THEN h ELSE [h EXCEPT !.brk = @ + incr]

------------------------------------------------------------------------------
insert_free_block(m, bp) == rbt_insert([m EXCEPT ![bp] = SizeOf(m, bp)], bp)
remove_free_block(m, bp) == rbt_remove(m, bp)

\* The block bp, tagged as free, and the neighbours that are free become one block.
Merge(m, bp, prev, next, withPrev, withNext) ==
  LET size  == SizeOf(m, bp) + (IF withPrev THEN SizeOf(m, prev) ELSE 0)
                             + (IF withNext THEN SizeOf(m, next) ELSE 0)
      start == IF withPrev THEN prev ELSE bp
      Without(x, p, gone) == IF gone THEN remove_free_block(x, p) ELSE x
  IN  [mem |-> Tag(Without(Without(m, prev, withPrev), next, withNext), start, size, 0),
       bp  |-> start]

\* The block becomes a node of the tree.
Inserted(r) == [r EXCEPT !.mem = insert_free_block(@, r.bp)]

\* Mutant: only the block after bp is looked at.
coalesce_NextOnly(m, bp) ==
  LET next == NEXT_BLKP(m, bp)
  IN  Inserted(Merge(m, bp, bp, next, FALSE, GET_ALLOC(m[HDRP(next)]) = 0))

coalesce(m, bp) ==
  LET prev == PREV_BLKP(m, bp)
      next == NEXT_BLKP(m, bp)
  IN  Inserted(Merge(m, bp, prev, next, GET_ALLOC(m[FTRP(m, prev)]) = 0,
                                        GET_ALLOC(m[HDRP(next)]) = 0))

\* What a function of the package returns: the heap, and a block or Null.
Result(m, brk, bp) == [mem |-> m, brk |-> brk, bp |-> bp]

\* The old epilogue is the header of the new block.
extend_heap(h, words) ==
  LET size == IF words % 2 = 1 THEN words + 1 ELSE words
      new  == mem_sbrk(h, size)
      m    == [Tag(h.mem, h.brk, size, 0) EXCEPT ![HDRP(h.brk + size)] = PACK(0, 1)]
      Of(c) == Result(c.mem, new.brk, c.bp)
  IN  IF new = h THEN Result(h.mem, h.brk, Null) ELSE Of(coalesce(m, h.brk))

find_fit(m, asize) == rbt_query_ge(m, asize)

\* The first asize words of a block of total become allocated. The rest, unless it is
\* too small for a block, becomes a free one.
Carve(m, bp, total, asize) ==
  LET used == IF total - asize >= BLK_MIN_SIZE THEN asize ELSE total
      a    == Tag(m, bp, used, 1)
      rest == bp + used
  IN  IF used = total THEN a
      ELSE insert_free_block(Tag(a, rest, total - used, 0), rest)

place(m, bp, asize) == Carve(remove_free_block(m, bp), bp, SizeOf(m, bp), asize)

mm_init(h) ==
  LET m == [h.mem EXCEPT ![h.brk] = 0, ![h.brk + 1] = PACK(DSIZE, 1),
                         ![h.brk + 2] = PACK(DSIZE, 1), ![h.brk + 3] = PACK(0, 1)]
  IN  IF mem_sbrk(h, 4) = h THEN Result(h.mem, h.brk, Null)
      ELSE extend_heap([mem |-> rbt_init(m), brk |-> h.brk + 4], CHUNKSIZE)

\* Mutant: no room for header and footer.
Adjust_NoTags(size) == Max2(BLK_MIN_SIZE, DSIZE * ((size + DSIZE - 1) \div DSIZE))

\* Room for header and footer, rounded up.
Adjust(size) == Max2(BLK_MIN_SIZE, DSIZE * ((size + DSIZE + DSIZE - 1) \div DSIZE))

mm_malloc(h, size) ==
  LET asize == Adjust(size)
      bp    == find_fit(h.mem, asize)
      Placed(r) == IF r.bp = Null THEN r ELSE [r EXCEPT !.mem = place(@, r.bp, asize)]
  IN  IF size = 0 THEN Result(h.mem, h.brk, Null)
      ELSE Placed(IF bp # Null THEN Result(h.mem, h.brk, bp)
                               ELSE extend_heap(h, Max2(asize, CHUNKSIZE)))

mm_free(m, bp) == coalesce(Tag(m, bp, SizeOf(m, bp), 0), bp).mem

memmove(m, to, from, n) ==
  [i \in DOMAIN m |-> IF i \in to .. to + n - 1 THEN m[i - to + from] ELSE m[i]]

\* The payload moves down to the free block before it, which has left the tree.
MoveDown(m, prev, bp, total, asize, n) ==
  Carve(memmove(m, prev, bp, n), prev, total, asize)

\* Mutant: the old block is not freed.
MoveAway_Leaks(h, bp, size, n) ==
  LET Moved(r) == IF r.bp = Null THEN r ELSE [r EXCEPT !.mem = memmove(@, r.bp, bp, n)]
  IN  Moved(mm_malloc(h, size))

\* Mutant: the old block is freed first.
MoveAway_FreesFirst(h, bp, size, n) ==
  LET Moved(r) == IF r.bp = Null THEN r ELSE [r EXCEPT !.mem = memmove(@, r.bp, bp, n)]
  IN  Moved(mm_malloc([h EXCEPT !.mem = mm_free(@, bp)], size))

\* The payload moves to a new block.
MoveAway(h, bp, size, n) ==
  LET Moved(r) == IF r.bp = Null THEN r
                  ELSE [r EXCEPT !.mem = mm_free(memmove(@, r.bp, bp, n), bp)]
  IN  Moved(mm_malloc(h, size))

mm_realloc(h, bp, size) ==
  LET m        == h.mem
      asize    == Adjust(size)
      next     == NEXT_BLKP(m, bp)
      prev     == PREV_BLKP(m, bp)
      nextFree == GET_ALLOC(m[HDRP(next)]) = 0
      prevFree == GET_ALLOC(m[HDRP(prev)]) = 0
      old      == SizeOf(m, bp)
      n        == Min2(old - DSIZE, size)
      Kept(x, to) == Result(x, h.brk, to)
  IN  CASE bp = Null -> mm_malloc(h, size)
        [] bp # Null /\ size = 0 -> Kept(mm_free(m, bp), Null)
        [] bp # Null /\ size # 0 /\ asize <= old -> Kept(Carve(m, bp, old, asize), bp)
        [] bp # Null /\ size # 0 /\ asize > old ->
             IF nextFree /\ ~prevFree /\ old + SizeOf(m, next) >= asize
             THEN Kept(Carve(remove_free_block(m, next), bp, old + SizeOf(m, next), asize), bp)
             ELSE IF prevFree /\ ~nextFree /\ old + SizeOf(m, prev) >= asize
             THEN Kept(MoveDown(remove_free_block(m, prev), prev, bp,
                                old + SizeOf(m, prev), asize, n), prev)
             \* line 329: prev_alloc, which is 0, is added, not prev_size
             ELSE IF prevFree /\ nextFree /\ old + SizeOf(m, next) >= asize
             THEN Kept(MoveDown(remove_free_block(remove_free_block(m, prev), next), prev, bp,
                                old + SizeOf(m, prev) + SizeOf(m, next), asize, n), prev)
             ELSE MoveAway(h, bp, size, n)
==============================================================================
