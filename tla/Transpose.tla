------------------------------ MODULE Transpose ------------------------------
(***************************************************************************)
(* Part B of the cache lab: the transpose functions of cachelab/trans.c,   *)
(* how tracegen.c validates one, and how test-trans.c counts its misses in *)
(* a direct mapped cache.  A matrix is a function of its rows and columns. *)
(* A run of a function changes a record x: the sizes, the matrices, and    *)
(* the cache with its misses.                                              *)
(***************************************************************************)
EXTENDS Integers, FiniteSets

\* for (k = from; k < to; k += step) acc = Body(acc, k). That a is taken from a set makes
\* TLC compute it once and before the body.
For(Body(_, _), acc, from, to, step) ==
  LET turns == IF to <= from THEN 0 ELSE (to - from + step - 1) \div step
      turn[n \in 0 .. turns] ==
        IF n = 0 THEN acc
        ELSE CHOOSE r \in {Body(a, from + step * (n - 1)) : a \in {turn[n - 1]}} : TRUE
  IN  turn[turns]

(* One cell: B[j][i] = A[i][j].  The matrices are declared with 256 rows   *)
(* of 256 ints, one behind the other, and used with rows of M and of N.    *)
(* The cache has one line of 2 ^ x.b bytes in each set.                    *)
IntBytes == 4
BaseB    == 256 * 256 * IntBytes

Access(x, addr) ==
  LET block == addr \div 2 ^ x.b
      set   == block % Cardinality(DOMAIN x.line)
  IN  IF x.line[set] = block THEN x
      ELSE [x EXCEPT !.line[set] = block, !.misses = @ + 1]

Copy(x, i, j) ==
  LET y == Access(Access(x, IntBytes * (i * x.M + j)), BaseB + IntBytes * (j * x.N + i))
  IN  [y EXCEPT !.B[<<j, i>>] = x.A[<<i, j>>]]

------------------------------------------------------------------------------
\* Mutant: the last row or column of the matrix is not part of a block.
BlockEnd_Short(from, size, edge) == IF from + size < edge THEN from + size ELSE edge - 1

\* Where a block that begins at from ends.
BlockEnd(from, size, edge) == IF from + size < edge THEN from + size ELSE edge

BlockSize(M, N) == CASE M = 32 /\ N = 32 -> 8
                     [] M = 64 /\ N = 64 -> 4
                     [] OTHER -> 16

\* Row after row.
trans(x) ==
  For(LAMBDA a, i : For(LAMBDA b, j : Copy(b, i, j), a, 0, x.M, 1), x, 0, x.N, 1)

\* Block after block, each cut off at the edge of the matrix.
transpose_submit(x) ==
  LET size == BlockSize(x.M, x.N)
      Block(a, ii, jj) ==
        For(LAMBDA b, i : For(LAMBDA c, j : Copy(c, i, j), b, jj, BlockEnd(jj, size, x.M), 1),
            a, ii, BlockEnd(ii, size, x.N), 1)
  IN  For(LAMBDA a, ii : For(LAMBDA b, jj : Block(b, ii, jj), a, 0, x.M, size),
          x, 0, x.N, size)

\* The functions that are registered with the driver.
func_list == {"transpose_submit", "trans"}

Run(func, x) == IF func = "trans" THEN trans(x) ELSE transpose_submit(x)

------------------------------------------------------------------------------
Matrix(rows, columns, Cell(_, _)) ==
  [c \in (0 .. rows - 1) \X (0 .. columns - 1) |-> Cell(c[1], c[2])]

\* Every cell of the two matrices is another number; the code fills them at random.
initMatrix(M, N) == [A |-> Matrix(N, M, LAMBDA i, j : i * M + j),
                     B |-> Matrix(M, N, LAMBDA i, j : M * N + i * N + j)]

\* With an empty cache of 2 ^ s sets.
Start(M, N, s, b) ==
  LET m == initMatrix(M, N)
  IN  [M |-> M, N |-> N, A |-> m.A, B |-> m.B,
       b |-> b, line |-> [set \in 0 .. 2 ^ s - 1 |-> -1], misses |-> 0]

correctTrans(M, N, A) == Matrix(M, N, LAMBDA i, j : A[<<j, i>>])

validate(func, M, N) ==
  LET x == Start(M, N, 0, 0)
  IN  Run(func, x).B = correctTrans(M, N, x.A)

\* The trace of a function holds the load and the store of each copy.
eval_perf(func, M, N, s, b) == Run(func, Start(M, N, s, b)).misses
==============================================================================
