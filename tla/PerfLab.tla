------------------------------- MODULE PerfLab -------------------------------
(***************************************************************************)
(* The performance lab: the image kernels of perflab/kernels.c and the     *)
(* driver's tests of them (driver.c).  The images lie behind each other in *)
(* one array: the original, the result and a copy of the original.  A      *)
(* pixel is one number; the code does the same to its three colors.        *)
(***************************************************************************)
EXTENDS Integers, FiniteSets, FiniteSetsExt, SequencesExt

CONSTANT Unroll      \* the rows that one turn of rotate's loop copies: 32

RIDX(i, j, n) == i * n + j
Short(x)      == x % 65536

\* The array with a new image; the pixels behind the three images are black.
create(dim, pixel) ==
  LET size == dim * dim
  IN  [a \in 0 .. 3 * size + 2 * Unroll * dim - 1 |->
         CASE a < size -> pixel[a]
           [] a \in 2 * size .. 3 * size - 1 -> pixel[a - 2 * size]
           [] OTHER -> 0]

orig(data, dim)   == [a \in 0 .. dim * dim - 1 |-> data[a]]
result(data, dim) == [a \in 0 .. dim * dim - 1 |-> data[dim * dim + a]]
copy(data, dim)   == [a \in 0 .. dim * dim - 1 |-> data[2 * dim * dim + a]]

\* The array after the copies, in this order, of pixel c[1] to pixel c[2] of the result.
Copies(data, dim, cs) ==
  FoldLeft(LAMBDA d, c : [d EXCEPT ![dim * dim + c[2]] = d[c[1]]], data, cs)

naive_rotate(dim, data) ==
  Copies(data, dim, [n \in 1 .. dim * dim |->
    LET i == (n - 1) \div dim  j == (n - 1) % dim
    IN  <<RIDX(i, j, dim), RIDX(dim - 1 - j, i, dim)>>])

\* Whole turns of the loop only, also when dim is not a multiple of Unroll.
rotate(dim, data) ==
  LET turns == (dim + Unroll - 1) \div Unroll
  IN  Copies(data, dim, [n \in 1 .. turns * dim * Unroll |->
        LET i == Unroll * ((n - 1) \div (dim * Unroll)) + ((n - 1) % Unroll)
            j == ((n - 1) \div Unroll) % dim
        IN  <<RIDX(i, j, dim), RIDX(dim - 1 - j, i, dim)>>])

------------------------------------------------------------------------------
\* The sum and number of the pixels of src in rows is and columns js.
Sum(dim, src, is, js) ==
  LET cells == {RIDX(i, j, dim) : i \in is \cap (0 .. dim - 1), j \in js \cap (0 .. dim - 1)}
  IN  [sum |-> FoldSet(LAMBDA c, s : s + src[c], 0, cells), num |-> Cardinality(cells)]

avg(dim, i, j, src) == LET s == Sum(dim, src, i - 1 .. i + 1, j - 1 .. j + 1)
                       IN  Short(s.sum \div s.num)

naive_smooth(dim, data) ==
  [a \in DOMAIN data |-> IF a - dim * dim \notin 0 .. dim * dim - 1 THEN data[a]
                         ELSE LET r == a - dim * dim
                              IN  avg(dim, r \div dim, r % dim, data)]

\* Mutant: the column to the right is added at the right edge too.
NextColumn_Wraps(dim, src, i, j) == Sum(dim, src, i - 1 .. i + 1, {(j + 1) % dim})

\* The column that a step to the right of column j adds to the window.
NextColumn(dim, src, i, j) == Sum(dim, src, i - 1 .. i + 1, {j + 1})

\* A row is smoothed from left to right with the sums of three columns.
smooth(dim, data) ==
  LET Three(i) ==
        LET col[j \in -1 .. dim - 1] ==
              IF j = -1 THEN <<[sum |-> 0, num |-> 0], [sum |-> 0, num |-> 0],
                               Sum(dim, data, i - 1 .. i + 1, {0})>>
              ELSE LET c == col[j - 1] IN <<c[2], c[3], NextColumn(dim, data, i, j)>>
        IN  col
      Pixel(c) == Short((c[1].sum + c[2].sum + c[3].sum)
                          \div (c[1].num + c[2].num + c[3].num))
      rows     == [i \in 0 .. dim - 1 |-> Three(i)]
  IN  [a \in DOMAIN data |-> IF a - dim * dim \notin 0 .. dim * dim - 1 THEN data[a]
                             ELSE LET r == a - dim * dim
                                  IN  Pixel(rows[r \div dim][r % dim])]

------------------------------------------------------------------------------
\* The driver's tests, which also notice a change of the original.
check_orig(dim, data) == orig(data, dim) = copy(data, dim)

check_rotate(dim, data) ==
  /\ check_orig(dim, data)
  /\ \A i, j \in 0 .. dim - 1 :
       orig(data, dim)[RIDX(i, j, dim)] = result(data, dim)[RIDX(dim - 1 - j, i, dim)]

check_average(dim, i, j, src) ==
  LET Near(k) == {n \in k - 1 .. k + 1 : n >= 0 /\ n <= dim - 1}
      s == Sum(dim, src, Near(i), Near(j))
  IN  Short(s.sum \div s.num)

check_smooth(dim, data) ==
  /\ check_orig(dim, data)
  /\ \A i, j \in 0 .. dim - 1 :
       result(data, dim)[RIDX(i, j, dim)] = check_average(dim, i, j, orig(data, dim))

\* The kernels that are registered with the driver.
benchmarks_rotate == {"naive_rotate", "rotate"}
benchmarks_smooth == {"naive_smooth", "smooth"}

\* One turn of the drivers' loops: a new image, a run of a kernel on it, a check.
test_rotate(kernel, dim, pixel) ==
  LET data == create(dim, pixel)
  IN  check_rotate(dim, IF kernel = "rotate" THEN rotate(dim, data) ELSE naive_rotate(dim, data))

test_smooth(kernel, dim, pixel) ==
  LET data == create(dim, pixel)
  IN  check_smooth(dim, IF kernel = "smooth" THEN smooth(dim, data) ELSE naive_smooth(dim, data))

test_kernel(kernel, dim, pixel) == IF kernel \in benchmarks_rotate
                                   THEN test_rotate(kernel, dim, pixel)
                                   ELSE test_smooth(kernel, dim, pixel)
==============================================================================
