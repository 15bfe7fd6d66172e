------------------------------ MODULE Matrices ------------------------------
(***************************************************************************)
(* Matrix and TiledMatrix of cpputils: two ways to find element (i, j) in  *)
(* one array.  A matrix is a record of where it begins, its rows and       *)
(* columns and the stride of its leading dimension; an array is a function *)
(* from addresses to values.  Rows and columns count from zero.            *)
(***************************************************************************)
EXTENDS Naturals, FiniteSetsExt

(* The constructor, with the default of lDimSz = 0.                        *)
NewMatrix(ptr, rows, cols, lDimSz, rowMajor) ==
  [ptr |-> ptr, rows |-> rows, cols |-> cols, rowMajor |-> rowMajor,
   ldDimSz |-> IF lDimSz # 0 THEN lDimSz ELSE IF rowMajor THEN cols ELSE rows]

Indices(m) == (0..(m.rows - 1)) \X (0..(m.cols - 1))

Get(m, i, j) == m.ptr + (IF m.rowMajor THEN i * m.ldDimSz + j ELSE j * m.ldDimSz + i)

(* getSubMat cuts rows and columns off that are not there.  It compares    *)
(* the columns asked for with cols() - subCols, not with cols() -          *)
(* colOffset; the subtraction of size_t's wraps.                           *)
WIDTH == 2 ^ 16  \* of size_t; more than any matrix here has columns
CutsColumns(m, subCols) == subCols > (m.cols + WIDTH - subCols) % WIDTH

MutGetSubMat(m, rowOffset, colOffset, subRows, subCols) ==
  NewMatrix(Get(m, rowOffset, colOffset),
            Min({subRows, m.rows - rowOffset}),
            IF CutsColumns(m, subCols) THEN m.cols - colOffset ELSE subCols,
            0, m.rowMajor)
GetSubMat(m, rowOffset, colOffset, subRows, subCols) ==
  NewMatrix(Get(m, rowOffset, colOffset),
            Min({subRows, m.rows - rowOffset}),
            IF CutsColumns(m, subCols) THEN m.cols - colOffset ELSE subCols,
            m.ldDimSz, m.rowMajor)

-----------------------------------------------------------------------------
(* TiledMatrix: tiles of B by B elements, each one contiguous, laid out    *)
(* the way the elements of a tile are.                                     *)
calcTiles(dimSize, B) == (dimSize + B - 1) \div B
NewTiled(rows, cols, B, rowMajor) ==
  [rows |-> rows, cols |-> cols, B |-> B, rowMajor |-> rowMajor,
   rowTiles |-> calcTiles(rows, B), colTiles |-> calcTiles(cols, B)]
storageSize(t) == calcTiles(t.rows, t.B) * calcTiles(t.cols, t.B) * t.B * t.B

GetTile(t, trow, tcol) ==
  NewMatrix((IF t.rowMajor THEN t.colTiles * trow + tcol ELSE t.rowTiles * tcol + trow) * t.B * t.B,
            t.B, t.B, t.B, t.rowMajor)

Index(t, i, j) == Get(GetTile(t, i \div t.B, j \div t.B), i % t.B, j % t.B)

-----------------------------------------------------------------------------
(* MatrixHelper: transpose swaps in place and swaps the sizes, the copy    *)
(* goes between two layouts, the lower triangle is kept.                   *)
Swap(arr, a, b) == [arr EXCEPT ![a] = arr[b], ![b] = arr[a]]
SwapPairs(m) == {p \in Indices(m) : p[1] < p[2]}
Transpose(m, arr) ==
  [matrix |-> NewMatrix(m.ptr, m.cols, m.rows, 0, m.rowMajor),
   arr |-> FoldSet(LAMBDA p, r : Swap(r, Get(m, p[1], p[2]), Get(m, p[2], p[1])), arr, SwapPairs(m))]

CopyMatrix(dst, dstArr, src, srcArr) ==
  FoldSet(LAMBDA p, r : [r EXCEPT ![Index(dst, p[1], p[2])] = srcArr[Get(src, p[1], p[2])]],
          dstArr, Indices(src))

ConvToLowerTri(m, arr) ==
  FoldSet(LAMBDA p, r : [r EXCEPT ![Get(m, p[1], p[2])] = 0], arr, SwapPairs(m))

(* The generators fill a matrix of their own; that of random values gives  *)
(* the values it drew.                                                     *)
genSymPosDefMat_Naive(n) ==
  [a \in 0..(n * n - 1) |-> IF \E i \in 0..(n - 1) : a = Get(NewMatrix(0, n, n, 0, TRUE), i, i) THEN n ELSE 1]
genSameValMatrix(rows, cols, val) == [a \in 0..(rows * cols - 1) |-> val]
genRandMatrix(rows, cols, dist) ==
  FoldSet(LAMBDA p, r : [r EXCEPT ![Get(NewMatrix(0, rows, cols, 0, TRUE), p[1], p[2])] = dist[p]],
          genSameValMatrix(rows, cols, 1), Indices(NewMatrix(0, rows, cols, 0, TRUE)))

(* compareMatrices: sizes that differ are reported and do not count; the   *)
(* elements compared are those of m1, also where m2 has none.              *)
compareMatrices(m1, arr1, m2, arr2) ==
  \A p \in Indices(m1) : arr1[Get(m1, p[1], p[2])] = arr2[Get(m2, p[1], p[2])]

-----------------------------------------------------------------------------
(* A sub-matrix shows its parent's elements from the offset on, and has    *)
(* the columns it was asked for, as many as there are: exactly when what   *)
(* is asked for is at most half of the parent's columns, or more than the  *)
(* parent's, and there, or is more than half of them and reaches the end.  *)
(* Otherwise it is wider than was asked for, or its rows run into the next. *)
SubMatShowsParent(m, rowOff, colOff, subRows, subCols) ==
  LET s == GetSubMat(m, rowOff, colOff, subRows, subCols)
      left == m.cols - colOff
      overHalf == 2 * subCols > m.cols /\ subCols <= m.cols
  IN /\ s.rows = Min({subRows, m.rows - rowOff})
     /\ (s.cols = Min({subCols, left})) <=> (IF overHalf THEN subCols >= left ELSE subCols <= left)
     /\ \A p \in Indices(s) :
          p[2] < left => Get(s, p[1], p[2]) = Get(m, rowOff + p[1], colOff + p[2])

(* A tiled matrix has a place of its own in its storage for each element,  *)
(* the place where its tile has it.                                        *)
TilesHoldAll(t) ==
  /\ \A p, q \in Indices(t) : p # q => Index(t, p[1], p[2]) # Index(t, q[1], q[2])
  /\ \A p \in Indices(t) : Index(t, p[1], p[2]) < storageSize(t)

(* Copied into tiles and out again nothing changes; transposed, the rows   *)
(* are the columns (square matrices, the only ones the in-place loop fits). *)
HelpersAgree(m, t) ==
  LET arr == [a \in 0..(m.rows * m.ldDimSz + m.cols * m.ldDimSz) |-> a + 1]
      tiled == CopyMatrix(t, [a \in 0..(storageSize(t) - 1) |-> 0], m, arr)
      turned == Transpose(m, arr)
      lower == ConvToLowerTri(m, arr)
  IN \A p \in Indices(m) :
       /\ tiled[Index(t, p[1], p[2])] = arr[Get(m, p[1], p[2])]
       /\ m.rows = m.cols /\ m.ldDimSz = m.cols =>
            turned.arr[Get(turned.matrix, p[2], p[1])] = arr[Get(m, p[1], p[2])]
       /\ lower[Get(m, p[1], p[2])] = (IF p[1] < p[2] THEN 0 ELSE arr[Get(m, p[1], p[2])])

(* A generated matrix is what was asked for, and compareMatrices passes    *)
(* for equal matrices and not for those that differ in an element of the   *)
(* first; a first matrix without the last row or column of the second also *)
(* passes, if its rows are as far apart.                                   *)
ComparesWhatIsThere(rows, cols, dist) ==
  LET m == NewMatrix(0, rows, cols, 0, TRUE)
      arr == genRandMatrix(rows, cols, dist)
  IN /\ compareMatrices(m, arr, m, arr)
     /\ \A p \in Indices(m) :
          /\ arr[Get(m, p[1], p[2])] = dist[p]
          /\ ~compareMatrices(m, arr, m, [arr EXCEPT ![Get(m, p[1], p[2])] = @ + 1])
     /\ \A r \in 0..rows, c \in 0..cols :
          compareMatrices(NewMatrix(0, r, c, cols, TRUE), arr, m, arr)
     /\ rows = cols => \A p \in Indices(m) :
          genSymPosDefMat_Naive(rows)[Get(m, p[1], p[2])] = (IF p[1] = p[2] THEN rows ELSE 1)
=============================================================================
