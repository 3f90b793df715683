------------------------------ MODULE Matrices ------------------------------
(***************************************************************************)
(* Matrices (Matrix<T> of basics/matrix/c_src/matrix.h), as a script uses  *)
(* them through their binding (binding/bind_matrix.lua.cc) and as they use *)
(* BLAS (basics/math/c_src/cblas_wrapper.cu, in a build without CUDA).     *)
(*                                                                         *)
(* A matrix is a view of a block of memory: element c is at position       *)
(* offset + c[1]*stride[1] + ... of its block, and a slice that is not     *)
(* cloned shares the block of the matrix it was taken from.  Coordinates   *)
(* and positions start at 0, dimensions at 1.  A call that is refused ends *)
(* the program or raises an error of Lua, and is not a step.               *)
(*                                                                         *)
(* Mishandled says whether calls that the class is known to get wrong      *)
(* occur; Works marks them.  Elements are integers, and norm2 is its       *)
(* square.                                                                 *)
(***************************************************************************)
EXTENDS Integers, SequencesExt

CONSTANTS
    Scripts,         \* what scripts begin with: tables with a size and an order, and slices
    Windows(_),     \* the slices that a script takes of a size: a position and a size
    Scalars,        \* numbers that a script multiplies by
    Mishandled,
    MaxCalls        \* bound

VARIABLES
    mat,            \* the matrices: the fields of the class
    data,           \* the blocks of memory
    call,           \* the call just made
    calls           \* how many have been made

matrixVars == <<mat, data, call, calls>>

Product(s) == FoldLeft(LAMBDA a, b : a * b, 1, s)
Total(s)   == FoldLeft(LAMBDA a, b : a + b, 0, s)

Works(condition) == Mishandled \/ condition
-----------------------------------------------------------------------------
(***************************************************************************)
(* Positions, and the two orders in which coordinates are walked.          *)
(***************************************************************************)
\* initialize
Strides(size, order) ==
    [i \in DOMAIN size |-> IF order = "row" THEN Product(SubSeq(size, i + 1, Len(size)))
                                            ELSE Product(SubSeq(size, 1, i - 1))]

NewMatrix(size, order, block) ==
    [size |-> size, stride |-> Strides(size, order), offset |-> 0, isSub |-> FALSE,
     order |-> order, last |-> Product(size) - 1, block |-> block]

\* computeRawPos
RawPos(m, c) ==
    m.offset + (IF Len(c) = 1 THEN c[1] ELSE Total([i \in DOMAIN c |-> c[i] * m.stride[i]]))

Coordinates(size) ==
    {c \in [DOMAIN size -> 0..Max(ToSet(size))] : \A i \in DOMAIN size : c[i] < size[i]}

Origin(size) == [i \in DOMAIN size |-> 0]

\* nextCoordVectorRowOrder, and nextCoordVectorColOrder, before the last
\* coordinates: one of them grows and those that change faster go back to 0.
NextCoordVectorRowOrder(c, size) ==
    LET j == Max({i \in DOMAIN c : c[i] + 1 < size[i]})
    IN SubSeq(c, 1, j - 1) \o <<c[j] + 1>> \o Origin(SubSeq(size, j + 1, Len(size)))

NextCoordVectorColOrder(c, size) ==
    LET j == Min({i \in DOMAIN c : c[i] + 1 < size[i]})
    IN Origin(SubSeq(size, 1, j - 1)) \o <<c[j] + 1>> \o SubSeq(c, j + 1, Len(c))

RowOrder(size) ==
    FoldLeft(LAMBDA cs, k : Append(cs, NextCoordVectorRowOrder(Last(cs), size)),
             <<Origin(size)>>, Tail([k \in 1..Product(size) |-> k]))

ColOrder(size) ==
    FoldLeft(LAMBDA cs, k : Append(cs, NextCoordVectorColOrder(Last(cs), size)),
             <<Origin(size)>>, Tail([k \in 1..Product(size) |-> k]))

\* Mutant: the position grows by one also in a slice.
VisitedInRow(m) == [k \in 1..Product(m.size) |-> m.offset + k - 1]

\* The positions at which an iterator stops, from begin to end.
Visited(m) ==
    IF m.isSub \/ m.order = "col"
    THEN LET here == RowOrder(m.size) IN [k \in DOMAIN here |-> RawPos(m, here[k])]
    ELSE [k \in 1..(m.last + 1 - m.offset) |-> m.offset + k - 1]

\* The positions a BLAS routine visits: n of them from p by an increment.
Run(p, inc, n) == [k \in 1..n |-> p + (k - 1) * inc]

\* The lines of a matrix: from each element that is first in dimension first,
\* as many elements as dimension along has, by its stride.
Lines(m, first, along) ==
    LET heads == SelectSeq(RowOrder(m.size), LAMBDA c : c[first] = 0)
    IN FlattenSeq([k \in DOMAIN heads |->
           Run(RawPos(m, heads[k]), m.stride[along], m.size[along])])

\* The dimension of consecutive elements.
Inner(m) == IF m.order = "row" THEN Len(m.size) ELSE 1
-----------------------------------------------------------------------------
(***************************************************************************)
(* Blocks.                                                                 *)
(***************************************************************************)
Read(m, positions) == [k \in DOMAIN positions |-> data[m.block][positions[k]]]

\* The block after writing values at positions, one after the other.
Written(block, positions, values) ==
    FoldLeft(LAMBDA d, w : [d EXCEPT ![w[1]] = w[2]], block, Zip(positions, values))

Blank(size) == [p \in 0..(Product(size) - 1) |-> 0]

\* A new matrix with a block of its own, filled by an iterator.
Allocates(size, order, isSub, values) ==
    LET new == [NewMatrix(size, order, Len(data) + 1) EXCEPT !.isSub = isSub] IN
    /\ mat' = Append(mat, new)
    /\ data' = Append(data, Written(Blank(size), Visited(new), values))

Writes(m, positions, values) ==
    /\ data' = [data EXCEPT ![m.block] = Written(@, positions, values)]
    /\ UNCHANGED mat

Called(c) ==
    /\ calls < MaxCalls
    /\ calls' = calls + 1
    /\ call' = c

\* The constructor of the binding, with a table.
Started(start) ==
    [k \in DOMAIN start |->
        LET new == NewMatrix(start[k].size, start[k].order, k)
        IN [matrix |-> new,
            block  |-> Written(Blank(new.size), Visited(new), start[k].table)]]

\* The constructor of a slice that is not cloned.
View(m, from, size) ==
    LET view == [m EXCEPT !.size = size, !.offset = RawPos(m, from), !.isSub = TRUE]
    IN [view EXCEPT !.last = RawPos(view, [i \in DOMAIN size |-> size[i] - 1])]

Init ==
    /\ \E start \in Scripts :
          LET made == [k \in DOMAIN start.tables |-> Started(start.tables)[k].matrix]
          IN /\ mat = made \o [k \in DOMAIN start.slices |->
                          LET s == start.slices[k] IN View(made[s.of], s.from, s.size)]
             /\ data = [k \in DOMAIN start.tables |-> Started(start.tables)[k].block]
    /\ call = [op |-> "start"]
    /\ calls = 0
-----------------------------------------------------------------------------
(***************************************************************************)
(* Calls that return a new matrix.                                         *)
(***************************************************************************)
Slice(h, from, size, clone) ==
    LET m == mat[h]
        here == RowOrder(size)
    IN
    /\ Called([op |-> "slice", of |-> h, from |-> from, size |-> size, clone |-> clone])
    /\ Len(from) = Len(m.size)
    /\ \A i \in DOMAIN size : size[i] + from[i] <= m.size[i]
    /\ IF clone
       THEN /\ Works(m.offset = 0)      \* the offset counts twice
            /\ Allocates(size, m.order, TRUE,
                   Read(m, [k \in DOMAIN here |-> RawPos(m, from) + RawPos(m, here[k])]))
       ELSE /\ mat' = Append(mat, View(m, from, size))
            /\ UNCHANGED data

\* clone of the binding: "row_major" is the order of the matrix.
Clone(h, major) ==
    LET m == mat[h]
        order == IF major = "col" THEN "col" ELSE m.order
    IN
    /\ Called([op |-> "clone", of |-> h, order |-> IF major = "none" THEN m.order ELSE major])
    /\ Works(major = "row" => m.order = "row")
    /\ major # "none" => Len(m.size) = 2
    /\ Allocates(m.size, order, FALSE, Read(m, Visited(m)))

Transpose(h) ==
    LET m == mat[h]
        there == ColOrder(m.size)
    IN
    /\ Called([op |-> "transpose", of |-> h])
    /\ Allocates(Reverse(m.size), m.order, FALSE,
           Read(m, [k \in DOMAIN there |-> RawPos(m, there[k])]))

\* What toString and toFilename write: the elements are integers of few digits.
Saved(m) == [size |-> m.size, order |-> m.order, elements |-> Read(m, Visited(m))]

\* fromString or fromFilename of what they wrote.
Reload(h) ==
    LET stream == Saved(mat[h]) IN
    /\ Called([op |-> "reload", of |-> h, order |-> stream.order])
    /\ Allocates(stream.size, stream.order, FALSE, stream.elements)

\* The elements that axpy pairs: in order when neither matrix is a slice, and
\* line by line otherwise.
AxpyPositions(m, o) ==
    IF ~m.isSub /\ ~o.isSub THEN Run(0, 1, Product(m.size)) ELSE Lines(m, Inner(m), Inner(m))

\* addition and substraction: axpy on a clone.
Addition(h, g, op, alpha) ==
    LET m == mat[h]
        o == mat[g]
        new == NewMatrix(m.size, m.order, Len(data) + 1)
        copy == Written(Blank(m.size), Visited(new), Read(m, Visited(m)))
        mine == AxpyPositions(new, o)
        added == Read(o, AxpyPositions(o, new))
    IN
    /\ Called([op |-> op, of |-> h, other |-> g, alpha |-> alpha])
    /\ m.size = o.size /\ m.order = o.order
    /\ mat' = Append(mat, new)
    /\ data' = Append(data, Written(copy, mine,
                   [k \in DOMAIN mine |-> copy[mine[k]] + alpha * added[k]]))
-----------------------------------------------------------------------------
(***************************************************************************)
(* BLAS, as the wrappers call it: matrices are given by a position, an     *)
(* order and the distance between their rows or columns, vectors by a      *)
(* position and an increment.                                              *)
(***************************************************************************)
BlasEntry(order, ld, i, j) == IF order = "row" THEN i * ld + j ELSE j * ld + i

BlasOp(order, trans, ld, i, j) ==
    IF trans THEN BlasEntry(order, ld, j, i) ELSE BlasEntry(order, ld, i, j)

Products(n, x, y) == Total([k \in 1..n |-> x[k] * y[k]])

\* Entry i, j (from 0) of an operand.
EntryOf(order, a, i, j) == a.block[a.shift + BlasOp(order, a.trans, a.ld, i, j)]

\* C of size M by N becomes alpha op(A) op(B) + beta C.
Sgemm(order, M, N, K, alpha, a, b, beta, c, cShift, ldc) ==
    LET positions == [k \in 1..(M * N) |->
                         cShift + BlasEntry(order, ldc, (k - 1) \div N, (k - 1) % N)]
        row(i)    == [l \in 1..K |-> EntryOf(order, a, i, l - 1)]
        column(j) == [l \in 1..K |-> EntryOf(order, b, l - 1, j)]
    IN Written(c, positions, [k \in 1..(M * N) |->
           alpha * Products(K, row((k - 1) \div N), column((k - 1) % N)) + beta * c[positions[k]]])

\* y becomes alpha op(A) x + beta y, where A has M rows and N columns.
Sgemv(order, M, N, alpha, a, x, beta, y, yPositions) ==
    LET rows == IF a.trans THEN N ELSE M
        columns == IF a.trans THEN M ELSE N
        row(i) == [l \in 1..columns |-> EntryOf(order, a, i - 1, l - 1)]
    IN Written(y, SubSeq(yPositions, 1, rows), [i \in 1..rows |->
           alpha * Products(columns, row(i), x) + beta * y[yPositions[i]]])

\* A becomes alpha x y' + A.
Sger(order, M, N, alpha, x, y, a, aShift, lda) ==
    LET positions == [k \in 1..(M * N) |->
                         aShift + BlasEntry(order, lda, (k - 1) \div N, (k - 1) % N)]
    IN Written(a, positions, [k \in 1..(M * N) |->
           a[positions[k]] + alpha * x[((k - 1) \div N) + 1] * y[((k - 1) % N) + 1]])
-----------------------------------------------------------------------------
(***************************************************************************)
(* Vectors.                                                                *)
(***************************************************************************)
IsVector(m) == Len(m.size) = 1 \/ (Len(m.size) = 2 /\ 1 \in {m.size[1], m.size[2]})

IsColVector(m) == Len(m.size) = 2 /\ m.size[2] = 1

VectorSize(m) == IF Len(m.size) = 1 THEN m.size[1] ELSE Max({m.size[1], m.size[2]})

VectorStride(m) ==
    IF Len(m.size) = 1 THEN m.stride[1]
    ELSE IF m.order = "row" THEN m.stride[2] ELSE m.stride[1]

\* The stride is that of the dimension of the vector: not so in a column of a
\* row-major matrix nor in a row of a column-major one.
Straight(m) ==
    VectorSize(m) = 1 \/ VectorStride(m) = m.stride[IF IsColVector(m) THEN 1 ELSE Len(m.size)]

VectorPositions(m) == Run(m.offset, VectorStride(m), VectorSize(m))

\* Mutant: the distance between rows is their length.
LeadingOfSize(m) == IF m.order = "row" THEN m.size[2] ELSE m.size[1]

Leading(m) == IF m.order = "row" THEN m.stride[1] ELSE m.stride[2]

Operand(m, trans) ==
    [trans |-> trans, block |-> data[m.block], shift |-> m.offset, ld |-> Leading(m)]

\* The value of dot.
Dot(m, o) == Products(VectorSize(m), Read(m, VectorPositions(m)), Read(o, VectorPositions(o)))

\* The size of a matrix, or of its transpose, in a dimension.
Side(m, transposed, i) == m.size[IF transposed THEN 3 - i ELSE i]

MultiplySize(m, o) ==
    IF IsVector(o) /\ IsColVector(m) THEN <<VectorSize(m), VectorSize(o)>>
    ELSE IF IsVector(o) /\ ~IsVector(m)
         THEN IF Len(o.size) = 1 THEN <<m.size[1]>> ELSE <<m.size[1], 1>>
    ELSE IF IsVector(o) THEN <<1>>
    ELSE <<m.size[1], o.size[2]>>

MultiplyAgrees(m, o) ==
    IF IsVector(o) /\ IsColVector(m) THEN TRUE
    ELSE IF IsVector(o) /\ ~IsVector(m) THEN Len(m.size) = 2 /\ m.size[2] = VectorSize(o)
    ELSE IF IsVector(o) THEN VectorSize(m) = VectorSize(o)
    ELSE Len(m.size) = 2 /\ Len(o.size) = 2 /\ m.size[2] = o.size[1]

\* multiply: ger, gemv, dot or gemm over a new matrix of zeros.
Multiply(h, g) ==
    LET m == mat[h]
        o == mat[g]
        new == NewMatrix(MultiplySize(m, o), m.order, Len(data) + 1)
        zeros == Blank(new.size)
    IN
    /\ Called([op |-> "mul", of |-> h, other |-> g])
    /\ MultiplyAgrees(m, o) /\ m.order = o.order
    /\ mat' = Append(mat, new)
    /\ \/ /\ IsVector(o) /\ IsColVector(m)
          /\ Works(Straight(m) /\ Straight(o))
          /\ data' = Append(data, Sger(m.order, VectorSize(m), VectorSize(o), 1,
                         Read(m, VectorPositions(m)), Read(o, VectorPositions(o)),
                         zeros, 0, Leading(new)))
       \/ /\ IsVector(o) /\ ~IsVector(m)
          /\ Works(Straight(o))
          /\ data' = Append(data, Sgemv(m.order, m.size[1], m.size[2], 1,
                         Operand(m, FALSE), Read(o, VectorPositions(o)),
                         0, zeros, VectorPositions(new)))
       \/ /\ IsVector(o) /\ IsVector(m) /\ ~IsColVector(m)
          /\ Works(Straight(m) /\ Straight(o))
          /\ data' = Append(data, [zeros EXCEPT ![0] = Dot(m, o)])
       \/ /\ ~IsVector(o)
          /\ data' = Append(data, Sgemm(m.order, m.size[1], o.size[2], m.size[2], 1,
                         Operand(m, FALSE), Operand(o, FALSE), 0, zeros, 0, Leading(new)))
-----------------------------------------------------------------------------
(***************************************************************************)
(* Calls that change what a matrix shows.                                  *)
(***************************************************************************)
SetElement(h, c, v) ==
    /\ Called([op |-> "set", of |-> h, at |-> c, value |-> v])
    /\ Len(c) = Len(mat[h].size) /\ \A i \in DOMAIN c : c[i] \in 0..(mat[h].size[i] - 1)
    /\ Writes(mat[h], <<RawPos(mat[h], c)>>, <<v>>)

Fill(h, v) ==
    /\ Called([op |-> "fill", of |-> h, value |-> v])
    /\ Writes(mat[h], Visited(mat[h]), [k \in 1..Product(mat[h].size) |-> v])

CopyFromTable(h, table) ==
    /\ Called([op |-> "copy_from_table", of |-> h, table |-> table])
    /\ Len(table) = Product(mat[h].size)
    /\ Writes(mat[h], Visited(mat[h]), table)

Diag(h, v) ==
    LET m == mat[h] IN
    /\ Called([op |-> "diag", of |-> h, value |-> v])
    /\ \A i \in 2..Len(m.size) : m.size[i] = m.size[i - 1]
    /\ Writes(m, [i \in 1..m.size[1] |-> RawPos(m, [j \in DOMAIN m.size |-> i - 1])],
                 [i \in 1..m.size[1] |-> v])

\* clamp goes over the first positions of the block.
Clamp(h, lower, upper) ==
    LET m == mat[h]
        positions == Run(0, 1, Product(m.size))
        old == Read(m, positions)
    IN
    /\ Called([op |-> "clamp", of |-> h, lower |-> lower, upper |-> upper])
    /\ Works(m.offset = 0 /\ m.last = Product(m.size) - 1)
    /\ Writes(m, positions, [k \in DOMAIN old |->
           IF old[k] < lower THEN lower ELSE IF old[k] > upper THEN upper ELSE old[k]])

\* In a column-major slice, scal goes by rows from the heads of the columns.
ScalPositions(m) ==
    IF ~m.isSub THEN Run(0, 1, Product(m.size)) ELSE Lines(m, Inner(m), Len(m.size))

Scal(h, v) ==
    LET m == mat[h] IN
    /\ Called([op |-> "scal", of |-> h, value |-> v])
    /\ Works(m.isSub /\ m.order = "col" => Len(m.size) = 1)
    /\ data' = [data EXCEPT ![m.block] =
           FoldLeft(LAMBDA d, p : [d EXCEPT ![p] = v * @], @, ScalPositions(m))]
    /\ UNCHANGED mat

\* The elements whose squares norm2 adds.
NormPositions(m) ==
    IF ~m.isSub THEN Run(0, 1, Product(m.size)) ELSE Lines(m, Inner(m), Inner(m))

Minimum(m) == Min(ToSet(Read(m, Visited(m))))
Maximum(m) == Max(ToSet(Read(m, Visited(m))))

\* toTable, which is also what toString lists.
TableOf(m) == Read(m, Visited(m))

\* BLAS leaves open what it does when the result overlaps an operand: scripts
\* do not do that.
Cells(m) == {RawPos(m, c) : c \in Coordinates(m.size)}

Apart(h, others) ==
    /\ h \notin others
    /\ \A g \in others :
          mat[h].block # mat[g].block \/ Cells(mat[h]) \cap Cells(mat[g]) = {}

Axpy(h, alpha, g) ==
    LET m == mat[h]
        o == mat[g]
        mine == AxpyPositions(m, o)
        old == Read(m, mine)
        added == Read(o, AxpyPositions(o, m))
    IN
    /\ Called([op |-> "axpy", of |-> h, alpha |-> alpha, other |-> g])
    /\ m.size = o.size /\ m.order = o.order /\ Apart(h, {g})
    /\ Writes(m, mine, [k \in DOMAIN mine |-> old[k] + alpha * added[k]])

Gemm(h, transA, transB, alpha, f, g, beta) ==
    LET m == mat[h]
        a == mat[f]
        b == mat[g]
    IN
    /\ Called([op |-> "gemm", of |-> h, transA |-> transA, transB |-> transB,
               alpha |-> alpha, A |-> f, B |-> g, beta |-> beta])
    /\ Len(m.size) = 2 /\ Len(a.size) = 2 /\ Len(b.size) = 2
    /\ m.size = <<Side(a, transA, 1), Side(b, transB, 2)>>
    /\ Side(a, transA, 2) = Side(b, transB, 1)
    /\ m.order = a.order /\ a.order = b.order /\ Apart(h, {f, g})
    /\ data' = [data EXCEPT ![m.block] =
           Sgemm(m.order, m.size[1], m.size[2], Side(a, transA, 2), alpha,
                 Operand(a, transA), Operand(b, transB), beta, @, m.offset, Leading(m))]
    /\ UNCHANGED mat

\* M and N are those of the transposed matrix: BLAS expects those of A.
Gemv(h, transA, alpha, f, g, beta) ==
    LET m == mat[h]
        a == mat[f]
        x == mat[g]
    IN
    /\ Called([op |-> "gemv", of |-> h, transA |-> transA, alpha |-> alpha,
               A |-> f, X |-> g, beta |-> beta])
    /\ IsVector(m) /\ IsVector(x) /\ Len(a.size) = 2
    /\ VectorSize(m) = Side(a, transA, 1) /\ Side(a, transA, 2) = VectorSize(x)
    /\ m.order = a.order /\ a.order = x.order /\ Apart(h, {f, g})
    /\ Works(Straight(m) /\ Straight(x) /\ (transA => a.size[1] = a.size[2]))
    /\ data' = [data EXCEPT ![m.block] =
           Sgemv(m.order, Side(a, transA, 1), Side(a, transA, 2), alpha,
                 Operand(a, transA), Read(x, VectorPositions(x)),
                 beta, @, VectorPositions(m))]
    /\ UNCHANGED mat

Ger(h, alpha, f, g) ==
    LET m == mat[h]
        x == mat[f]
        y == mat[g]
    IN
    /\ Called([op |-> "ger", of |-> h, alpha |-> alpha, X |-> f, Y |-> g])
    /\ IsVector(x) /\ IsVector(y) /\ Len(m.size) = 2
    /\ m.size = <<VectorSize(x), VectorSize(y)>>
    /\ m.order = x.order /\ x.order = y.order /\ Apart(h, {f, g})
    /\ Works(Straight(x) /\ Straight(y))
    /\ data' = [data EXCEPT ![m.block] =
           Sger(m.order, m.size[1], m.size[2], alpha, Read(x, VectorPositions(x)),
                Read(y, VectorPositions(y)), @, m.offset, Leading(m))]
    /\ UNCHANGED mat
-----------------------------------------------------------------------------
Handles == DOMAIN mat

Next ==
    \/ \E h \in Handles :
          \/ \E w \in Windows(mat[h].size) : \E clone \in BOOLEAN :
                Slice(h, w.from, w.size, clone)
          \/ \E major \in {"none", "row", "col"} : Clone(h, major)
          \/ Transpose(h)
          \/ Reload(h)
          \/ SetElement(h, [i \in DOMAIN mat[h].size |-> mat[h].size[i] - 1], 5)
          \/ Fill(h, 4)
          \/ CopyFromTable(h, [k \in 1..Product(mat[h].size) |-> (2 * k) % 5])
          \/ Diag(h, 5)
          \/ Clamp(h, 3, 6)
          \/ \E v \in Scalars : Scal(h, v)
    \/ \E h, g \in Handles :
          \/ Addition(h, g, "add", 1)
          \/ Addition(h, g, "sub", -1)
          \/ Multiply(h, g)
          \/ \E alpha \in Scalars : Axpy(h, alpha, g)
    \/ \E h, f, g \in Handles : \E alpha \in Scalars :
          \/ \E transA, transB \in BOOLEAN : Gemm(h, transA, transB, alpha, f, g, 2)
          \/ \E transA \in BOOLEAN : Gemv(h, transA, alpha, f, g, 2)
          \/ Ger(h, alpha, f, g)

Spec == Init /\ [][Next]_matrixVars
-----------------------------------------------------------------------------
(***************************************************************************)
(* What the positions, strides and orders of the class stand for: the cell *)
(* of an element is its position in its block.                             *)
(***************************************************************************)
Textbook == INSTANCE TextbookMatrices WITH
    shown <- [h \in DOMAIN mat |->
                 [size |-> mat[h].size, order |-> mat[h].order,
                  at |-> [c \in Coordinates(mat[h].size) |->
                             <<mat[h].block, RawPos(mat[h], c)>>]]],
    value <- [cell \in UNION {{b} \X DOMAIN data[b] : b \in DOMAIN data} |->
                 data[cell[1]][cell[2]]],
    call  <- call

(***************************************************************************)
(* The operations of the class, with their strides, offsets and leading    *)
(* dimensions, over whole matrices, slices, slices of slices and clones of *)
(* either order, do what the textbook says and touch nothing else: a write *)
(* through a slice is a write to those elements of its matrix.             *)
(***************************************************************************)
ImplementsTextbook == Textbook!Spec

(***************************************************************************)
(* Whatever has been written and sliced, the queries answer what the       *)
(* textbook does: toTable and toString list the elements in row-major      *)
(* order, min, max and norm2 see each element of a slice and no other, dot *)
(* multiplies the elements of two vectors in pairs.                        *)
(***************************************************************************)
AnswersAreRight ==
    \A h \in Handles :
        LET m == mat[h]
            summed == NormPositions(m)
        IN
        /\ Textbook!IsTableOf(TableOf(m), h)
        /\ Minimum(m) = Min(Textbook!Values(h))
        /\ Maximum(m) = Max(Textbook!Values(h))
        /\ Textbook!SeesEachOnce([k \in DOMAIN summed |-> <<m.block, summed[k]>>], h)
        /\ \A g \in Handles :
              /\ IsVector(m) /\ IsVector(mat[g])
              /\ VectorSize(m) = VectorSize(mat[g]) /\ m.order = mat[g].order
              /\ Works(Straight(m) /\ Straight(mat[g]))
              => Dot(m, mat[g]) = Textbook!Dot(h, g)
=============================================================================
