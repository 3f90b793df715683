------------------------------ MODULE Datasets ------------------------------
(***************************************************************************)
(* Datasets (basics/dataset/c_src/dataset.{h,cc}): sets of patterns, read  *)
(* and written by index.  Some keep data (matrix, byte, bit, accumulate,   *)
(* sparse), the others are views of other datasets.                        *)
(*                                                                         *)
(* A dataset is a record whose kind names its class and whose other fields *)
(* are those of the class; parts (or ds, when there is one) are the        *)
(* datasets it is a view of.  The data is in st[leaf], a function of the   *)
(* position in the array of leaf.  Indexes of patterns and positions start *)
(* at 0, as in the code; a pattern is a sequence.                          *)
(*                                                                         *)
(* Operators are recursive over the tree of datasets, and meant for TLC.   *)
(***************************************************************************)
EXTENDS PartialSums, SequencesExt

CONSTANT Outside        \* no cell: a position outside of the matrix

Product(s) == FoldLeft(LAMBDA a, b : a * b, 1, s)

Clamp(x, lo, hi) == IF x < lo THEN lo ELSE IF x > hi THEN hi ELSE x

RECURSIVE NumPatterns(_)
NumPatterns(ds) ==
    CASE ds.kind = "matrix"   -> Product(ds.numSteps)
      [] ds.kind = "identity" -> ds.patternSize
      [] ds.kind = "union"    -> Total([j \in DOMAIN ds.parts |-> NumPatterns(ds.parts[j])])
      [] ds.kind = "sub"      -> ds.fin - ds.ini + 1
      [] ds.kind = "join"     -> NumPatterns(ds.parts[1])
      [] ds.kind = "filter"   -> Len(ds.indexes)
      [] ds.kind = "index"    -> NumPatterns(ds.indices)
      [] ds.kind \in {"byte", "bit", "accumulate", "sparse"} -> ds.numPatterns
      [] OTHER                -> NumPatterns(ds.ds)

RECURSIVE PatternSize(_)
PatternSize(ds) ==
    CASE ds.kind = "matrix"     -> Product(ds.subMatrixSize)
      [] ds.kind = "union"      -> PatternSize(ds.parts[1])
      [] ds.kind = "split"      -> ds.fin - ds.ini + 1
      [] ds.kind \in {"join", "index"} ->
              Total([j \in DOMAIN ds.parts |-> PatternSize(ds.parts[j])])
      [] ds.kind = "linearcomb" -> Len(ds.conf)
      [] ds.kind = "contextualizer" -> PatternSize(ds.ds) * (ds.izq + 1 + ds.der)
      [] ds.kind = "deriv"      -> PatternSize(ds.ds) * Cardinality(ds.orders)
      [] ds.kind = "cache"      -> ds.cacheSize
      [] ds.kind \in {"identity", "byte", "bit", "accumulate", "sparse"} -> ds.patternSize
      [] OTHER                  -> PatternSize(ds.ds)

RECURSIVE GetPattern(_, _, _), PutCells(_, _, _)
-----------------------------------------------------------------------------
(***************************************************************************)
(* MatrixDataSet: a window of subMatrixSize moves over the matrix from     *)
(* offset, numSteps times in each dimension, by step; orderStep gives the  *)
(* dimensions from the one that moves first.                               *)
(***************************************************************************)
\* C's division, towards zero, and its remainder: index may be negative.
Quot(x, n) == IF x >= 0 THEN x \div n ELSE -((-x) \div n)

Index2Coordinate(ds, index) ==
    LET quot[k \in 0..Len(ds.dims)] ==
            IF k = 0 THEN index ELSE Quot(quot[k - 1], ds.numSteps[ds.orderStep[k]])
        at(j) == CHOOSE k \in DOMAIN ds.dims : ds.orderStep[k] = j
    IN [j \in DOMAIN ds.dims |->
            ds.offset[j] + (quot[at(j) - 1] - quot[at(j)] * ds.numSteps[j]) * ds.step[j]]

\* The cells that auxGetPattern reads and auxPutPattern writes, in order: the
\* two functions walk the window in the same way.  In a circular dimension
\* they go on with the size of the next dimension, not of this one.
RECURSIVE AuxCells(_, _, _, _)
AuxCells(ds, coordinate, offsetmatrix, d) ==
    LET t    == ds.dims[d]
        last == d = Len(ds.dims)
        rest == Product(SubSeq(ds.subMatrixSize, d + 1, Len(ds.dims)))
        Inner(c) == IF last THEN <<offsetmatrix * t + c>>
                    ELSE AuxCells(ds, coordinate, offsetmatrix * t + c, d + 1)
        Wrapped(c) == IF last THEN <<offsetmatrix * t + c>>
                      ELSE AuxCells(ds, coordinate,
                                    offsetmatrix * ds.dims[d + 1] + c, d + 1)
    IN FlattenSeq([i \in 1..ds.subMatrixSize[d] |->
           LET c == coordinate[d] + i - 1 IN
           IF ds.circular[d] THEN Wrapped(c % t)
           ELSE IF c < 0 \/ c >= t THEN [v \in 1..rest |-> Outside]
           ELSE Inner(c)])

MatrixCells(ds, index) == AuxCells(ds, Index2Coordinate(ds, index), 0, 1)

MatrixGet(ds, index, st) ==
    LET cells == MatrixCells(ds, index) IN
    [k \in DOMAIN cells |-> IF cells[k] = Outside THEN ds.defaultValue
                                                  ELSE st[ds.leaf][cells[k]]]

IdentityGet(ds, index) ==
    [k \in 1..ds.patternSize |-> IF k = index + 1 THEN ds.onevalue ELSE ds.zerovalue]

(***************************************************************************)
(* UnionDataSet finds the part of a pattern by binary search in the sums.  *)
(***************************************************************************)
RECURSIVE Locate(_, _, _, _)
Locate(d, index, izq, der) ==
    LET m == (izq + der) \div 2
        l == IF d[m] <= index THEN m ELSE izq
        r == IF d[m] <= index THEN der ELSE m
    IN IF l < r - 1 THEN Locate(d, index, l, r) ELSE l

UnionPart(ds, index) ==
    LET d    == Sums([j \in DOMAIN ds.parts |-> NumPatterns(ds.parts[j])])
        part == Locate(d, index, 0, Len(ds.parts))
    IN [ds |-> ds.parts[part + 1], index |-> index - d[part]]

SplitGet(ds, index, st) ==
    LET aux == GetPattern(ds.ds, index, st) IN
    [i \in 1..(ds.fin - ds.ini + 1) |-> aux[ds.ini + i]]

JoinGet(ds, index, st) ==
    FlattenSeq([j \in DOMAIN ds.parts |-> GetPattern(ds.parts[j], index, st)])

(***************************************************************************)
(* IndexDataSet: the pattern of indices names one pattern of each          *)
(* dictionary, counted from firstindex.  (A name that a dictionary or      *)
(* indices lack is not meant for getPattern, which takes the pattern of    *)
(* names read before, or what the caller's buffer holds.)                  *)
(***************************************************************************)
IndexGet(ds, index, st) ==
    LET patternindices == GetPattern(ds.indices, index, st) IN
    FlattenSeq([j \in DOMAIN ds.parts |->
        GetPattern(ds.parts[j], patternindices[j] - ds.firstindex, st)])

Padded(cells, size) == cells \o [k \in 1..(size - Len(cells)) |-> Outside]

\* putPattern also adds firstindex to the index of the pattern of indices, and
\* goes on in the pattern after as many values as a dictionary took.
IndexPutCells(ds, index, st) ==
    LET patternindices == GetPattern(ds.indices, index + ds.firstindex, st) IN
    Padded(FlattenSeq([j \in DOMAIN ds.parts |->
               PutCells(ds.parts[j], patternindices[j] - ds.firstindex, st)]),
           PatternSize(ds))

\* The tuples of an output value are pairs of an index and a weight; index 0
\* stands for the constant 1.
LinearCombGet(ds, index, st) ==
    LET aux == <<1>> \o GetPattern(ds.ds, index, st) IN
    [i \in DOMAIN ds.conf |->
        Total([j \in DOMAIN ds.conf[i] |-> aux[ds.conf[i][j][1] + 1] * ds.conf[i][j][2]])]

(***************************************************************************)
(* ContextualizerDataSet: the patterns from izq before to der after; the   *)
(* ends are repeated when read and passed over when written.               *)
(***************************************************************************)
ContextualizerGet(ds, index, st) ==
    LET n == NumPatterns(ds.ds)
        row(i) == LET j == index - ds.izq + i - 1 IN
                  IF i <= ds.izq THEN (IF j >= 0 THEN j ELSE 0)
                  ELSE IF i = ds.izq + 1 THEN j
                  ELSE (IF j < n THEN j ELSE n - 1)
        size == ds.izq + 1 + ds.der
        rows == [i \in 1..size |-> GetPattern(ds.ds, row(i), st)]
    IN FlattenSeq(IF ds.reverse THEN [i \in 1..size |-> rows[size + 1 - i]] ELSE rows)

ContextualizerPutCells(ds, index, st) ==
    LET n == NumPatterns(ds.ds) IN
    FlattenSeq([i \in 1..(ds.izq + 1 + ds.der) |->
        LET j == index - ds.izq + i - 1
            skipped == (i <= ds.izq /\ j < 0) \/ (i > ds.izq + 1 /\ j >= n)
        IN Padded(IF skipped THEN <<>> ELSE PutCells(ds.ds, j, st), PatternSize(ds.ds))])

SubIndex(ds, index)    == ds.ini + index
FilterIndex(ds, index) == ds.indexes[index + 1] - 1
-----------------------------------------------------------------------------
(***************************************************************************)
(* Datasets that keep their data.  ByteDataSet keeps a value v as the byte *)
(* nearest to (v - b) / a.                                                 *)
(***************************************************************************)
\* C's round: halves away from zero.
Round(x, a) == IF x >= 0 THEN (2 * x + a) \div (2 * a) ELSE -((a - 2 * x) \div (2 * a))

ByteGet(ds, index, st) ==
    [k \in 1..ds.patternSize |->
        ds.a * st[ds.leaf][index * ds.patternSize + k - 1] + ds.b]

BytePut(ds, v) == Clamp(Round(v - ds.b, ds.a), 0, 255)

AccumulateGet(ds, st) == [k \in 1..ds.patternSize |-> st[ds.leaf][k - 1]]

\* Mutant: patterns start at a new byte.
BitCellsAligned(ds, index) ==
    LET first == index * (8 * ((ds.patternSize + 7) \div 8)) IN
    [k \in 1..ds.patternSize |-> first + k - 1]

\* BitDataSet packs the patterns without gaps: bitPos runs from 0 to 7 and
\* then bytePos moves on.  Bit p of byte q is position 8 q + p.
BitCells(ds, index) ==
    LET first == index * ds.patternSize
        at[k \in 1..ds.patternSize] ==
            IF k = 1 THEN [bytePos |-> first \div 8, bitPos |-> first % 8]
            ELSE IF at[k - 1].bitPos + 1 > 7
                 THEN [bytePos |-> at[k - 1].bytePos + 1, bitPos |-> 0]
                 ELSE [at[k - 1] EXCEPT !.bitPos = @ + 1]
    IN [k \in 1..ds.patternSize |-> 8 * at[k].bytePos + at[k].bitPos]

BitGet(ds, index, st) ==
    LET cells == BitCells(ds, index) IN [k \in DOMAIN cells |-> st[ds.leaf][cells[k]]]

(***************************************************************************)
(* SparseDataset: the matrix is a row of records, a count and that many    *)
(* pairs of a position and a value.  The constructor finds where each      *)
(* record begins.                                                          *)
(***************************************************************************)
MatrixIndexes(ds, st) ==
    LET d == st[ds.leaf]
        j[i \in 0..ds.numPatterns] == IF i = 0 THEN 0 ELSE j[i - 1] + 2 * d[j[i - 1]] + 1
    IN j

\* The check of the constructor: it looks at the even positions from the start
\* of the matrix, as many as four times each count, for positions of a pattern.
SparseAccepted(ds, st) ==
    LET d == st[ds.leaf]
        j == MatrixIndexes(ds, st)
    IN \A i \in 0..(ds.numPatterns - 1) : \A k \in 0..(4 * d[j[i]] - 1) :
          k % 2 = 0 => d[k] \in 0..(ds.patternSize - 1)

SparseGet(ds, index, st) ==
    LET d   == st[ds.leaf]
        pos == MatrixIndexes(ds, st)[index]
        pat[i \in 0..d[pos]] ==
            IF i = 0 THEN [k \in 1..ds.patternSize |-> 0]
            ELSE [pat[i - 1] EXCEPT ![d[pos + 2 * i - 1] + 1] = d[pos + 2 * i]]
    IN pat[d[pos]]

(***************************************************************************)
(* DerivDataSet: values and their two first derivatives by the five point  *)
(* rule, the ends repeated.  The code divides derivatives by 12.           *)
(***************************************************************************)
DerivGet(ds, index, st) ==
    LET n == NumPatterns(ds.ds)
        at(o) == GetPattern(ds.ds, Clamp(index + o, 0, n - 1), st)
        left2 == at(-2)   left1 == at(-1)   right1 == at(1)   right2 == at(2)
        orig == GetPattern(ds.ds, index, st)
        block(o) ==
            [k \in DOMAIN orig |->
                CASE o = 0 -> orig[k]
                  [] o = 1 -> -right2[k] + 8 * right1[k] - 8 * left1[k] + left2[k]
                  [] o = 2 -> -right2[k] + 16 * right1[k] - 30 * orig[k]
                              + 16 * left1[k] - left2[k]]
    IN FlattenSeq([o \in 1..3 |-> IF o - 1 \in ds.orders THEN block(o - 1) ELSE <<>>])

(***************************************************************************)
(* CacheDataSet: which of the words before the current sentence are in     *)
(* each position of the cache, and how many words ago.  A position holds   *)
(* decay^k, here k + 1; powers under near_zero, from limit on, are 0.      *)
(***************************************************************************)
\* Mutant: the word itself may be the end.
EndOfThis(ds, index, word) ==
    LET ends == {j \in 0..index : word[j] = ds.endToken} IN
    IF ends = {} THEN -1 ELSE Max(ends)

EndOfPrevious(ds, index, word) ==
    LET ends == {j \in 0..(index - 1) : word[j] = ds.endToken} IN
    IF ends = {} THEN -1 ELSE Max(ends)

CacheGet(ds, index, st) ==
    LET word == [j \in 0..(NumPatterns(ds.ds) - 1) |-> GetPattern(ds.ds, j, st)[1]]
        start == EndOfPrevious(ds, index, word) - 1
        Ordinary(w) == w \notin {ds.beginToken, ds.endToken, ds.nullToken}
        Mark(pat, w, k) ==
            [idx \in 1..ds.cacheSize |->
                IF pat[idx] = 0 /\ idx \in ds.word2cache[w] /\ k < ds.limit[idx]
                THEN k + 1 ELSE pat[idx]]
        \* what the loop has made of the words from start down to j
        scan[j \in -2..start] ==
            LET s == IF j = start THEN [pat |-> [idx \in 1..ds.cacheSize |-> 0], k |-> 0,
                                        stop |-> FALSE]
                     ELSE scan[j + 1]
                w == word[j + 1]
            IN IF j = start THEN s
               ELSE IF s.stop \/ s.k >= ds.maxHistory \/ w = ds.cacheStopToken
                    THEN [s EXCEPT !.stop = TRUE]
               ELSE IF Ordinary(w)
                    THEN [pat |-> Mark(s.pat, w, s.k), k |-> s.k + 1, stop |-> FALSE]
               ELSE s
    IN scan[IF start < 0 THEN start ELSE -1].pat
-----------------------------------------------------------------------------
GetPattern(ds, index, st) ==
    CASE ds.kind = "matrix"     -> MatrixGet(ds, index, st)
      [] ds.kind = "identity"   -> IdentityGet(ds, index)
      [] ds.kind = "union"      -> LET part == UnionPart(ds, index)
                                   IN GetPattern(part.ds, part.index, st)
      [] ds.kind = "sub"        -> GetPattern(ds.ds, SubIndex(ds, index), st)
      [] ds.kind = "split"      -> SplitGet(ds, index, st)
      [] ds.kind = "join"       -> JoinGet(ds, index, st)
      [] ds.kind = "index"      -> IndexGet(ds, index, st)
      [] ds.kind = "linearcomb" -> LinearCombGet(ds, index, st)
      [] ds.kind = "contextualizer" -> ContextualizerGet(ds, index, st)
      [] ds.kind = "filter"     -> GetPattern(ds.ds, FilterIndex(ds, index), st)
      [] ds.kind = "byte"       -> ByteGet(ds, index, st)
      [] ds.kind = "bit"        -> BitGet(ds, index, st)
      [] ds.kind = "accumulate" -> AccumulateGet(ds, st)
      [] ds.kind = "sparse"     -> SparseGet(ds, index, st)
      [] ds.kind = "deriv"      -> DerivGet(ds, index, st)
      [] ds.kind = "cache"      -> CacheGet(ds, index, st)

\* The cells that putPattern writes, one for each value that it takes from the
\* pattern; it returns how many these are.
PutCells(ds, index, st) ==
    LET cell(pos) == [leaf |-> ds.leaf, pos |-> pos, of |-> ds] IN
    CASE ds.kind = "matrix" ->
            LET cells == MatrixCells(ds, index) IN
            [k \in DOMAIN cells |-> IF cells[k] = Outside THEN Outside ELSE cell(cells[k])]
      [] ds.kind = "union" ->
            IF index \notin 0..(NumPatterns(ds) - 1) THEN <<>>
            ELSE LET part == UnionPart(ds, index) IN PutCells(part.ds, part.index, st)
      [] ds.kind = "sub"   -> PutCells(ds.ds, SubIndex(ds, index), st)
      [] ds.kind = "join"  ->
            FlattenSeq([j \in DOMAIN ds.parts |->
                Padded(PutCells(ds.parts[j], index, st), PatternSize(ds.parts[j]))])
      [] ds.kind = "index" -> IndexPutCells(ds, index, st)
      [] ds.kind = "contextualizer" -> ContextualizerPutCells(ds, index, st)
      [] ds.kind = "byte"  ->
            [k \in 1..ds.patternSize |-> cell(index * ds.patternSize + k - 1)]
      [] ds.kind = "bit"   ->
            LET cells == BitCells(ds, index) IN [k \in DOMAIN cells |-> cell(cells[k])]
      [] ds.kind = "accumulate" -> [k \in 1..ds.patternSize |-> cell(k - 1)]
      [] ds.kind \in {"identity", "split", "linearcomb"} -> <<>>

Stored(ds, old, v) ==
    CASE ds.kind = "matrix"     -> v
      [] ds.kind = "byte"       -> BytePut(ds, v)
      [] ds.kind = "bit"        -> IF v = 0 THEN 0 ELSE 1
      [] ds.kind = "accumulate" -> old + v

Write(st, cell, v) ==
    IF cell = Outside THEN st
    ELSE [st EXCEPT ![cell.leaf][cell.pos] = Stored(cell.of, @, v)]

PutPattern(ds, index, pat, st) ==
    FoldLeft(LAMBDA s, w : Write(s, w[1], w[2]), st, Zip(PutCells(ds, index, st), pat))

\* The classes whose putPattern is not an error that ends the program.
RECURSIVE Writable(_)
Writable(ds) ==
    CASE ds.kind \in {"sparse", "filter", "deriv", "cache"} -> FALSE
      [] ds.kind \in {"union", "join", "index"} ->
            \A j \in DOMAIN ds.parts : Writable(ds.parts[j])
      [] ds.kind \in {"sub", "contextualizer"} -> Writable(ds.ds)
      [] OTHER -> TRUE
=============================================================================
