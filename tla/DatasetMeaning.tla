---------------------------- MODULE DatasetMeaning --------------------------
(***************************************************************************)
(* What a dataset stands for: the sequence of its patterns, said without   *)
(* cursors, searches or offsets.  Patterns is what GetPattern of Datasets  *)
(* is compared with.                                                       *)
(***************************************************************************)
EXTENDS Datasets

Rows(n, Row(_)) == [i \in 1..n |-> Row(i)]

\* The digit of dimension j when x counts in the base given by size, with the
\* dimensions of slower changing slower than j.
Digit(x, size, faster, j) ==
    (x \div Product([k \in 1..Len(faster) |-> size[faster[k]]])) % size[j]

\* The dimensions after j in the order of steps do not change faster.
StepsFaster(ds, j) ==
    SubSeq(ds.orderStep, 1, (CHOOSE k \in DOMAIN ds.orderStep : ds.orderStep[k] = j) - 1)
RowMajorFaster(ds, j) == [k \in 1..(Len(ds.dims) - j) |-> j + k]

\* Value k (from 0) of pattern i (from 0) of a matrix: its coordinates are
\* those of the window plus those inside the window.
MatrixValue(ds, i, k, st) ==
    LET x == [j \in DOMAIN ds.dims |->
                 LET c == ds.offset[j]
                          + ds.step[j] * Digit(i, ds.numSteps, StepsFaster(ds, j), j)
                          + Digit(k, ds.subMatrixSize, RowMajorFaster(ds, j), j)
                 IN IF ds.circular[j] THEN c % ds.dims[j] ELSE c]
        inside == \A j \in DOMAIN ds.dims : x[j] \in 0..(ds.dims[j] - 1)
        position == Total([j \in DOMAIN ds.dims |->
                        x[j] * Product(SubSeq(ds.dims, j + 1, Len(ds.dims)))])
    IN IF inside THEN st[ds.leaf][position] ELSE ds.defaultValue

\* Value k (from 0) of pattern i of a sparse matrix: the last pair that names k.
SparseValue(d, i, k) ==
    LET begins[r \in 0..i] == IF r = 0 THEN 0 ELSE begins[r - 1] + 2 * d[begins[r - 1]] + 1
        pairs == {p \in 1..d[begins[i]] : d[begins[i] + 2 * p - 1] = k}
    IN IF pairs = {} THEN 0 ELSE d[begins[i] + 2 * Max(pairs)]

\* Position idx of the cache of the i-th word: how many ordinary words there
\* are, in the text before the sentence of i, after the last word of idx.
CacheValue(ds, words, i, idx) ==
    LET ends == {j \in 1..(i - 1) : words[j] = ds.endToken}
        e    == IF ends = {} THEN 0 ELSE Max(ends)
        Since(j) == Cardinality({l \in j..(e - 1) :
                        words[l] \notin {ds.beginToken, ds.endToken, ds.nullToken}})
        \* the ordinary words since the last stop, and within max_history
        seen == {j \in 1..(e - 1) :
                    /\ words[j] \notin {ds.beginToken, ds.endToken, ds.nullToken}
                    /\ \A l \in j..(e - 1) : words[l] # ds.cacheStopToken
                    /\ Since(j) <= ds.maxHistory}
        of == {j \in seen : idx \in ds.word2cache[words[j]]}
    IN IF of = {} \/ Since(Max(of)) > ds.limit[idx] THEN 0 ELSE Since(Max(of))

RECURSIVE Patterns(_, _)
Patterns(ds, st) ==
    LET of  == IF "ds" \in DOMAIN ds THEN Patterns(ds.ds, st) ELSE <<>>
        n   == NumPatterns(ds)
        At(i) == of[Clamp(i, 1, Len(of))]
    IN
    CASE ds.kind = "matrix" ->
            Rows(n, LAMBDA i : [k \in 1..PatternSize(ds) |-> MatrixValue(ds, i - 1, k - 1, st)])
      [] ds.kind = "identity" ->
            Rows(n, LAMBDA i : [k \in 1..n |-> IF k = i THEN ds.onevalue ELSE ds.zerovalue])
      [] ds.kind = "union" ->
            FlattenSeq([j \in DOMAIN ds.parts |-> Patterns(ds.parts[j], st)])
      [] ds.kind = "sub"   -> SubSeq(of, ds.ini + 1, ds.fin + 1)
      [] ds.kind = "split" -> Rows(n, LAMBDA i : SubSeq(of[i], ds.ini + 1, ds.fin + 1))
      [] ds.kind = "join"  ->
            LET parts == [j \in DOMAIN ds.parts |-> Patterns(ds.parts[j], st)]
            IN Rows(n, LAMBDA i : FlattenSeq([j \in DOMAIN parts |-> parts[j][i]]))
      [] ds.kind = "index" ->
            LET names == Patterns(ds.indices, st)
                dict  == [j \in DOMAIN ds.parts |-> Patterns(ds.parts[j], st)]
            IN Rows(Len(names), LAMBDA i : FlattenSeq([j \in DOMAIN dict |->
                        dict[j][names[i][j] - ds.firstindex + 1]]))
      [] ds.kind = "linearcomb" ->
            Rows(n, LAMBDA i : [o \in DOMAIN ds.conf |-> Total([j \in DOMAIN ds.conf[o] |->
                LET t == ds.conf[o][j] IN
                IF t[1] = 0 THEN t[2] ELSE of[i][t[1]] * t[2]])])
      [] ds.kind = "contextualizer" ->
            LET window(i) == [o \in 1..(ds.izq + 1 + ds.der) |-> At(i + o - ds.izq - 1)]
            IN Rows(n, LAMBDA i : FlattenSeq(IF ds.reverse THEN Reverse(window(i))
                                                           ELSE window(i)))
      [] ds.kind = "filter" -> Rows(n, LAMBDA i : of[ds.indexes[i]])
      [] ds.kind = "deriv"  ->
            LET value(i, k, o) ==
                    CASE o = 0 -> of[i][k]
                      [] o = 1 -> 8 * (At(i + 1)[k] - At(i - 1)[k]) - (At(i + 2)[k] - At(i - 2)[k])
                      [] o = 2 -> 16 * (At(i + 1)[k] + At(i - 1)[k])
                                  - (At(i + 2)[k] + At(i - 2)[k]) - 30 * of[i][k]
            IN Rows(n, LAMBDA i : FlattenSeq([o \in 1..3 |->
                   IF o - 1 \in ds.orders THEN [k \in DOMAIN of[i] |-> value(i, k, o - 1)]
                                          ELSE <<>>]))
      [] ds.kind = "cache"  ->
            LET words == [i \in 1..n |-> of[i][1]]
            IN Rows(n, LAMBDA i : [idx \in 1..ds.cacheSize |-> CacheValue(ds, words, i, idx)])
      [] ds.kind = "byte"   ->
            Rows(n, LAMBDA i : [k \in 1..ds.patternSize |->
                ds.a * st[ds.leaf][(i - 1) * ds.patternSize + k - 1] + ds.b])
      [] ds.kind = "bit"    ->
            Rows(n, LAMBDA i : [k \in 1..ds.patternSize |->
                st[ds.leaf][(i - 1) * ds.patternSize + k - 1]])
      [] ds.kind = "accumulate" ->
            Rows(n, LAMBDA i : [k \in 1..ds.patternSize |-> st[ds.leaf][k - 1]])
      [] ds.kind = "sparse" ->
            Rows(n, LAMBDA i : [k \in 1..ds.patternSize |->
                SparseValue(st[ds.leaf], i - 1, k - 1)])
=============================================================================
