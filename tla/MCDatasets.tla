----------------------------- MODULE MCDatasets -----------------------------
(***************************************************************************)
(* Instances for TLC of two parts that share no state: DatasetEpochs, with *)
(* a dataset of each class, views of views, and epochs over them in every  *)
(* mode; and Matrices.  A behaviour is one of one part, chosen in the      *)
(* initial state, while the other part stays as it begins.                 *)
(***************************************************************************)
EXTENDS DatasetEpochs, MatrixScripts

CONSTANTS Scalars, MaxCalls

VARIABLES part, mat, data, matrixCall, calls

NoMatrices == Start(<<>>, <<>>)

Matrix == INSTANCE Matrices WITH
    Scripts <- MCScripts \cup {NoMatrices}, Windows <- MCWindows, Mishandled <- FALSE, call <- matrixCall

Array(s) == [p \in 0..(Len(s) - 1) |-> s[p + 1]]

MCInitStore ==
    [m |-> [p \in 0..11 |-> p + 1],         n |-> [p \in 0..7 |-> 20 + p * p],
     o |-> [p \in 0..3 |-> 90 - p],         bits |-> Array(<<1,0,0,1,1,0,1,0,1,1,1,0,0,1,0,0>>),
     bytes |-> Array(<<3,0,255,7,7,1>>),    acc |-> Array(<<0,0>>),
     sparse |-> Array(<<2,0,1,3,2,0,1,2,3>>),
     names |-> Array(<<2,0,0,1,3,1>>),      names1 |-> Array(<<3,1,1,2>>),
     words |-> Array(<<1,3,4,2,1,3,3,9,5,4,2,1,5,3>>),
     made |-> [p \in 0..7 |-> 0]]

\* dataset.matrix with the defaults of the class: the rows of a matrix.
Rowwise(leaf, rows, size) == [MadeDataset(rows, size) EXCEPT !.leaf = leaf]

N  == Rowwise("n", 4, 2)
O  == Rowwise("o", 2, 2)
Id == [kind |-> "identity", patternSize |-> 4, zerovalue |-> 0, onevalue |-> 1]

\* Windows past the ends of a matrix, wrapped or not, moved in both orders.
Window == [kind |-> "matrix", leaf |-> "m", dims |-> <<3, 4>>, offset |-> <<-1, 1>>,
           subMatrixSize |-> <<2, 3>>, step |-> <<1, 2>>, numSteps |-> <<3, 2>>,
           orderStep |-> <<1, 2>>, circular |-> <<FALSE, FALSE>>, defaultValue |-> 7]
Wrapping == [Window EXCEPT !.circular = <<TRUE, FALSE>>, !.orderStep = <<2, 1>>]
Cylinder == [Window EXCEPT !.circular = <<FALSE, TRUE>>, !.step = <<2, 1>>]
Cube == [kind |-> "matrix", leaf |-> "m", dims |-> <<2, 3, 2>>, offset |-> <<0, 0, 0>>,
         subMatrixSize |-> <<1, 2, 2>>, step |-> <<1, 1, 1>>, numSteps |-> <<2, 2, 1>>,
         orderStep |-> <<2, 3, 1>>, circular |-> <<FALSE, FALSE, TRUE>>, defaultValue |-> 7]

\* The dimension in the middle is circular, of another size than the last one
\* or of the same.
Tube == [Cube EXCEPT !.numSteps = <<2, 3, 1>>, !.circular = <<FALSE, TRUE, FALSE>>]
Prism == [Tube EXCEPT !.dims = <<3, 2, 2>>, !.numSteps = <<3, 2, 1>>]

Sub(ds, ini, fin)   == [kind |-> "sub", ds |-> ds, ini |-> ini, fin |-> fin]
Split(ds, ini, fin) == [kind |-> "split", ds |-> ds, ini |-> ini, fin |-> fin]
Union_(parts)       == [kind |-> "union", parts |-> parts]
Join(parts)         == [kind |-> "join", parts |-> parts]
Filter(ds, indexes) == [kind |-> "filter", ds |-> ds, indexes |-> indexes]
Context(ds, izq, der, reverse) ==
    [kind |-> "contextualizer", ds |-> ds, izq |-> izq, der |-> der, reverse |-> reverse]
Index(indices, parts, firstindex) ==
    [kind |-> "index", indices |-> indices, parts |-> parts, firstindex |-> firstindex]
Deriv(ds, orders)   == [kind |-> "deriv", ds |-> ds, orders |-> orders]

Bits  == [kind |-> "bit", leaf |-> "bits", numPatterns |-> 3, patternSize |-> 5]
Bytes == [kind |-> "byte", leaf |-> "bytes", numPatterns |-> 3, patternSize |-> 2,
          a |-> 2, b |-> 10]
Sums_ == [kind |-> "accumulate", leaf |-> "acc", numPatterns |-> 3, patternSize |-> 2]
Sparse == [kind |-> "sparse", leaf |-> "sparse", numPatterns |-> 3, patternSize |-> 4]
Comb  == [kind |-> "linearcomb", ds |-> N,
          conf |-> << <<<<1, 2>>, <<2, -1>>>>, <<<<0, 5>>>>, <<>> >>]

\* Words: 1 begins and 2 ends a sentence, 9 is a stop; 3 and 4 have positions.
Cache == [kind |-> "cache", ds |-> Rowwise("words", 14, 1), cacheSize |-> 3,
          word2cache |-> [w \in 1..9 |-> CASE w = 3 -> {1} [] w = 4 -> {2, 3} [] OTHER -> {}],
          limit |-> <<4, 4, 2>>, maxHistory |-> 3, beginToken |-> 1, endToken |-> 2,
          nullToken |-> 8, cacheStopToken |-> 9]

PutDatasets ==
    {N, Window, Wrapping, Cylinder, Cube, Tube, Prism, Id, Bits, Bytes, Sums_, Sparse, Comb, Cache,
     Sub(Window, 1, 4), Split(Window, 1, 3), Union_(<<O, N, Sub(N, 0, 1)>>),
     Sub(Union_(<<Sub(N, 3, 3), O, N>>), 0, 3), Join(<<N, Id, N>>),
     Join(<<Sub(Bits, 0, 1), O>>),
     Index(Rowwise("names", 3, 2), <<N, O>>, 0), Index(Rowwise("names", 3, 2), <<Id, N>>, 0),
     Index(Rowwise("names1", 2, 2), <<N, O>>, 1),
     Context(N, 1, 2, FALSE), Context(N, 2, 0, TRUE), Context(Union_(<<O, N>>), 1, 1, FALSE),
     Filter(Bytes, <<2, 2, 3>>), Deriv(N, {0, 2}), Deriv(N, {1})}

Wrap(ds) == [token |-> "wrapper", ds |-> ds]
Tokens(parts) == [token |-> "union", parts |-> parts]
Vector == [token |-> "vector", data |-> <<<<1, 2>>, <<3, 4>>, <<5, 6>>>>]

Train(mode, input, output, bunch) ==
    [op |-> "train", mode |-> mode, input |-> input, output |-> output, bunch |-> bunch,
     replacement |-> 3, probability |-> <<1, 0, 2>>]
Classes == Tokens(<<Wrap(N), Vector, Wrap(O)>>)

MCCalls ==
    {[op |-> "put", ds |-> ds] : ds \in PutDatasets}
    \cup {Train(mode, Wrap(Context(N, 1, 1, FALSE)), Wrap(Id), bunch) :
             mode \in {"sequential", "shuffle", "replacement"}, bunch \in {1, 3}}
    \cup {Train("sequential", Classes, Tokens(<<Wrap(Window), Wrap(Join(<<Bytes, Bytes, Bytes>>))>>), 2),
          Train("shuffle", Vector, Wrap(Bytes), 2), Train("shuffle", Vector, Wrap(N), 2)}
    \cup {Train("distribution", Classes, Tokens(<<Wrap(Split(Id, 1, 2)), Wrap(Bytes), Wrap(O)>>), 2)}
    \cup {[op |-> "each", input |-> td, bunch |-> 3] : td \in {Wrap(N), Classes}}
    \cup {[op |-> "use", input |-> Wrap(Window), output |-> Wrap(Union_(<<O, N>>)), bunch |-> 4],
          [op |-> "use", input |-> Wrap(Comb), outsize |-> 2, bunch |-> 3],
          [op |-> "use", input |-> Vector, output |-> Classes, bunch |-> 2],
          [op |-> "use", input |-> Vector, outsize |-> 2, bunch |-> 2]}

\* What a network gives for a pattern: two values of it.
MCNet(pat) == <<pat[1] + pat[Len(pat)], 2 * pat[1]>>

\* Patterns of the size of the dataset that the class can hold.
MCPuts(ds) ==
    LET size == PatternSize(ds) IN
    IF ds.kind = "bit" \/ ds = Join(<<Sub(Bits, 0, 1), O>>)
    THEN {[k \in 1..size |-> k % 2], [k \in 1..size |-> 1]}
    ELSE {[k \in 1..size |-> 60 + 2 * k], [k \in 1..size |-> 80 - 4 * k]}

ASSUME SparseAccepted(Sparse, MCInitStore)
-----------------------------------------------------------------------------
matrixVars == <<mat, data, matrixCall, calls>>

DataInit ==
    /\ part \in {"datasets", "matrices"}
    /\ DatasetInit /\ Matrix!Init
    /\ part = "matrices" => call = CHOOSE c \in MCCalls : c.op = "use"
    /\ part = "datasets" => mat = <<>>

DatasetsNext == part = "datasets" /\ DatasetNext /\ UNCHANGED <<part, matrixVars>>
MatricesNext == part = "matrices" /\ Matrix!Next /\ UNCHANGED <<part, datasetVars>>

DataNext == DatasetsNext \/ MatricesNext

dataVars == <<part, datasetVars, matrixVars>>

DataSpec == DataInit /\ [][DataNext]_dataVars

(* The strides and offsets do what the textbook says.                      *)
ImplementsTextbook == Matrix!ImplementsTextbook

(* The queries of a matrix answer what the textbook does.                  *)
AnswersAreRight == Matrix!AnswersAreRight
=============================================================================
