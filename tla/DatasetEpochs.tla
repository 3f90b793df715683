---------------------------- MODULE DatasetEpochs ---------------------------
(***************************************************************************)
(* How scripts and the trainer go through datasets: putPattern from Lua,   *)
(* and the loops of Epochs over token datasets (dataset/c_src/             *)
(* datasetToken.h): a vector of tokens, a union, or the wrapper of a       *)
(* dataset of numbers.  A behaviour is one call, chosen among Calls.       *)
(***************************************************************************)
EXTENDS DatasetMeaning, Epochs

CONSTANTS
    Puts(_),        \* the patterns that a script puts in a dataset
    MaxPuts         \* bound: calls of putPattern

VARIABLE puts       \* history: the calls of putPattern of a script

datasetVars == <<call, store, status, idxTable, pos, handed, draws, puts>>

DatasetInit == EpochInit /\ puts = <<>>
-----------------------------------------------------------------------------
RECURSIVE TokenNumPatterns(_)
TokenNumPatterns(td) ==
    CASE td.token = "wrapper" -> NumPatterns(td.ds)
      [] td.token = "vector"  -> Len(td.data)
      [] td.token = "union"   ->
            Total([j \in DOMAIN td.parts |-> TokenNumPatterns(td.parts[j])])

RECURSIVE TokenPatternSize(_)
TokenPatternSize(td) ==
    CASE td.token = "wrapper" -> PatternSize(td.ds)
      [] td.token = "vector"  -> Len(td.data[1])
      [] td.token = "union"   -> TokenPatternSize(td.parts[1])

RECURSIVE TokenGetPattern(_, _, _)
TokenGetPattern(td, index, st) ==
    CASE td.token = "wrapper" -> GetPattern(td.ds, index, st)
      [] td.token = "vector"  -> td.data[index + 1]
      [] td.token = "union"   ->
            LET sums == Sums([j \in DOMAIN td.parts |-> TokenNumPatterns(td.parts[j])])
                part == Locate(sums, index, 0, Len(td.parts) + 1)
            IN TokenGetPattern(td.parts[part + 1], index - sums[part], st)

\* Mutant: the stride of a whole bunch, also in the last one.
AuxBlockOfSize(block, size, shift, width) ==
    [k \in 1..width |-> block[(shift + (k - 1) * call.bunch) % Cardinality(DOMAIN block)]]

\* The copy of one pattern of the bunch to aux_mem_block.
AuxBlock(block, size, shift, width) ==
    [k \in 1..width |-> block[shift + (k - 1) * size]]

\* putPatternBunch of the wrapper, the only token dataset that has it.
PutPatternBunch(td, indexes, block, st) ==
    LET size == Len(indexes)
        put[b \in 0..size] ==
            IF b = 0 THEN st
            ELSE PutPattern(td.ds, indexes[b],
                            AuxBlock(block, size, b - 1, PatternSize(td.ds)), put[b - 1])
    IN put[size]
-----------------------------------------------------------------------------
(***************************************************************************)
(* dataset:putPattern(index, pattern) of a script.                         *)
(***************************************************************************)
ScriptPut(index, pat) ==
    /\ call.op = "put" /\ Len(puts) < MaxPuts
    /\ index \in 1..NumPatterns(call.ds) /\ Writable(call.ds)
    /\ store' = PutPattern(call.ds, index - 1, pat, store)
    /\ puts' = Append(puts, [index |-> index, pat |-> pat])
    /\ UNCHANGED <<call, status, idxTable, pos, handed, draws>>

\* dataset.matrix of a matrix of rows, with the defaults of the class.
MadeDataset(rows, size) ==
    [kind |-> "matrix", leaf |-> "made", dims |-> <<rows, size>>, offset |-> <<0, 0>>,
     subMatrixSize |-> <<1, size>>, step |-> <<1, 1>>, numSteps |-> <<rows, 1>>,
     orderStep |-> <<2, 1>>, circular |-> <<FALSE, FALSE>>, defaultValue |-> 0]

\* A use_dataset without an output dataset makes one: a dataset over a new
\* matrix, or a vector of tokens when the input is a token dataset.
OutputDataset(c) ==
    IF "output" \in DOMAIN c THEN c.output
    ELSE IF c.input.token = "wrapper"
         THEN [token |-> "wrapper",
               ds |-> MadeDataset(TokenNumPatterns(c.input), c.outsize)]
         ELSE [token |-> "vector", data |-> <<>>]
-----------------------------------------------------------------------------
DatasetNext ==
    \/ call.op = "put" /\ \E index \in 1..NumPatterns(call.ds) :
          \E pat \in Puts(call.ds) : ScriptPut(index, pat)
    \/ EpochNext /\ UNCHANGED puts

DatasetSpec == DatasetInit /\ [][DatasetNext]_datasetVars
-----------------------------------------------------------------------------
\* No matrix under ds has a circular dimension, neither its first nor its last,
\* of another size than the next one: there the code loses its place.
RECURSIVE WrapsRight(_)
WrapsRight(ds) ==
    /\ ds.kind = "matrix" =>
          \A j \in 2..(Len(ds.dims) - 1) : ds.circular[j] => ds.dims[j + 1] = ds.dims[j]
    /\ "ds" \in DOMAIN ds => WrapsRight(ds.ds)
    /\ "parts" \in DOMAIN ds => \A j \in DOMAIN ds.parts : WrapsRight(ds.parts[j])
    /\ "indices" \in DOMAIN ds => WrapsRight(ds.indices)

GetsWhatItStandsFor(ds) ==
    LET meaning == Patterns(ds, store) IN
    /\ Len(meaning) = NumPatterns(ds)
    /\ \A i \in DOMAIN meaning :
          /\ GetPattern(ds, i - 1, store) = meaning[i]
          /\ Len(meaning[i]) = PatternSize(ds)

(***************************************************************************)
(* getPattern of every class finds what the dataset stands for, also       *)
(* through views of views and whatever putPattern has written: the         *)
(* cursors, searches and offsets of dataset.cc agree with the definition   *)
(* of the dataset as a sequence of patterns.  Not over a matrix that the   *)
(* code wraps in the wrong place (WrapsRight).                             *)
(***************************************************************************)
GetsItsPattern ==
    call.op = "put" /\ WrapsRight(call.ds) => GetsWhatItStandsFor(call.ds)

(***************************************************************************)
(* What dataset_user.dox:130 says: a window that passes the end of a       *)
(* circular coordinate goes on at its beginning, whichever coordinates are *)
(* circular.                                                               *)
(***************************************************************************)
CircularComesBack ==
    call.op = "put" => GetsWhatItStandsFor(call.ds)

(***************************************************************************)
(* putPattern writes where getPattern reads: a cell of the data changes    *)
(* only where pattern index shows it, and then holds a value of the        *)
(* pattern put, one of those where it shows.  It is about the classes that *)
(* undo their getPattern: identity, split and linear combinations ignore   *)
(* what is put, accumulate adds it up, reversed contexts and indexes       *)
(* counted from 1 write elsewhere, and so do matrices that WrapsRight      *)
(* excludes.                                                               *)
(***************************************************************************)
RECURSIVE Symmetric(_), Leaves(_)
Symmetric(ds) ==
    CASE ds.kind = "matrix" -> WrapsRight(ds)
      [] ds.kind \in {"byte", "bit"} -> TRUE
      [] ds.kind = "sub" -> Symmetric(ds.ds)
      [] ds.kind = "contextualizer" -> ~ds.reverse /\ Symmetric(ds.ds)
      [] ds.kind \in {"union", "join"} -> \A j \in DOMAIN ds.parts : Symmetric(ds.parts[j])
      [] ds.kind = "index" ->
            ds.firstindex = 0 /\ \A j \in DOMAIN ds.parts : Symmetric(ds.parts[j])
      [] OTHER -> FALSE

\* The arrays that hold the values, not the indexes, of a dataset.
Leaves(ds) ==
    IF "leaf" \in DOMAIN ds THEN {ds.leaf}
    ELSE IF "parts" \in DOMAIN ds THEN UNION {Leaves(ds.parts[j]) : j \in DOMAIN ds.parts}
    ELSE Leaves(ds.ds)

Probe == 1000       \* a value that no array holds

\* Where in pattern index a cell shows.
Shows(ds, index, leaf, cell) ==
    LET before == Patterns(ds, store)[index]
        after  == Patterns(ds, [store EXCEPT ![leaf][cell] = Probe])[index]
    IN {k \in DOMAIN before : before[k] # after[k]}

PutsInItsPattern ==
    [][puts' # puts /\ Symmetric(call.ds) =>
         LET put   == puts'[Len(puts')]
             after == Patterns(call.ds, store')[put.index]
         IN \A leaf \in DOMAIN store : \A cell \in DOMAIN store[leaf] :
              LET ks == IF leaf \in Leaves(call.ds)
                        THEN Shows(call.ds, put.index, leaf, cell) ELSE {}
              IN IF ks = {} THEN store'[leaf][cell] = store[leaf][cell]
                 ELSE \E k \in ks : after[k] = put.pat[k]]_datasetVars

RECURSIVE TokenMeaning(_)
TokenMeaning(td) ==
    CASE td.token = "wrapper" -> Patterns(td.ds, InitStore)
      [] td.token = "vector"  -> td.data
      [] td.token = "union"   ->
            FlattenSeq([j \in DOMAIN td.parts |-> TokenMeaning(td.parts[j])])

(***************************************************************************)
(* After use_dataset, each pattern of the output dataset, its own or a new *)
(* one, is what the network computes for that pattern of the input, also   *)
(* when the last bunch is short, and the input is as it was.               *)
(***************************************************************************)
UseWrites ==
    status = "returned" /\ call.op = "use" =>
        LET input  == TokenMeaning(call.input)
            output == Patterns(OutputDataset(call).ds, store)
        IN /\ \A i \in DOMAIN input : output[i] = Net(input[i])
           /\ call.input.token = "wrapper" => Patterns(call.input.ds, store) = input
=============================================================================
