------------------------------- MODULE Epochs -------------------------------
(***************************************************************************)
(* How the supervised trainer goes through datasets: train_dataset,        *)
(* validate_dataset, for_each_pattern and use_dataset (ann/trainable/      *)
(* lua_src/trainable.lua), which take bunches of patterns from token       *)
(* datasets in an order of their own.                                      *)
(*                                                                         *)
(* A behaviour is one call, chosen among Calls, with its datasets; of a    *)
(* dataset only the answers to its methods are known here.  A bunch is a   *)
(* block of memory, a function of the position, in which the patterns are  *)
(* columns apart by the number of patterns.                                *)
(***************************************************************************)
EXTENDS PartialSums, SequencesExt

CONSTANTS
    Calls,              \* the calls: records, see CallsAssumption
    InitStore,          \* contents of the arrays of data
    NumPatternsOf(_),   \* numPatterns of a token dataset
    PatternSizeOf(_),   \* patternSize
    PatternOf(_, _, _), \* getPattern, given the contents of the arrays
    MeaningOf(_),       \* the sequence of patterns it stands for at first
    PutBunch(_, _, _, _),   \* the contents after putPatternBunch
    OutputOf(_),        \* the output dataset of a call of use_dataset
    Net(_)              \* what the network computes for one pattern

VARIABLES
    call,           \* the call and its arguments
    store,          \* contents of the arrays of data
    status,         \* "called", "running", "returned", "error"
    idxTable,       \* ds_idx_table: patterns in the order of use, from 1
    pos,            \* i of the loop over ds_idx_table
    handed,         \* history: the bunches handed to the network or a function
    draws           \* history: the classes and patterns drawn from them

epochVars == <<call, store, status, idxTable, pos, handed, draws>>

Orders == {"sequential", "shuffle", "replacement", "distribution"}

IsSequence(s, n) == s = [i \in 1..n |-> s[i]]

\* The union that train_dataset makes of the datasets of the classes.
IsUnion(td) ==
    /\ IsSequence(td.parts, Len(td.parts)) /\ Len(td.parts) \in Nat \ {0}
    /\ \A j \in DOMAIN td.parts :
          /\ NumPatternsOf(td.parts[j]) \in Nat
          /\ IsSequence(MeaningOf(td.parts[j]), NumPatternsOf(td.parts[j]))
    /\ MeaningOf(td) = FlattenSeq([j \in DOMAIN td.parts |-> MeaningOf(td.parts[j])])

ASSUME CallsAssumption ==
    \A c \in Calls : c.op \in {"train", "each", "use"} =>
        /\ c.bunch \in Nat \ {0} /\ NumPatternsOf(c.input) \in Nat
        /\ c.op = "train" =>
              /\ c.mode \in Orders
              /\ c.mode \in {"replacement", "distribution"} => c.replacement \in Nat
              /\ c.mode = "distribution" =>
                    /\ IsUnion(c.input) /\ IsUnion(c.output)
                    /\ Len(c.input.parts) = Len(c.output.parts)
                    /\ Len(c.probability) = Len(c.input.parts)

\* getPattern of the datasets that are only read finds the patterns they stand
\* for, all of them of one size.
Reads(td) ==
    /\ NumPatternsOf(td) \in Nat /\ PatternSizeOf(td) \in Nat
    /\ IsSequence(MeaningOf(td), NumPatternsOf(td))
    /\ \A i \in 1..NumPatternsOf(td) :
          /\ PatternOf(td, i - 1, InitStore) = MeaningOf(td)[i]
          /\ IsSequence(MeaningOf(td)[i], PatternSizeOf(td))

ASSUME ReadsAssumption ==
    \A c \in Calls : /\ c.op \in {"train", "each"} => Reads(c.input)
                     /\ c.op = "train" => Reads(c.output)

EpochInit ==
    /\ call \in Calls
    /\ store = InitStore
    /\ status = "called"
    /\ idxTable = <<>>
    /\ pos = 1
    /\ handed = <<>>
    /\ draws = <<>>
-----------------------------------------------------------------------------
\* A bunch is kept by columns: entry p belongs to row p % size.
BunchOf(rows, width) ==
    LET size == Len(rows)
    IN [p \in 0..(size * width - 1) |-> rows[(p % size) + 1][(p \div size) + 1]]

GetPatternBunch(td, indexes, st) ==
    BunchOf([b \in DOMAIN indexes |-> PatternOf(td, indexes[b], st)], PatternSizeOf(td))

\* How every component reads pattern b of a bunch.
Column(bunch, size, b) ==
    [k \in 1..(Cardinality(DOMAIN bunch) \div size) |-> bunch[b + (k - 1) * size]]

(***************************************************************************)
(* The random numbers behind the orders: MTRand::shuffle, with the number  *)
(* r[i] drawn at position i, and dice::thrown.                             *)
(***************************************************************************)
\* Mutant: the position drawn is overwritten, not swapped.
SwapLost(vector, i, j) == [vector EXCEPT ![j] = vector[i]]

Swap(vector, i, j) == [vector EXCEPT ![i] = vector[j], ![j] = vector[i]]

Shuffled(size, r) ==
    LET after[k \in 0..Len(r)] ==      \* after the turns of size-1 down to size-k
            IF k = 0 THEN [j \in 0..(size - 1) |-> j]
            ELSE Swap(after[k - 1], size - k, r[size - k])
    IN [j \in 1..size |-> after[Len(r)][j - 1] + 1]

\* A turn of the search for the first threshold above the key.
Halve(threshold, key, range) ==
    LET middle == (range.left + range.right) \div 2 IN
    IF range.left >= range.right THEN range
    ELSE IF threshold[middle] <= key THEN [range EXCEPT !.left = middle + 1]
    ELSE [range EXCEPT !.right = middle]

\* As many turns as outcomes are never too few.
Thrown(threshold, key, outcomes) ==
    LET after[k \in 0..outcomes] ==
            IF k = 0 THEN [left |-> 0, right |-> outcomes - 1]
            ELSE Halve(threshold, key, after[k - 1])
    IN after[outcomes].left
-----------------------------------------------------------------------------
(***************************************************************************)
(* The head of train_dataset and validate_dataset: the table of indexes.   *)
(***************************************************************************)
Starts(mode) == status = "called" /\ call.op = "train" /\ call.mode = mode

Runs(table) ==
    /\ idxTable' = table
    /\ status' = "running"
    /\ UNCHANGED <<call, store, pos, handed>>

\* check_dataset_sizes, for each class if there are classes, is an assertion
\* that ends the call.
SizesAgree ==
    IF call.mode = "distribution"
      THEN \A j \in DOMAIN call.input.parts :
              NumPatternsOf(call.input.parts[j]) = NumPatternsOf(call.output.parts[j])
      ELSE NumPatternsOf(call.input) = NumPatternsOf(call.output)

SizesDiffer ==
    /\ status = "called" /\ call.op = "train" /\ ~SizesAgree
    /\ status' = "error"
    /\ UNCHANGED <<call, store, idxTable, pos, handed, draws>>

Sequential ==
    /\ Starts("sequential") /\ SizesAgree
    /\ Runs([i \in 1..NumPatternsOf(call.input) |-> i])
    /\ UNCHANGED draws

Shuffle ==
    LET n == NumPatternsOf(call.input) IN
    /\ Starts("shuffle") /\ SizesAgree
    /\ \E r \in [1..(n - 1) -> 0..(n - 1)] :
          /\ \A i \in 1..(n - 1) : r[i] <= i
          /\ Runs(Shuffled(n, r))
    /\ UNCHANGED draws

Replacement ==
    /\ Starts("replacement") /\ SizesAgree
    /\ \E table \in [1..call.replacement -> 1..NumPatternsOf(call.input)] : Runs(table)
    /\ UNCHANGED draws

\* The throws of dice for the keys drawn.
ClassesThrown(threshold, outcomes, key) ==
    [i \in DOMAIN key |-> Thrown(threshold, key[i], outcomes) + 1]

\* Index idx[i] of the datasets of class[i], counted in the union.
RunsDrawn(sizes, class, idx) ==
    /\ \A i \in DOMAIN idx : idx[i] <= sizes[class[i]]
    /\ Runs([i \in DOMAIN idx |-> idx[i] + Sums(sizes)[class[i] - 1]])
    /\ draws' = [i \in DOMAIN idx |-> <<class[i], idx[i]>>]

\* The datasets of the classes become one union; each index is drawn from a
\* class that a throw of dice gives.
Distribution ==
    LET sizes == [j \in DOMAIN call.input.parts |-> NumPatternsOf(call.input.parts[j])]
        scale == Total(call.probability)
        threshold == [j \in 0..(Len(sizes) - 1) |-> Sums(call.probability)[j + 1]]
    IN
    /\ Starts("distribution") /\ SizesAgree
    /\ \E key \in [1..call.replacement -> 0..scale] :
       \E idx \in [1..call.replacement -> 1..Max({sizes[j] : j \in DOMAIN sizes})] :
          RunsDrawn(sizes, ClassesThrown(threshold, Len(sizes), key), idx)

\* The heads of for_each_pattern and use_dataset, which go in order.
InOrder ==
    /\ status = "called" /\ call.op \in {"each", "use"}
    /\ Runs([i \in 1..NumPatternsOf(call.input) |-> i])
    /\ UNCHANGED draws

\* Mutant: one pattern too many in a bunch.
LastPast(i) == Min({i + call.bunch, Len(idxTable)})

\* The last pattern of the bunch that begins at i.
LastOfBunch(i) == Min({i + call.bunch - 1, Len(idxTable)})

Indexes == [j \in 1..(LastOfBunch(pos) - pos + 1) |-> idxTable[pos + j - 1] - 1]

Loops(op) == status = "running" /\ call.op = op /\ pos <= Len(idxTable)

\* train_step or validate_step with a bunch of inputs and one of outputs.
Step ==
    LET input == GetPatternBunch(call.input, Indexes, store)
        target == GetPatternBunch(call.output, Indexes, store)
        size == Len(Indexes)
    IN
    /\ Loops("train")
    /\ handed' = Append(handed, [b \in 1..size |->
                     [input |-> Column(input, size, b - 1),
                      output |-> Column(target, size, b - 1)]])
    /\ pos' = pos + call.bunch
    /\ UNCHANGED <<call, store, status, idxTable, draws>>

\* forward, then func(bunch_indexes, trainer).
CallFunction ==
    LET input == GetPatternBunch(call.input, Indexes, store) IN
    /\ Loops("each")
    /\ handed' = Append(handed, [b \in 1..Len(Indexes) |->
                     [input |-> Column(input, Len(Indexes), b - 1),
                      output |-> Indexes[b]]])
    /\ pos' = pos + call.bunch
    /\ UNCHANGED <<call, store, status, idxTable, draws>>

\* forward, then putPatternBunch of what the network gives.
UseBunch ==
    LET size == Len(Indexes)
        input == GetPatternBunch(call.input, Indexes, store)
        result == [b \in DOMAIN Indexes |-> Net(Column(input, size, b - 1))]
    IN
    /\ Loops("use")
    /\ OutputOf(call).token = "wrapper"
    /\ store' = PutBunch(OutputOf(call), Indexes, BunchOf(result, Len(result[1])), store)
    /\ pos' = pos + call.bunch
    /\ UNCHANGED <<call, status, idxTable, handed, draws>>

\* putPatternBunch is not implemented by vectors and unions of tokens: the
\* first bunch of a call that made its own vector ends the program.
UseNotImplemented ==
    /\ Loops("use")
    /\ OutputOf(call).token # "wrapper"
    /\ status' = "error"
    /\ UNCHANGED <<call, store, idxTable, pos, handed, draws>>

Return ==
    /\ status = "running" /\ pos > Len(idxTable)
    /\ status' = "returned"
    /\ UNCHANGED <<call, store, idxTable, pos, handed, draws>>

EpochNext ==
    \/ SizesDiffer \/ Sequential \/ Shuffle \/ Replacement \/ Distribution \/ InOrder
    \/ Step \/ CallFunction \/ UseBunch \/ UseNotImplemented \/ Return

\* A call of another kind, as putPattern of a script, only changes the data.
OtherCall ==
    /\ call.op \notin {"train", "each", "use"}
    /\ UNCHANGED <<call, status, idxTable, pos, handed, draws>>

EpochSpec == EpochInit /\ [][EpochNext \/ OtherCall]_epochVars
-----------------------------------------------------------------------------
\* What a call hands at j: the pair of the index at j of the table or, with a
\* distribution, that drawn at j from the datasets of the class drawn.
Pair(j) ==
    IF call.op = "each" THEN [input |-> MeaningOf(call.input)[j], output |-> j - 1]
    ELSE IF draws # <<>>
    THEN [input  |-> MeaningOf(call.input.parts[draws[j][1]])[draws[j][2]],
          output |-> MeaningOf(call.output.parts[draws[j][1]])[draws[j][2]]]
    ELSE [input  |-> MeaningOf(call.input)[idxTable[j]],
          output |-> MeaningOf(call.output)[idxTable[j]]]

(***************************************************************************)
(* An epoch hands the network pairs of an input and its own target, one    *)
(* bunch after another, each of bunch_size pairs but the last, whatever    *)
(* the union and the columns of the bunch do on the way.                   *)
(* for_each_pattern hands each input with its index.                       *)
(***************************************************************************)
TrainsPairs ==
    call.op \in {"train", "each"} =>
        LET flat == FlattenSeq(handed) IN
        /\ \A j \in DOMAIN flat : flat[j] = Pair(j)
        /\ \A b \in DOMAIN handed :
              \/ Len(handed[b]) = call.bunch
              \/ b = Len(handed) /\ Len(flat) = Len(idxTable)

(***************************************************************************)
(* A sequential or shuffled epoch, and for_each_pattern, end after using   *)
(* every pattern of the dataset exactly once; one with replacement after   *)
(* as many as it was asked for.                                            *)
(***************************************************************************)
WholeEpoch ==
    status = "returned" /\ call.op \in {"train", "each"} =>
        LET used == FlattenSeq(handed)
            n    == NumPatternsOf(call.input)
        IN IF call.op = "train" /\ call.mode \in {"replacement", "distribution"}
           THEN Len(used) = call.replacement
           ELSE /\ Len(used) = n
                /\ \A i \in 1..n : \E j \in DOMAIN idxTable : idxTable[j] = i
=============================================================================
