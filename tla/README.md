# Verification of APRIL-ANN in TLA+

APRIL-ANN is a toolkit for pattern recognition: neural networks built out of components in
C++ and trained from Lua scripts, hybrid HMM/ANN systems, datasets and image tools. This
directory holds TLA+ modules that model its core, the TLC configurations that check them on
small instances, and theorems about them proved with TLAPS.

Everything is translated from the code under `src/`. `PROJECT.json` says which lines each
definition stands for, which hazards of the code each property is about, and which change of
the code each property would catch (`mutants`).

1. [The system](#1-the-system): its components and the plan
2. [The modules](#2-the-modules): how they correspond to the code
3. [The runs](#3-the-runs): what TLC checks, with which bounds
4. [The proofs](#4-the-proofs): what TLAPS proves, and how
5. [What the code does differently from what it says](#5-findings)
6. [What is not modelled](#6-what-is-not-modelled), and what stays with TLC

## 1. The system

### Components

The packages are under `src/packages`. There is one Lua interpreter and one Lua thread; the
only code meant for several threads is `basics/thread_utils` and what is built on it.

| component | state it keeps | operations | hard because | correct when |
|---|---|---|---|---|
| **Connections** (`ann/ann_base/c_src/connection.*`) | two buffers `weights`, `prev_weights`; `num_references`, `update_weights_calls` | countReference, beginUpdate, computeMomentum/WeightDecay…, endUpdate, loadWeights, randomizeWeights, clone | several components update one object, in place, with two counters to tell the first and last caller | a training step moves the weights once, by the momentum rule over all gradients, and only after the last user has read them |
| **leaf components** (dot product, bias) | pointer to a Connections object, options, tokens of the last forward and backprop | build, resetConnections, forward, backprop, update, reset, clone | they meet through a table of weight names; builds may be repeated, objects shared, components collected in any order | counts equal to the users, no object left half updated |
| **containers** (stack, join, hyperplane, copy) | children, token vectors | the same, on their children in a fixed order | order of traversal, tokens handed from one child to the next and kept | each child visited once; each token released once |
| **tokens** (`basics/tokens`, `util/referenced.*`) | reference counts | IncRef, DecRef, AssignRef, convert | who owns what between forward, backprop, reset and the Lua collector | no token used after it is freed, none leaked |
| **supervised trainer** (`ann/trainable/lua_src/trainable.lua`) | component, loss, weights table; in a call: best clone, errors, epochs | build, train_step, train_dataset, validate_dataset, train_holdout_validation, train_wo_validation, clone, save, load | the best network is a clone kept while training goes on; NaN and negative errors; resumed calls | what is returned as best is the best of what was measured |
| **mutexed fifo** (`basics/thread_utils/c_src/mutexed_fifo.h`) and **ProducerFifoWrapper** | a queue, `locked`, a mutex, a condition variable | get, put, empty, lock, unlock; reset | lost and spurious wakeups; compound operations in two critical sections; `locked` read and written without the mutex | operations appear instantaneous; no reader sleeps for ever beside an item |
| **context window** (`basics/util/c_src/context.h`) and **contextualizer producer** (`function_interface`) | a vector of pointers, counters, `fill_after` | insert, ready, end_input, shift, reset, get | short sequences, ends repeated, who deletes an element | one right window per element, each element deleted once |
| **threads** (`threadable.h`, `sig_int_handler.cc`) | `running`, `joined`, a global list of objects | start, stop, wait, the thread's own end, ctrl+c | a thread that ends by itself races with stop; a signal walks and edits the list | joined before it is deleted; an object is in the list while it runs |
| **mirrored memory block** (`basics/math`) | two copies, flags of validity | reads and writes on either side | stale side (CUDA build only) | a read sees the last write |
| **datasets** (`basics/dataset`) | arrays of values, or other datasets and indexes into them | getPattern, putPattern, bunches of tokens | windows past the borders, views of views, short last bunches, modes of an epoch | the patterns are those of the definition; inputs meet their own targets |
| **matrices** (`basics/matrix`) | sizes, strides and an offset over a shared block | slices, clones, iterators, element-wise operations, BLAS | slices share memory; two major orders; every operation has its own way round the elements | each operation is the textbook's, and touches nothing else |
| **util containers** (`fifo_block.h`, hash with time stamps, heaps, mfset) | block lists, stamps | put, get, clear | empty at the end of a block, stamp at its limit | sequence, map |
| **HMM trainer, tied model manager, imaging, cmdOpt, gzio, Lua bindings** | — | — | mostly numeric or sequential code | — |

Interactions: a Lua script builds a *trainer*, which builds the *component tree* with a table of
*Connections*; each `train_step` runs forward (tokens go down), the loss, backprop (tokens go up)
and update (through the Connections). The training loops call `train_dataset`, which takes bunches
from *datasets*, and clone the trainer to keep the best network. `function_interface` chains data
producers: a ProducerFifoWrapper is filled by one thread and drained by another, and a
contextualizer sits on top of a producer.

### Plan

Ordered by how much depends on the behaviour.

| | modules | what | status |
|---|---|---|---|
| 1 | `MomentumStep` ← `SharedWeights` | shared weights, builds, updates, clones | checked and proved |
| 2 | `BlockingFifo` ← `MutexedFifo` | the queue between threads | checked and proved; liveness with TLC |
| 3 | `ContextWindow` | sliding window and its producer | checked and proved |
| 4 | `HoldoutTraining` | training with validation | checked and proved |
| 5 | `ConvergenceTraining` | training until convergence | checked and proved |
| 6 | `TokenReferences` | tokens of forward, backprop, update, reset and the destructors | checked and proved |
| 7 | `StoppableThreads` | start, stop, wait, natural end, ctrl+c, the list of objects | checked and proved; liveness with TLC |
| 8 | `DatasetMeaning` against `Datasets`; `Epochs`, `DatasetEpochs` | the classes of datasets, and epochs over them | checked; epochs proved |
| 9 | `TextbookMatrices` ← `Matrices` | strided views and what is computed on them | checked |
| 10 | `FifoBlock`, `TimestampHash` | containers of util | checked and proved |
| 11 | `MirroredBlock` | the two copies of the CUDA build | checked and proved |

What is left, in order: the file a trainer
is saved to, over a crash; the chained hash, the heap and the disjoint sets; short-list and perturbation datasets with their random numbers; the bookkeeping of
expected counts in the HMM trainer.

`A ← B` means that B is shown to implement A.

## 2. The modules

| module | models | kind |
|---|---|---|
| `MomentumStep` | what a shared matrix promises | abstract specification |
| `SharedWeights` | `connection.cc`, dot product and bias, build and clone of the trainer | component |
| `MCSharedWeights` | its instances | for TLC |
| `SharedWeightsProof` | | theorems |
| `BlockingFifo` | a queue with instantaneous operations | abstract specification |
| `MutexedFifo` | `mutexed_fifo.h`, `producer_fifo_wrapper.cc` | component |
| `MutexedFifoProof` | | theorems |
| `ContextWindow` | `context.h`, `contextualizer_producer.cc` | component |
| `TokenReferences` | `*_component.cc`, `token_vector.cc`, `referenced.*`, the bindings that push and collect tokens | component |
| `MCTokenReferences` | its instance | for TLC |
| `TokenReferencesProof`, `UpdateReadinessProof`, `WiringProof` | | theorems |
| `HoldoutTraining` | `train_holdout_validation`, stopping criteria | component |
| `ConvergenceTraining` | `train_wo_validation` | component |
| `TrainingLoopsProof` | both loops | theorems |
| `MCTrainingLoops`, `MCConvergenceTraining` | calls of the two loops; negative errors | for TLC |
| `PartialSums` | where each part of a union begins | operators |
| `Datasets` | the classes of `dataset.cc`: what getPattern reads and putPattern writes | operators |
| `DatasetMeaning` | the sequence of patterns each class stands for | reference definition |
| `Epochs` | the trainer's four loops over datasets of which only the answers are known; `shuffle` and `dice` | component |
| `DatasetEpochs` | `datasetToken.h`, and those loops over token datasets; putPattern of a script | component |
| `EpochsProof` | | theorems |
| `TextbookMatrices` | matrices as maps from coordinates to cells | abstract specification |
| `Matrices` | `matrix.h`, its binding and the BLAS wrappers | component |
| `MatrixScripts`, `MCMatrices`, `MCDatasets` | matrices and datasets to begin with | for TLC |
| `MCTrainer` | `MCDatasets` or `MCTrainingLoops`, one a behaviour | for TLC |
| `FifoBlock` | `fifo_block.h` | component |
| `TimestampHash` | `open_addressing_hash_timestamp.h` | component |
| `MirroredBlock` | `gpu_mirrored_memory_block.h` | component |
| `StoppableThreads` | `threadable.h`, `sig_int_handler.cc` | component |
| `BaseLibraryProof` | these four parts and `ContextWindow` | theorems |
| `MCBaseLibrary` | the first three and `ContextWindow`, one part a behaviour | for TLC |
| `MCThreadUtils` | a `MutexedFifo` or two threads, one a behaviour | for TLC |

Names of `ConvergenceTraining` begin with `Wo`, and those of the specifications in `ContextWindow`, `FifoBlock`, `TimestampHash`,
`StoppableThreads` and `DatasetEpochs` with `Window`, `Fifo`, `Hash`, `Threads` and `Dataset`, because an MC module puts each beside another
component. Components put side by side share no state, and a behaviour is one of one of them: the run checks each as it would be alone.

### SharedWeights

A Connections object is a member of `Conns`, a slot that may be used again once nobody points to
it; `weights`, `prevWeights`, `numReferences` and `updateWeightsCalls` are its fields. A leaf
(`Comps`) is a dot product or a bias with its options as constants; `matrix[c]` is its pointer. A
trainer has a `weightsTable` from names to objects. A matrix is represented by *one entry*, an
integer, and a gradient is the term added to it (already scaled): the rules of momentum and decay
act on each entry alike, and what can go wrong is which buffer is read and written when.

* `Build`/`BeginBuild` is the head of `supervised_trainer:build`: reset_connections, then the new
  table; `AttachFromTable`, `KeepPrevious` and `AllocateWeights` are the three ways the build of a
  leaf finds its object, each followed by countReference. `phase` and `todo` say which leaves of the
  traversal are left; everything runs in one thread, so nothing comes between them. The order of
  build and the one of doUpdate are given by `BuildRank` and `Rank`: stacks and hyperplanes update
  backwards, joins forwards.
* `DoUpdate` is the whole doUpdate of a leaf: beginUpdate (the first call turns prev_weights into
  the start of the next weights), the product that adds the gradient (with the factor `Beta`),
  endUpdate (the last call swaps) and the max-norm penalty of the call that swapped.
* `Clone` is the deep copy the training loops keep; `Drop` is the Lua collector taking a trainer,
  whose leaves drop their pointers and do not lower the count; `LoadWeights` is loadWeights and
  randomizeWeights.
* `given`, `acc`, `base` and `rule` are history variables.

`Spec` covers networks that do not share objects with other trainers; `SharingSpec` adds
`BuildShared`, a trainer built with another one's table, which is legal and breaks the counts (see
the findings).

### MutexedFifo

Each thread has a program counter: outside, entering `get`, holding the mutex, about to wait,
asleep, and the same inside `reset` (which is a loop of `empty` and `get`, in separate critical
sections). `pthread_cond_wait` releases the mutex and sleeps in one step, may wake without a
signal (`SpuriousWakeup`), and has to take the mutex again; `pthread_cond_signal` wakes one
sleeper, any of them, if there is one. `put` signals only when the item is the only one.
`lock` writes the flag and `unlock` writes it and signals, neither with the mutex, so `UnlockFlag`
and `UnlockSignal` are two steps that fall anywhere between the steps of the others.

### ContextWindow

`vec` is the vector of pointers: the elements of a sequence are numbered from 1 and 0 is the null
pointer, so that equal entries are equal pointers. `numInserts`, `numShifts` and `end` are the
code's; `fill_after` is true for the first shift after end_input only, and is the argument of
`Shift`. `live` is the set of elements allocated and not yet deleted, which `Owned` is about. `Get`,
`GetShifted`, `ReadElement`, `ReadEnd`, `ReturnWindow` and `ReturnEnd` are the steps of
`FloatContextualizerProducerFromDouble::get`: read elements until a window is ready or the source
ends, then return a window or the end. `Reset` may come between any two calls and starts another
sequence. `PartlyFilled` says whether sequences with `after < length <= before + after` occur (the
code mishandles them).

### HoldoutTraining and ConvergenceTraining

The networks of a call are numbered by the epochs they have been trained, so that `best = Clone`
is a snapshot and `measured[v]` (history) is what the validation of network `v` returned. Errors
are integers or `NaN`, with `Less` false on NaN as `<` is in Lua. That a clone really is a snapshot,
which training leaves alone, is what `SharedWeights` establishes (`Separate`). The criterion
of a call is one of the two that `trainable.stopping_criteria` makes, or the caller's, which may
answer anything. In `ConvergenceTraining` the quotient
`(prev_tr_err - tr_err)/prev_tr_err < fraction` is `TooLittle`, with its three cases for the sign
of the divisor; 0/0 is NaN and compares as false.

### TokenReferences

A place is somewhere a `Token*` is kept: a member of a component (`Member`), an entry of a vector of
tokens (`Entry`) or a userdata (`Handles`). `heap.at` says what each place holds, `heap.refs` is
`Referenced::refs`, `heap.type` the token code of the tokens that exist, and `heap.dying` the tokens
whose count has just reached zero. The operators on a heap are the code's: `Release` is DecRef of what
some places hold, `Bind` is IncRef, `Assign` and `AssignNew` are AssignRef, `Sweep` runs the
destructors, and a vector drops its entries. AssignRef leaves the old pointer where it was while the new
value is computed; nobody reads it, and the model has the place empty meanwhile.

A call runs as one action for each leaf (its whole doForward or doBackprop) and, in a container, one
for the head of the handler, one before and one after each child: `todo` is the stack of what is left
of the call. `hand` is the `Token*` argument or result that passes between two components, and nobody
counts it, which is why the order of AssignRef's steps matters: the container gives up the old result
of a child before the child computes the new one. `Delete` comes before anything else, so that a token
freed too early is seen to be missing. A type that a handler does not expect is ERROR_EXIT
(`Fail`, outcome "error"), and a call through a null pointer is outcome "wild" (`KeepNull`, `DoUpdate`).

The script makes the calls of `train_step` and `build` in any order that they allow. It is anything a Lua program may do between calls with the tokens it has: forward of the
network or of a part of it, gradient of the loss, backprop (also more than once), update, reset of the
network or of the loss, build again, dropping the network, and the collector taking any userdata at
any time between calls (`Collect`). It respects the protocol of the components: update and
backprop follow a forward of the same component. Left out: sizes and bunch sizes (their checks end the
program or are assertions), vectors that a script makes, and the getters of the tokens kept.

### StoppableThreads

The owner is the thread of the Lua program and calls the methods of every object (`self` is the one it is at); `thread[a]` is the
one inside `execute` of object `a`, and `handler[w]` the signal handler over the thread `w`, which it holds up. The signal is
held back only in the thread that handles it, so that a second ctrl+c may start a handler over another. No lock protects
`running` or the list: every read and write is a step. `TestStop` then `ClearRunning` then
`RemoveThread` are stopThread of the owner, `Walk`, `HandlerStops` and `HandlerRemoves` that of a handler, and `TestRunning`,
`ThreadProcedure` and `End` are `execute`. A start of a thread that has ended joins the one before (`caller` says where the owner
returns to). `objects[a]` counts the entries of `a` in the global list, and `left[w]` those that a handler has still to
visit; the order of the list is not told apart. An iterator at a node that was erased, an entry of a deleted object
and a list in the middle of an edit are undefined: the step may crash the program or not (`MayCrash`), and two edits that
overlap may leave a list in which a handler finds anything (`torn`). `overtaken` is a history: the objects that were started while
a handler was about to remove them. The hooks (`executeBefore…`, `executeAfter…`) and a derived destructor, of which the
repository has none, are left out.

### Datasets, DatasetMeaning, Epochs and DatasetEpochs

A dataset is a record with the fields of its class, and `st[leaf]` its array. For each class there is
an operator for the code of getPattern (`MatrixGet`, `UnionPart`, `CacheGet` …), with its cursors,
cumulative tables and searches, and one for putPattern where the class can be written (`PutCells`,
`Stored`, `PutPattern`). `DatasetMeaning` says the same without any of these: digits of a number, the concatenation of
sequences, the last occurrence before a position. A behaviour of `DatasetEpochs` is one
call: a script that puts two patterns (`ScriptPut`), or one of the loops of `Epochs`: an epoch of train_dataset or validate_dataset (the
actions `Sequential`, `Shuffle`, `Replacement`, `Distribution` prepare its index table; `Step` takes a
bunch), for_each_pattern (`CallFunction`) or use_dataset (`UseBunch`). A bunch is a block in which patterns are columns, as
in the code. Random numbers are any numbers.

The classes of datasets are recursive operators, since views contain views, and nothing can be proved in a module that has one. `Epochs` therefore knows
of a dataset what the Lua code knows, the answers to its methods, which are constants (`PatternOf`, `NumPatternsOf`, …), and the
configuration gives them the operators of `DatasetEpochs`. What the loops need of them is `ReadsAssumption`: getPattern finds the pattern
that the dataset stands for. TLC evaluates it with the datasets of the run, and `GetsItsPattern` checks the same over more classes. For a union it is
`IsUnion` in `CallsAssumption`. A step of `DatasetEpochs` is a step of `EpochSpec`, `ScriptPut` being an `OtherCall`.

### Matrices and TextbookMatrices

`mat[h]` has the fields of the class, `data[b]` is a block of memory, and a slice has the block of its matrix.
`Visited` is where an iterator stops, `Lines` the elements that the operations built on BLAS go through one line at a
time, `Leading` and `VectorStride` what BLAS is told. BLAS itself (`Run`, `Products`, `BlasEntry`, `BlasOp`) is external. Each action is a method as
the binding calls it; a call whose checks fail ends the program and is not a step. Elements are
integers, and a file that is saved and read again keeps them (`Saved`, `Reload`). axpy, addition and substraction take matrices of
equal sizes here; the code asks only that they have as many elements.

In `TextbookMatrices` a matrix shows a *cell* at each coordinates; a slice shows the cells of another, and every
other new matrix has cells of its own. The refinement maps a cell to a block and a position. `call` is in
both, so that it is the call that was made that has to do what the book says.

The calls that the class gets wrong are written as the code has them, and marked by `Works`: with
`Mishandled = FALSE` they do not occur, and the refinement says that all others are right. They are listed under the
[findings](#5-findings).

### FifoBlock, TimestampHash and MirroredBlock

`fifo[q]` is the chain of blocks of a queue with the two positions; `queueCrashed` records that a null pointer was followed,
which happens when a queue whose last block is exactly full is counted, copied or walked, or drained and then
read (`AtBoundary`); such a call ends the behaviour. `held` is the sequence the queue should hold.

`buckets` is the array of the table, with key, datum and stamp; `Find` walks from the hash by the key's own step. A bucket is live when it has the
current stamp, and `Clear` makes a new stamp or, at the limit, erases the stamps. `dict` is what was assigned
since the last clear.

`mem` is both sides of a mirrored block, `updated` the sides up to date. A caller that takes a side to write
writes *some* cells: if that side was stale, what the other held in the rest is lost (`lost`), which is how the class is used: it
trusts its caller. `ShowsLastWritten` is about the other cells.

## 3. The runs

Runs that must pass:

| run | instance | properties | states |
|---|---|---|---|
| `shared_weights_tied` | an autoencoder (two tied dot products of different options) and its clone; 3 objects, 2 steps | `ReferencesExact`, `NothingPending`, `PartialStep`, `NoMoveUnderUpdate`, `IndInv`, refinement of `MomentumStep` | 46 000 |
| `thread_utils` | a queue of 3 with one reader, two writers and a controller; two threads, 3 starts and a ctrl+c | `ResetNeverSleeps`, `ThreadNeverOutlives`, `ReachedByCtrlC`; `GetReturns`, `DestructionEnds` (fair) | 431 000 |
| `mutexed_fifo_many` | three readers, two writers, a controller; queue of 3 | `SomeoneAwake`, `IndInv`, refinement of `BlockingFifo` | 495 000 |
| `token_references` | a stack of a copy, two joins (one of dot products, one of a bias and an identity) and an activation; a copy before a dot product in a hyperplane; a loss; 5 calls, 2 userdata | `CountsExact`, `NoDangling`, `NoLeak`, `Wiring`, `UpdateReady` | 70 000 |
| `trainer` | 29 datasets with two puts; epochs of every mode, bunches of 1 to 4; nine beginnings of scripts with matrices up to 3×3 and 2×2×2, 2 calls; 120 calls of training with validation of up to 5 epochs, 3 errors and NaN; 9 calls of training without, of up to 4 epochs, 6 errors, fraction 1/4 | `GetsItsPattern`, `PutsInItsPattern`, `TrainsPairs`, `WholeEpoch`, `UseWrites`, `AnswersAreRight`, refinement of `TextbookMatrices`; `BestWasMeasured`, `BestIsLeast`, `NoWorseThanGiven`, `Patience`, `HoldoutInv`, `LeastAccepted`, `StopsOnConvergence` | 284 000 |
| `base_library` | two queues with blocks of 2; 4 colliding keys and 2 stamps; a block of 2 cells; windows of 0 to 3 elements on each side over sequences of up to 9 | `HoldsItsElements`, `IsDictionary`, `ShowsLastWritten`, `RightWindow`, `EveryElement`, `Owned`, `WindowInv` | 29 800 |

Runs that find a violation: `shared_weights_references`, `mutexed_fifo_unlock`, `context_window_partly_filled`, `convergence_negative`,
`matrices_dot_of_slices` and `datasets_circular`; see the
[findings](#5-findings).

What they show:

* **Shared weights.** However networks are built, rebuilt, cloned, loaded and dropped, the count
  equals the leaves attached, a step never leaves an object half updated, no weights move while a leaf still
  has to add a gradient computed with them, and the two buffers act as one matrix that moves once
  a step by the textbook rule of the first caller. One of the two leaves is sparse with momentum and the
  other dense without, so that the factor only the *first* dense call without momentum may apply is seen on both.
* **Queue.** The readers are never all asleep beside an item; the threads see a queue with
  instantaneous operations; with one reader, `reset` does not sleep although it tests and takes
  in two critical sections, and a `get` beside an item returns.
* **Windows.** Every element is the centre of one window, in order, with ends repeated, and
  every element is deleted once, also when get is reset half-way.
* **Tokens.** After every step of every call the counts are those of the places that hold each token,
  nothing deleted is held or being passed, nothing is left behind, and after a backprop each component
  holds the input and the error that its neighbours hold or returned, so that update multiplies two
  tokens of one pattern, whatever tokens the script has dropped. "Whatever the script does" means the calls modelled: an update after a
  reset, or after a call of a part of the network alone, does not occur (`LuaUpdate`).
* **Training.** The network kept is the first of least error among those compared, its error is
  the one announced, ties and NaN included; patience is the limit, plus one until the first
  improvement.
* **Threads.** Whoever ends a thread, the script, the procedure or ctrl+c in the middle of a method, it is joined before its object is
  deleted or started again; the destructor returns. A running thread whose start is over is in the list of ctrl+c, with two
  exceptions, both reached by the run: a handler over another thread was about to remove it when it was started again
  (`overtaken`: then it is not in the list), or edits of the list overlapped and broke it (`torn`: then nothing is known of the list).
* **Datasets.** getPattern of each class, over borders, wrapped windows, views of views and whatever was put before, gives the pattern of the
  definition; putPattern changes the cells that the pattern shows and no other. Matrices whose circular dimension in the middle has another size than the next
are excepted (`WrapsRight`; finding 6). An epoch hands each input with the target of the same pattern, as
  often as the mode says, also in a short last bunch, and use_dataset fills its output.
* **Matrices.** What is done through strides, offsets and leading dimensions is what a book says of whole matrices, slices, slices of slices and
  clones, in either order; a write through a slice is seen in its matrix and nowhere else.
* **Containers.** A chain of blocks holds its elements in order through puts, gets, copies, swaps and moves across boundaries; the stamped hash is a
  dictionary over collisions, growth, clears and stamps that run out; either side of a mirrored block shows the last write.

Bounds. `MaxSteps = 2`: the momentum of a second step reads what the first one left; builds and
drops are not bounded, so a third step in a rebuilt network is the second of another.
Three objects let a trainer move to a new object while its clone has one and the old one is free
for reuse. `put` tells an empty queue from one that is not,
and a queue of 3 lets two items pile up behind the one that was signalled. With windows of 3 and sequences of 9 the vector fills, moves and drains,
and both ends are in the window together and apart. Five epochs allow two forced ones, an improvement and a patience of two to run out; with three
errors there are a best, a tie and a worse one. Blocks of 2 and queues of 3 fill, cross and drain a block. Four keys that collide in four buckets make a table of at most 16 grow twice, and
with 2 stamps the third clear erases. Three starts of two threads allow one to be restarted while a handler runs over the other; two handlers at once, and a ctrl+c after another, are left to the theorems, which hold for any number of objects and signals. Two puts overwrite each
other; the datasets have up to 6 patterns, windows that leave the matrix on each side, and bunches that do and do not divide
them. Two calls after a slice allow a write through a slice of a slice that the first matrix shows, and a result used as an operand; the sizes tell rows from columns and a
line of a slice from one of its matrix. Five calls of a network allow build, forward,
gradient, backprop and update; or two rounds of forward and backprop on one vector of a join; with two
userdata a script holds an input and an output. A script makes a token only when it has
dropped the others. A place has four addresses for what is made for it, which is never too few (the
run would deadlock). Where no bound of the code's own is
needed (`ContextWindow`, the queue's readers and writers, the number of epochs) the theorems hold without any.

`CHECK_DEADLOCK FALSE` is where a behaviour may end: a call of a training loop or an epoch that has returned, a bound on calls
reached, a program that crashed or a thread that was deleted (`Trainer`, `ConvergenceTraining_Negative`, `DatasetsCircular`, `Matrices_AnswersAreRight`, `BaseLibrary` and `ThreadUtils`).

Fairness. `thread_utils` asks it (`ThreadsScheduled`) of the owner inside a method, of each thread and of each handler, each on its own
(`OwnerStep`, `ThreadStep(a)`, `HandlerStep(w)`): the operating system schedules them, and a
procedure returns. The script need not call anything and no signal need arrive; under it a
destructor that was called ends, unless a ctrl+c has crashed the program.
And of the queue (`Scheduled`) that a thread that is
neither asleep nor kept out of the mutex takes its next step (weak fairness of each reader's and controller's
`Step`; `put` is one step): a thread inside a critical section is scheduled by the operating system and
leaves it. Nobody is obliged to call anything, and spurious wakeups are never obliged to happen.

## 4. The proofs

`SharedWeightsProof`, for any networks, names, options, gradients and number of steps, from the
assumptions `CompsAssumption`, `RankAssumption` and `OptionsAssumption` of the module:
`ReferencesAreExact`, `StepsComplete`, `PartialStepExact`, `WeightsStayDuringUpdate`, `TypeCorrect`
and `Refinement` (of `MomentumStep`). None of these is inductive. The count is right at the end of a build because
it counts the leaves visited so far (`CountsExact`), which holds because nobody else touches the object
(`Separate`); the gradients handed in are those of exactly the leaves visited (`GivenExact`),
their number is the counter (`CallsExact`), so the counters meet at the last leaf and nowhere else.
`IndInv` is the conjunction; one lemma per action shows that it is preserved, and the refinement follows from it.

`MutexedFifoProof`, for any set of threads and any bound on the queue: `PutsAreNoticed`
(`SomeoneAwake`), `FifoRefinement`, and `ResetIsNonBlocking` with a single reader. The invariant says who
holds the mutex (`HoldsMutex`), and that a reader between its test and its wait still finds the queue
empty and the fifo blocking unless somebody has unlocked (`WaitsOnEmpty`).

`BaseLibraryProof`, on the context window, for any window and any length: `WindowInvariance`, `WindowsAreRight`, `EveryElementIsCurrent` and `ElementsAreOwned`, assuming
`~PartlyFilled`. The invariant is a closed form of `vec` in terms of the elements inserted and shifted (`Contents`). For
the last theorem it is strengthened to `OwnedInv`: what is allocated is what `vec` holds. The search of `delete_contents`
relies on equal elements being neighbours; under the closed form the run it finds holds every element once.

`TrainingLoopsProof`, on train_holdout_validation: `HoldoutInvariance`, `BestErrorIsItsOwn`, `BestIsTheLeast`, `TrainingCostsNothing`, `PatienceIsBounded`, for any options and
errors. `HoldoutInv` carries the comparison over the networks compared *so far*, and keeps epoch, network and
best epoch in step. On train_wo_validation: `ConvergenceKeepsBest` and `EarlyStopIsConvergence`, for errors that are not negative.

On threads, for any number of objects, starts and signals: `ThreadsInvariance`, `JoinedBeforeDeleted` and `RunningIsListed`. Neither property is
inductive: they hold because only the owner sets `running`, at a moment when it has joined the thread of
the start before, so that no handler can be over that thread (`Interrupted`, `Joining`), and because whoever removes an object from the list has
cleared its `running`, which is still so at the removal unless a start has overtaken a handler (`Stopping`).

On the mirrored block: `EitherSideShowsTheLast`, for any cells and values.

On block queues, for blocks of any size: `FifoInvariance` and `QueuesHoldTheirElements`. `FifoInv` says that a
chain without blocks is that of an empty queue, that every other has something in its last block, and that the
positions from `index_read` on hold the elements in order; put, drop and the copy that puts one element after the other
(`CopyHolds`) keep it by arithmetic on positions (`Position`, `NextBlock`).

On the stamped hash, for any hash function, any largest stamp and any load factor that its assumption admits: `TableInvariance` and
`TableIsDictionary`. `IsDictionary` is not inductive. `TableInv` adds that the number of buckets is a power of 2, that no stamp is of a later
time, and that a search for each key meets only entries of the time of other keys before its own. That a search ends at
all is where the odd step is needed: an odd number goes round a power of 2 without repetition (`OddsGoRoundTwice`, `PlacesDiffer`), so its places are all the
buckets (`PlacesCover`), and the load factor leaves one free (`ThresholdLeavesOne`). Growth moves entry after entry to
a larger table (`RehashKeeps`).

The functions defined by recursion in these modules are shown to exist, and their values to have a property, by induction over a
set of numbers (`Induction`, from the least element of a set of numbers): the library's induction theorems take an operator.

`TokenReferencesProof`: `CountsAreExact`, `NothingDangles` and `NothingLeaks`, for any networks, any addresses and any script, from
three assumptions. `TreeAssumption` types the constants. `NetworkAssumption`: finitely many components, none below itself, and no join without children (the
code's build would not end, or stops at an assertion). `ArenaAssumption`: tokens made in one step have addresses of their
own. `Below` and `Updated` are in the module, and not a recursive operator and `@@`, so that the prover can expand them.
`TokensInv` has five parts, checked with TLC before they were proved:

* `Sound(heap)`: counts are exact and what is about to be deleted is what nobody holds. It needs to know where
  places are: entries of a token are numbered from 1 (`Placed`), and each vector of a join has an entry for each child and
  nobody else keeps it, but for the gradients that a segmented join returns whole (`Owns`). Without that, releasing the entries of one vector might
  empty another's.
* `TodoInv` and `Waiting`: a join that waits for a child is not below what runs before the child returns, since networks are acyclic; so the entry it
  waits for stays empty, and IncRef alone (`KeepResult`) is right there.
* `HandInv`: what is passed on, which nobody counts, is kept by a place that the next handler does not release before it takes it: a userdata, an entry, or the
  result that the component before keeps (`Lasting`). This is the argument that the order of AssignRef is harmless.
* `ScriptInv`: the protocol of the script; while a forward or a backprop may run the joins have their vectors.

One lemma for each operator of the heap says that it keeps a heap sound and which places change (`ReleaseSound`,
`AssignSound`, `NewSound`, `SweepSound`); one for each action follows from them.

`UpdateReadinessProof`: `UpdateIsReady` (of `UpdateReady`), again for any networks, addresses and script. It adds `NamesAssumption`: a component has one place in
a network and only containers have children, since build ends the program at a second component of the same name (`ann_component.h:175`). A dot product with a sparse input returns no
gradient, and what comes before it is left without an error. The theorem holds because none of that has weights, and the proof follows a token from
the component that is called on:

* `Dense(n)`, a fixed point over the arguments and results of the components below `n`: those that cannot be sparse tokens, because a component that makes a
  block comes before with only stacks, copies and identities between. What a join gives its children is never in it: entries of a vector may be sparse.
* `CallInv`: steps that follow each other in `todo` agree on what they pass (`Meets`): the argument of a forward is dense where `Dense` says so, and the error of a
  backprop is not null where the result of the component was dense (`Arrives`).
* `DoneInv`: of the components that the call has not left to do (`Left`), a dot product keeps an input, and has not taken it for sparse where it is in `Dense`
  (`Fed`); after a backprop, those with weights keep an error (`Corrected`). Between calls nothing is left.

`WiringProof`: `NetworksAreWired` (of `Wiring`), for any networks, addresses and script, from the assumptions above and
`LossAssumption`: a loss function is no component of a network (it has another base class). That the two factors of the
product that update computes come from one run of the same pattern is not inductive: in the middle of a call part of the
network has the tokens of the new call and part those of the call before. The invariant `WireInv` says where the border is.

* A component has two doors, `In` and `Out`; stacks, hyperplanes and identities tie doors to each other (`Onto`), and a *wire* is all the doors that are tied
  (`Wire`). What keeps tokens has ports on wires: a leaf or a join its argument and its result, a join also an entry for each of its branches (`Ports`). Since a component has
  one place in a network, one port at most gives a token to a wire and one at most takes it (`Givers`, `Takers`); this is
  where names that are unique are needed.
* `Fits`: what a port took is what was given to its wire, unless the steps still to do reach the wire (`Awaits`). A first operand that is sparse is taken
  in a vector made for it (`Wraps`), which belongs to nobody else.
* `Chained` and `Brings`: steps that follow each other end and begin on the same wire, the last one ends where the network does, and the token on its way is the one given
  to the wire that the next step takes from.

Each handler gives a new token only to a wire that a later step reaches (`HandlesStep`); a backprop disturbs nothing of the
forward before it (`ForwardKept`), and neither does anything else a script may do between the two (`Undisturbed`). `Wiring` follows between
calls, where nothing is left to do: the components of `Flat`, which the containers list, stand one after the other on
wires (`FlatStrand`, by induction on what is below a component). The proof found `Flat` itself ambiguous, two of its
cases overlapping for a component that keeps tokens and has no children; they are apart now.

`EpochsProof`: `EpochsHold`, `EpochsTrainPairs` (of `TrainsPairs`) and `EpochsAreWhole` (of `WholeEpoch`), for any datasets, any size of bunch and
any random numbers, from `CallsAssumption` (what arguments a call may have) and `ReadsAssumption` (above). The invariant `EpochInv` has two parts.

* `Table`: the index table holds indexes of both datasets, all of them in an epoch that goes through the whole. A swap keeps a reordering (`SwapReorders`, `ShuffledReorders`); the search
  of dice stays between the outcomes (`HalveStays`, `ThrownIsOutcome`), and the sum of the sizes before the class, which the
  script adds, is where the class begins in the union of the inputs and in that of the targets (`PartsFollow`, `UnionPattern`).
* `Loop`: what has been handed, put together, is the pairs of the table up to `pos`, and every bunch but the last is full. A bunch goes through a
  block of memory in which patterns are columns; what a component reads at column *b* is row *b* (`ColumnOfBunch`), also in a
  last bunch with fewer rows.

The inductive invariants were checked with TLC before they were proved; those of the shared weights, the queue, the windows and
the training with validation are properties of the runs.

## 5. Findings

Each is a violation run of its own; `PROJECT.json` quotes the lines.

1. `shared_weights_references`: no destructor lowers `num_references`. After a trainer built with
   another's table is collected, the other one's weights move only every second step. (And
   rebuilding that trainer with a table of its own zeroes the count of the objects the other
   still uses, whose next update asserts.)
2. `mutexed_fifo_unlock`: unlock does not take the mutex; its signal can fall between a
   reader's test and its wait, and the reader sleeps in a fifo that no longer blocks.
3. `context_window_partly_filled`: with `after < length <= before + after` a window is
   returned twice and the last one never.
4. `convergence_negative`: the loss of the F measure is negative, and dividing by it turns the
   sign of the improvement: training stops at an epoch that improves, and drops it.
5. `matrices_dot_of_slices`: `getVectorStride` answers the stride of the row for a column that was sliced out of a
   row-major matrix (and the other way round): `dot`, `gemv` and `ger` over it take elements that are not in the vector.
6. `datasets_circular`: a circular dimension of a matrix dataset that is neither the first nor the last is counted with the
   size of the next one (`dataset.cc:143`, and `:196` to write): where the two differ, getPattern reads other cells than those of its
   window, wherever the window is.

Seen on the way and not given a run: `train_step` is documented to return the gradient at the component's inputs
(`trainable.lua:492`) and returns that of the loss at its outputs: what backprop returns is dropped. `put` signals only when its item is the only one, so two puts in a
row with two readers asleep wake one reader, while its comment (`mutexed_fifo.h:85`) promises to wake
whoever waits (`SomeoneAwake` says what does hold: some reader is awake). A dot product returns a null gradient for a sparse input
(`dot_product_component.cc:184`), and a join calls IncRef through it (`join_component.cc:201`): a
join of dot products cannot be trained on sparse tokens (`KeepNull` in `TokenReferences`, which the run
reaches). A dot product with sparse input and without momentum drops the weight decay: it copies the weights and leaves the decay to the factor of the
product (`dot_product_component.cc:315-318`), which the sparse product does not use (`:229-255`); `RuleOf` follows the code. `last_epoch` of train_holdout_validation is documented as the
number of epochs performed and is an epoch number, larger in a call resumed with `first_epoch`;
`best_epoch` is `first_epoch` while the untrained network is still the best, which is why
`Patience` allows one epoch more.

*Matrices* (marked by `Works`, except the last four): a clone of a slice of a slice adds the offset twice (`matrix.h:386-391`); `scal` of a column-major
slice goes along rows (`matrix.h:896-901`); `gemv` with a transposed matrix that is not square gives BLAS the sizes of the
transpose (`matrix.h:826`); `clamp` of a slice works on the first elements of the block (`matrix.h:657-661`); clone("row_major") of a column-major matrix keeps
its order. `putSubCol` reads `vec[row]` where it should start at the first row (no callers); `adjust_range` misses the range it is documented to reach unless the minimum is 0;
in `matrix.lua`, `__mul` calls a method that does not exist and `__unm` reads an undefined variable; and one constructor leaves `use_cuda` unset.

*Datasets*: IndexDataSet reads with
`firstindex` and writes without, and ContextualizerDataSet writes reversed contexts in the order that is not reversed (`Symmetric` leaves both
out of `PutsInItsPattern`), and an IndexDataSet over a dataset that ignores what is put goes on at the same value for the next dictionary
(`PutCells`); ShortListDataSet::getPattern reads a buffer that nobody filled; the `split` binding does not subtract 1 from its
bounds while `slice` does; SparseDataset validates from the start of the array. `use_dataset` with token input and no output makes a token vector, whose putPatternBunch is not implemented
(`UseNotImplemented`), though it is documented to construct a new dataset (`trainable.lua:960`). for_each_pattern
hands out zero-based indexes. The assertions of train_dataset of the form `not x ~= y` never fire. With a random number of exactly 1, dice::thrown can draw a last class of probability zero. The
cache dataset drops the last word of a history that it truncates.

*Containers and threads*: count, copies and iterators of a fifo_block crash when its last block is exactly full, and one drained
there answers that it is not empty and crashes in get (`Crash`). resize of the stamped hash to no more than it has to hold does not end.
pinnedMemoryPageLock discards what the block held. In the ctrl+c handler, `++it` uses a node that stopThread has erased; a ctrl+c between pthread_create and
add_thread misses the thread; a thread that ends by itself leaves its entry, which dangles after the object is deleted; waitThread returns at
once for a thread that is running. With two threads, a handler over the second that has told the first to stop may be overtaken: the first ends, is
joined, started and added again, and the handler then removes its new entry, so that the next ctrl+c does not reach it (`overtaken` in `ReachedByCtrlC`).
Nothing keeps two edits of the list apart (`torn`).

## 6. What is not modelled

* *Only model-checked*: liveness (`GetReturns`, `DestructionEnds`), which is out of the prover's reach;
  the classes of datasets (`GetsItsPattern`, `PutsInItsPattern`) and the output that `use_dataset` writes through them (`UseWrites`), recursive over the tree of views;
  the matrices (`AnswersAreRight`, `ImplementsTextbook`; folds over the elements).
* *Abstracted*: in `SharedWeights` a matrix to one entry (`Matrices` has the strides and orders, and no module rounding); floating
  point to integers; a pattern to its number; the learning rate and its division by the root of the number of
  references to the gradient. A token is its type, its entries and its count; its values and its size are not modelled.
* *Not modelled*, with the reasons in `PROJECT.json` under `components`: CUDA kernels, activation and loss
  functions (floating point), random datasets, imaging, HMM arithmetic, parsing and files, generated bindings, vendored Lua. `save`
  writes in place and the code has no recovery from a crash in the middle, so there is
  nothing for a model to check except that the file is then lost; it is listed as a hazard.
