---------------------------- MODULE SharedWeights ---------------------------
(***************************************************************************)
(* Connections objects (ann_base/c_src/connection.{h,cc}) and the leaf     *)
(* components that share them by weight name: the dot products and biases  *)
(* of the networks that trainers build, train, clone and drop.             *)
(*                                                                         *)
(* A Connections object has two buffers, weights and prev_weights, and two *)
(* counters.  num_references is raised by every component whose build      *)
(* attaches the object, update_weights_calls by every doUpdate.  The first *)
(* doUpdate of a step turns prev_weights into the start of the next        *)
(* weights, every doUpdate adds its gradient to it, and the one that makes *)
(* the counters equal swaps the buffers.                                   *)
(*                                                                         *)
(* A matrix is represented by one of its entries, an integer; a gradient   *)
(* is the term that doUpdate adds to that entry, already scaled by the     *)
(* learning rate.  Everything runs on the one Lua thread: a build or an    *)
(* update visits its leaves one after the other and nothing comes between. *)
(***************************************************************************)
EXTENDS Integers, FiniteSets

CONSTANTS
    Comps,          \* leaf components: dot products and biases
    Trainers,       \* trainable.supervised_trainer objects
    Conns,          \* storage for Connections objects, reused when free
    Names,          \* weight names
    Null,           \* the null pointer, the absent table entry
    Owner,          \* the trainer whose network a leaf is part of
    WeightsName,    \* weights_name of a leaf
    BuildRank,      \* position of a leaf in the traversal of build
    Rank,           \* position of a leaf in the traversal of doUpdate
    Kind,           \* "dense", "sparse" (dot products) or "bias"
    Momentum,       \* the momentum option of a leaf
    CWeightDecay,   \* c_weight_decay = 1 - weight_decay of a leaf
    MaxNorm,        \* max_norm_penalty of a leaf, 0 when it is off
    Grads,          \* gradients
    Vals,           \* contents of loaded and of newly allocated weights
    MaxSteps        \* bound: training steps of a behaviour

ASSUME CompsAssumption ==
    /\ IsFiniteSet(Comps)
    /\ Null \notin Conns
    /\ Owner \in [Comps -> Trainers]
    /\ \A t \in Trainers : \E c \in Comps : Owner[c] = t
    /\ WeightsName \in [Comps -> Names]

\* Both traversals visit the leaves of a network one at a time.  A stack and
\* a hyperplane update their components in the opposite order of build, a
\* join in the same one.
ASSUME RankAssumption ==
    /\ BuildRank \in [Comps -> Nat] /\ Rank \in [Comps -> Nat]
    /\ \A c, d \in Comps : Owner[c] = Owner[d] =>
          /\ BuildRank[c] = BuildRank[d] => c = d
          /\ Rank[c] = Rank[d] => c = d

ASSUME OptionsAssumption ==
    /\ Kind \in [Comps -> {"dense", "sparse", "bias"}]
    /\ Momentum \in [Comps -> Nat]
    /\ CWeightDecay \in [Comps -> Int]
    /\ MaxNorm \in [Comps -> Nat]
    /\ Grads \subseteq Int
    /\ Vals \subseteq Int /\ Vals # {}
    /\ MaxSteps \in Nat

VARIABLES
    weights,            \* Connections::weights
    prevWeights,        \* Connections::prev_weights
    numReferences,      \* Connections::num_references
    updateWeightsCalls, \* Connections::update_weights_calls
    matrix,             \* weights_matrix or bias_vector of a leaf
    weightsTable,       \* weights_table of a trainer
    built,              \* the trainers that have been built
    phase,              \* the traversal under way: "build", "update", "none"
    todo,               \* its leaves still to be visited
    steps,              \* training steps so far
    \* history variables, read by no action
    given,              \* the leaves that have updated since the last swap
    acc,                \* the sum of their gradients
    base,               \* prev_weights when the first of them began
    rule                \* the momentum and decay it began with

connVars  == <<weights, prevWeights, numReferences, updateWeightsCalls>>
netVars   == <<matrix, weightsTable, built>>
ghostVars == <<given, acc, base, rule>>
vars      == <<connVars, netVars, phase, todo, steps, ghostVars>>

Leaves(t)   == {c \in Comps : Owner[c] = t}
Attached(n) == {c \in Comps : matrix[c] = n}

\* Where a trainer still holds a pointer: its table and its components.
Uses(t) == ({weightsTable[t][x] : x \in Names} \cup {matrix[c] : c \in Leaves(t)})
              \ {Null}
Free    == {n \in Conns : \A t \in Trainers : n \notin Uses(t)}

EmptyTable == [x \in Names |-> Null]
NoRule     == [mom |-> 0, decay |-> 1]
-----------------------------------------------------------------------------
Init ==
    /\ weights \in [Conns -> Vals]
    /\ prevWeights = weights
    /\ numReferences = [n \in Conns |-> 0]
    /\ updateWeightsCalls = [n \in Conns |-> 0]
    /\ matrix = [c \in Comps |-> Null]
    /\ weightsTable = [t \in Trainers |-> EmptyTable]
    /\ built = {}
    /\ phase = "none"
    /\ todo = {}
    /\ steps = 0
    /\ given = [n \in Conns |-> {}]
    /\ acc = [n \in Conns |-> 0]
    /\ base = prevWeights
    /\ rule = [n \in Conns |-> NoRule]

(***************************************************************************)
(* supervised_trainer:build: the Connections the leaves hold are reset,    *)
(* then the leaves are built with the given weights table.  Objects of the *)
(* table that are new come with contents w, p and counters at zero.        *)
(***************************************************************************)
\* Mutant: build forgets reset_connections.
HeldNone(t) == {}

Held(t)    == {matrix[c] : c \in Leaves(t)} \ {Null}
New(table) == {table[x] : x \in Names} \cap Free

BeginBuild(t, table, w, p) ==
    LET new == New(table)
        Zeroed(f) == [n \in Conns |-> IF n \in Held(t) \cup new THEN 0 ELSE f[n]]
    IN
    /\ phase = "none"
    /\ numReferences' = Zeroed(numReferences)
    /\ updateWeightsCalls' = Zeroed(updateWeightsCalls)
    /\ weights' = [n \in Conns |-> IF n \in new THEN w[n] ELSE weights[n]]
    /\ prevWeights' = [n \in Conns |-> IF n \in new THEN p[n] ELSE prevWeights[n]]
    /\ weightsTable' = [weightsTable EXCEPT ![t] = table]
    /\ phase' = "build"
    /\ todo' = Leaves(t)
    /\ UNCHANGED <<matrix, built, steps, ghostVars>>

\* A table of the trainer's own Connections, under any names, and of objects
\* made for the occasion by ann.connections{ ... }.
Build(t) ==
    \E table \in [Names -> Uses(t) \cup Free \cup {Null}], a, b \in Vals :
        /\ New(table) = {} => a = b
        /\ BeginBuild(t, table, [n \in Conns |-> a], [n \in Conns |-> b])

\* The table of another trainer that is alive.
BuildShared(t, u) ==
    t # u /\ u \in built /\ BeginBuild(t, weightsTable[u], weights, prevWeights)

(***************************************************************************)
(* supervised_trainer:clone: a new trainer is built with a table that      *)
(* holds a copy of each of the original's Connections.                     *)
(***************************************************************************)
Clone(t, u) ==
    /\ t \in built /\ u \notin built
    /\ \E copy \in [Names -> Free \cup {Null}] :
          /\ \A x \in Names : copy[x] = Null <=> weightsTable[t][x] = Null
          /\ \A x, y \in Names : copy[x] = copy[y] /\ copy[x] # Null => x = y
          /\ LET src == [n \in Conns |-> weightsTable[t]
                                  [CHOOSE x \in Names : n \in New(copy) => copy[x] = n]]
             IN BeginBuild(u, copy,
                           [n \in New(copy) |-> weights[src[n]]],
                           [n \in New(copy) |-> prevWeights[src[n]]])

(***************************************************************************)
(* The build of one leaf: the table's Connections, else the one the leaf   *)
(* had, else a new one; then countReference.                               *)
(***************************************************************************)
NextToBuild(c) ==
    /\ phase = "build" /\ c \in todo
    /\ \A d \in todo : BuildRank[c] <= BuildRank[d]

EndOfBuild(c) ==
    /\ todo' = todo \ {c}
    /\ IF todo = {c} THEN phase' = "none" /\ built' = built \cup {Owner[c]}
                     ELSE UNCHANGED <<phase, built>>

AttachFromTable(c) ==
    LET n == weightsTable[Owner[c]][WeightsName[c]] IN
    /\ NextToBuild(c)
    /\ n # Null
    /\ matrix' = [matrix EXCEPT ![c] = n]
    /\ numReferences' = [numReferences EXCEPT ![n] = @ + 1]
    /\ EndOfBuild(c)
    /\ UNCHANGED <<weights, prevWeights, updateWeightsCalls, weightsTable,
                   steps, ghostVars>>

KeepPrevious(c) ==
    LET n == matrix[c] IN
    /\ NextToBuild(c)
    /\ weightsTable[Owner[c]][WeightsName[c]] = Null
    /\ n # Null
    /\ weightsTable' = [weightsTable EXCEPT ![Owner[c]][WeightsName[c]] = n]
    /\ numReferences' = [numReferences EXCEPT ![n] = @ + 1]
    /\ EndOfBuild(c)
    /\ UNCHANGED <<weights, prevWeights, updateWeightsCalls, matrix, steps,
                   ghostVars>>

AllocateWeights(c) ==
    /\ NextToBuild(c)
    /\ weightsTable[Owner[c]][WeightsName[c]] = Null
    /\ matrix[c] = Null
    /\ \E n \in Free, a, b \in Vals :
          /\ weights' = [weights EXCEPT ![n] = a]
          /\ prevWeights' = [prevWeights EXCEPT ![n] = b]
          /\ numReferences' = [numReferences EXCEPT ![n] = 1]
          /\ updateWeightsCalls' = [updateWeightsCalls EXCEPT ![n] = 0]
          /\ matrix' = [matrix EXCEPT ![c] = n]
          /\ weightsTable' = [weightsTable EXCEPT ![Owner[c]][WeightsName[c]] = n]
    /\ EndOfBuild(c)
    /\ UNCHANGED <<steps, ghostVars>>

(***************************************************************************)
(* supervised_trainer:train_step: forward and backprop read the weights,   *)
(* then update visits the leaves.                                          *)
(***************************************************************************)
TrainStep(t) ==
    /\ phase = "none" /\ t \in built /\ steps < MaxSteps
    /\ phase' = "update"
    /\ todo' = Leaves(t)
    /\ steps' = steps + 1
    /\ UNCHANGED <<connVars, netVars, ghostVars>>

NextToUpdate(c) ==
    /\ phase = "update" /\ c \in todo
    /\ \A d \in todo : Rank[c] <= Rank[d]

DecayOf(c) == IF Kind[c] = "bias" THEN 1 ELSE CWeightDecay[c]

\* Mutant: the momentum term with the sign doSaxpy leaves before doSscal.
StartedPrevUnscaled(c, w, p) ==
    IF Momentum[c] > 0 THEN Momentum[c] * (p - w) + DecayOf(c) * w ELSE w

\* computeMomentumOnPrevVector then computeWeightDecayOnPrevVector, or
\* copyToPrevVector.
StartedPrev(c, w, p) ==
    IF Momentum[c] > 0 THEN (-Momentum[c]) * (p - w) + DecayOf(c) * w ELSE w

\* Mutant: the decay factor applied by every call of the step.
BetaAlways(c, calls) ==
    IF Momentum[c] = 0 /\ Kind[c] = "dense" THEN CWeightDecay[c] ELSE 1

\* The factor the gradient's own product applies to prev_weights: only the
\* dense dot product without momentum scales it, by c_weight_decay.
Beta(c, calls) ==
    IF calls = 1 /\ Momentum[c] = 0 /\ Kind[c] = "dense" THEN CWeightDecay[c] ELSE 1

\* max_norm_penalty, applied by the dot product whose call swapped.
Clip(c, v) ==
    LET m == IF Kind[c] = "bias" THEN 0 ELSE MaxNorm[c] IN
    CASE m > 0 /\ v > m  -> m
      [] m > 0 /\ v < -m -> -m
      [] OTHER           -> v

\* What the step does to a matrix that starts with c, by the textbook.
RuleOf(c) ==
    [mom   |-> Momentum[c],
     decay |-> IF Momentum[c] = 0 /\ Kind[c] = "sparse" THEN 1 ELSE DecayOf(c)]

\* Mutant: endUpdate swaps at every call.
IsLastCallEager(n, calls) == calls <= numReferences[n]

\* endUpdate: the call that makes the counters equal.
IsLastCall(n, calls) == calls = numReferences[n]

DoUpdate(c) ==
    /\ NextToUpdate(c)
    /\ \E g \in Grads :
          LET n     == matrix[c]
              calls == updateWeightsCalls[n] + 1
              start == IF calls = 1 THEN StartedPrev(c, weights[n], prevWeights[n])
                                    ELSE prevWeights[n]
              sum   == Beta(c, calls) * start + g
              last  == IsLastCall(n, calls)
          IN /\ IF last
                THEN /\ weights' = [weights EXCEPT ![n] = Clip(c, sum)]
                     /\ prevWeights' = [prevWeights EXCEPT ![n] = weights[n]]
                     /\ updateWeightsCalls' = [updateWeightsCalls EXCEPT ![n] = 0]
                     /\ given' = [given EXCEPT ![n] = {}]
                     /\ acc' = [acc EXCEPT ![n] = 0]
                ELSE /\ prevWeights' = [prevWeights EXCEPT ![n] = sum]
                     /\ updateWeightsCalls' = [updateWeightsCalls EXCEPT ![n] = calls]
                     /\ given' = [given EXCEPT ![n] = @ \cup {c}]
                     /\ acc' = [acc EXCEPT ![n] = @ + g]
                     /\ UNCHANGED weights
             /\ base' = [base EXCEPT ![n] = IF calls = 1 THEN prevWeights[n] ELSE @]
             /\ rule' = [rule EXCEPT ![n] = IF calls = 1 THEN RuleOf(c) ELSE @]
    /\ todo' = todo \ {c}
    /\ phase' = IF todo = {c} THEN "none" ELSE phase
    /\ UNCHANGED <<numReferences, netVars, steps>>

(***************************************************************************)
(* Connections::loadWeights and randomizeWeights, called by scripts        *)
(* between traversals on the objects of a trainer's table.                 *)
(***************************************************************************)
LoadWeights(n, a, b) ==
    /\ phase = "none"
    /\ \E t \in built, x \in Names : weightsTable[t][x] = n
    /\ weights' = [weights EXCEPT ![n] = a]
    /\ prevWeights' = [prevWeights EXCEPT ![n] = b]
    /\ UNCHANGED <<numReferences, updateWeightsCalls, netVars, phase, todo,
                   steps, ghostVars>>

(***************************************************************************)
(* The Lua garbage collector takes a trainer, its components and its       *)
(* table.  The destructors of the leaves drop their pointers and leave     *)
(* num_references as it is.                                                *)
(***************************************************************************)
Drop(t) ==
    /\ phase = "none" /\ t \in built
    /\ matrix' = [c \in Comps |-> IF Owner[c] = t THEN Null ELSE matrix[c]]
    /\ weightsTable' = [weightsTable EXCEPT ![t] = EmptyTable]
    /\ built' = built \ {t}
    /\ UNCHANGED <<connVars, phase, todo, steps, ghostVars>>
-----------------------------------------------------------------------------
Next ==
    \/ \E t \in Trainers : Build(t) \/ TrainStep(t) \/ Drop(t)
    \/ \E t, u \in Trainers : Clone(t, u)
    \/ \E c \in Comps : \/ AttachFromTable(c) \/ KeepPrevious(c)
                        \/ AllocateWeights(c) \/ DoUpdate(c)
    \/ \E n \in Conns, a, b \in Vals : LoadWeights(n, a, b)

\* A Connections object belongs to the network of one trainer.
Spec == Init /\ [][Next]_vars

\* A trainer may also be built with the table of another one.
SharingNext == Next \/ \E t, u \in Trainers : BuildShared(t, u)
SharingSpec == Init /\ [][SharingNext]_vars
-----------------------------------------------------------------------------
TypeOK ==
    /\ weights \in [Conns -> Int]
    /\ prevWeights \in [Conns -> Int]
    /\ numReferences \in [Conns -> 0..Cardinality(Comps)]
    /\ updateWeightsCalls \in [Conns -> 0..Cardinality(Comps)]
    /\ matrix \in [Comps -> Conns \cup {Null}]
    /\ weightsTable \in [Trainers -> [Names -> Conns \cup {Null}]]
    /\ built \subseteq Trainers
    /\ phase \in {"none", "build", "update"}
    /\ todo \subseteq Comps
    /\ steps \in 0..MaxSteps
    /\ given \in [Conns -> SUBSET Comps]
    /\ acc \in [Conns -> Int]
    /\ base \in [Conns -> Int]
    /\ rule \in [Conns -> [mom : Nat, decay : Int]]

(***************************************************************************)
(* num_references counts the components that reference the object, as the  *)
(* comments in connection.h say: whenever no build is under way it is the  *)
(* number of leaves attached to the object.                                *)
(***************************************************************************)
ReferencesExact ==
    phase # "build" =>
        \A n \in Conns : Attached(n) # {} =>
            numReferences[n] = Cardinality(Attached(n))

(***************************************************************************)
(* A training step is complete when it returns: no Connections object is   *)
(* left with some of the gradients of a step in prev_weights and the       *)
(* weights not moved.                                                      *)
(***************************************************************************)
NothingPending ==
    phase = "none" => \A n \in Conns : updateWeightsCalls[n] = 0

(***************************************************************************)
(* Between the first doUpdate of a step and the swap, prev_weights holds   *)
(* exactly the momentum rule applied to the untouched weights, plus the    *)
(* gradients handed in so far: the work done in place in the buffer of the *)
(* old weights loses and repeats nothing.                                  *)
(***************************************************************************)
PartialStep ==
    \A n \in Conns : updateWeightsCalls[n] > 0 =>
        prevWeights[n] = rule[n].decay * weights[n]
                         + rule[n].mom * (weights[n] - base[n]) + acc[n]

(***************************************************************************)
(* The weights of a matrix do not move under a component that has not      *)
(* handed in its gradient: the gradient it will add was computed by        *)
(* forward and backprop with the weights it still finds there.             *)
(***************************************************************************)
NoMoveUnderUpdate ==
    [][phase = "update" =>
         \A n \in Conns : weights'[n] # weights[n] => Attached(n) \cap todo' = {}]_vars

(***************************************************************************)
(* Why the properties hold: the inductive invariant.  A Connections object *)
(* is used by one trainer; its references are counted as its leaves are    *)
(* visited; during an update it has the gradients of exactly the leaves    *)
(* already visited, or of none when all of them have been.                 *)
(***************************************************************************)
Separate == \A t, u \in Trainers : t # u => Uses(t) \cap Uses(u) = {}

Counted(n) == {c \in Attached(n) : phase = "update" \/ c \notin todo}

CountsExact ==
    \A t \in Trainers : \A n \in Uses(t) :
        numReferences[n] = Cardinality(Counted(n))

GivenExact ==
    \A n \in Conns :
        given[n] = IF phase = "update" /\ Attached(n) \cap todo # {}
                   THEN Attached(n) \ todo ELSE {}

CallsExact ==
    \A n \in Conns : /\ updateWeightsCalls[n] = Cardinality(given[n])
                     /\ given[n] = {} => acc[n] = 0

Traversal ==
    /\ phase = "none" <=> todo = {}
    /\ \A c, d \in todo : Owner[c] = Owner[d]
    /\ \A c \in Comps : Owner[c] \in built => matrix[c] # Null
    /\ phase = "build" =>
          \A c \in Comps \ todo, d \in todo : Owner[c] = Owner[d] => matrix[c] # Null
    /\ phase = "update" => \A c \in todo : Owner[c] \in built

IndInv ==
    /\ TypeOK
    /\ Separate
    /\ CountsExact
    /\ GivenExact
    /\ CallsExact
    /\ Traversal
    /\ PartialStep

(***************************************************************************)
(* The two buffers implement the step-at-a-time matrix of MomentumStep.    *)
(* The old weights are in prev_weights between steps only.                 *)
(***************************************************************************)
Abstract == INSTANCE MomentumStep WITH
    Rules   <- {NoRule} \cup {RuleOf(c) : c \in Comps},
    Caps    <- {0} \cup {MaxNorm[c] : c \in Comps},
    cur     <- weights,
    old     <- [n \in Conns |-> IF given[n] = {} THEN prevWeights[n] ELSE base[n]],
    members <- [n \in Conns |-> Attached(n)]

ImplementsMomentumStep == Abstract!Spec
=============================================================================
