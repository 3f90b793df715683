------------------------- MODULE SharedWeightsProof -------------------------
(***************************************************************************)
(* Proofs about SharedWeights, for every set of components, trainers,      *)
(* Connections, names and options.  IndInv is inductive; the invariants    *)
(* and the action property that TLC checks on small instances follow.      *)
(***************************************************************************)
EXTENDS SharedWeights, FiniteSetTheorems, TLAPS

\* Every set of components is finite and no larger than Comps.
LEMMA SubsetOfComps ==
    ASSUME NEW S \in SUBSET Comps
    PROVE  /\ IsFiniteSet(S)
           /\ Cardinality(S) \in 0..Cardinality(Comps)
BY CompsAssumption, FS_Subset, FS_CardinalityType

\* Counting one more component.
LEMMA OneMore ==
    ASSUME NEW S \in SUBSET Comps, NEW c \in Comps \ S
    PROVE  /\ Cardinality(S \cup {c}) = Cardinality(S) + 1
           /\ Cardinality(S) + 1 \in 0..Cardinality(Comps)
<1>1. Cardinality(S \cup {c}) = Cardinality(S) + 1
  BY SubsetOfComps, FS_AddElement
<1>2. Cardinality(S \cup {c}) \in 0..Cardinality(Comps)
  BY SubsetOfComps
<1>. QED  BY <1>1, <1>2

LEMMA EmptyCount == Cardinality({}) = 0 /\ Cardinality(Comps) \in Nat
BY FS_EmptySet, FS_CardinalityType, CompsAssumption

\* What a trainer uses are Connections.
LEMMA UsesType ==
    ASSUME TypeOK, NEW t \in Trainers
    PROVE  Uses(t) \subseteq Conns
BY DEF TypeOK, Uses, Leaves

\* A component attached to what a trainer uses belongs to the trainer.
LEMMA AttachedOwner ==
    ASSUME TypeOK, Separate, NEW t \in Trainers, NEW n \in Uses(t), NEW c \in Attached(n)
    PROVE  c \in Leaves(t)
<1>1. n # Null /\ c \in Comps /\ matrix[c] = n /\ Owner[c] \in Trainers
  BY CompsAssumption DEF Uses, Attached
<1>2. n \in Uses(Owner[c])
  BY <1>1 DEF Uses, Leaves
<1>. QED  BY <1>1, <1>2 DEF Separate, Leaves

\* Nobody is attached to a free object.
LEMMA FreeUnattached ==
    ASSUME TypeOK, NEW n \in Free
    PROVE  Attached(n) = {}
<1>1. SUFFICES ASSUME NEW c \in Comps, matrix[c] = n PROVE FALSE
  BY DEF Attached
<1>2. n # Null /\ Owner[c] \in Trainers
  BY CompsAssumption DEF Free
<1>. QED  BY <1>1, <1>2 DEF Free, Uses, Leaves

\* The initial state.
LEMMA InitInv == Init => IndInv
<1>. SUFFICES ASSUME Init PROVE IndInv
  OBVIOUS
<1>1. TypeOK
  <2>1. weights \in [Conns -> Int] /\ prevWeights \in [Conns -> Int]
        /\ base \in [Conns -> Int] /\ acc \in [Conns -> Int]
    <3>1. Vals \subseteq Int
      BY OptionsAssumption
    <3>2. weights \in [Conns -> Int]
      BY <3>1 DEF Init
    <3>3. prevWeights = weights /\ base = weights
      BY DEF Init
    <3>4. acc \in [Conns -> Int]
      BY DEF Init
    <3>. QED  BY <3>2, <3>3, <3>4
  <2>2. /\ numReferences \in [Conns -> 0..Cardinality(Comps)]
        /\ updateWeightsCalls \in [Conns -> 0..Cardinality(Comps)]
    BY EmptyCount DEF Init
  <2>3. rule \in [Conns -> [mom : Nat, decay : Int]]
    BY DEF Init, NoRule
  <2>4. steps \in 0..MaxSteps
    BY OptionsAssumption DEF Init
  <2>5. /\ matrix \in [Comps -> Conns \cup {Null}]
        /\ weightsTable \in [Trainers -> [Names -> Conns \cup {Null}]]
        /\ given \in [Conns -> SUBSET Comps]
    BY DEF Init, EmptyTable
  <2>. QED  BY <2>1, <2>2, <2>3, <2>4, <2>5 DEF Init, TypeOK
<1>2. \A t \in Trainers : Uses(t) = {}
  BY DEF Init, Uses, EmptyTable, Leaves
<1>3. Separate /\ CountsExact
  BY <1>2 DEF Separate, CountsExact
<1>4. GivenExact /\ CallsExact /\ Traversal /\ PartialStep
  BY EmptyCount, CompsAssumption DEF Init, GivenExact, CallsExact, Traversal, PartialStep
<1>. QED  BY <1>1, <1>3, <1>4 DEF IndInv

-----------------------------------------------------------------------------
\* Only one trainer's pointers change, and it takes nothing of another.
LEMMA SeparateStep ==
    ASSUME Separate, NEW t \in Trainers,
           \A u \in Trainers \ {t} : Uses(u)' = Uses(u),
           Uses(t)' \subseteq Uses(t) \cup Free
    PROVE  Separate'
BY DEF Separate, Free, Uses

\* The start of a build, whatever its table is made of, as long as it is the
\* trainer's own or new.
LEMMA BeginBuildInv ==
    ASSUME IndInv, NEW t \in Trainers, NEW table, NEW w, NEW p,
           table \in [Names -> Uses(t) \cup Free \cup {Null}],
           \A n \in New(table) : w[n] \in Int /\ p[n] \in Int,
           BeginBuild(t, table, w, p)
    PROVE  IndInv'
<1>. DEFINE zeroed == Held(t) \cup New(table)
<1>1. /\ TypeOK /\ Separate /\ CountsExact /\ GivenExact /\ CallsExact
      /\ Traversal /\ PartialStep
  BY DEF IndInv
<1>2. /\ phase = "none" /\ phase' = "build" /\ todo = {} /\ todo' = Leaves(t)
      /\ matrix' = matrix /\ built' = built /\ steps' = steps
      /\ given' = given /\ acc' = acc /\ base' = base /\ rule' = rule
      /\ weightsTable' = [weightsTable EXCEPT ![t] = table]
  BY <1>1 DEF BeginBuild, Traversal, ghostVars
<1>3. \A n \in Conns :
        /\ numReferences'[n] = IF n \in zeroed THEN 0 ELSE numReferences[n]
        /\ updateWeightsCalls'[n] = IF n \in zeroed THEN 0 ELSE updateWeightsCalls[n]
  BY DEF BeginBuild
<1>4. TypeOK'
  <2>1. /\ numReferences' \in [Conns -> 0..Cardinality(Comps)]
        /\ updateWeightsCalls' \in [Conns -> 0..Cardinality(Comps)]
    BY <1>1, EmptyCount DEF BeginBuild, TypeOK
  <2>2. weights' \in [Conns -> Int] /\ prevWeights' \in [Conns -> Int]
    BY <1>1 DEF BeginBuild, TypeOK
  <2>3. Uses(t) \cup Free \cup {Null} \subseteq Conns \cup {Null}
    BY <1>1, UsesType DEF Free
  <2>4. weightsTable' \in [Trainers -> [Names -> Conns \cup {Null}]]
    BY <1>1, <1>2, <2>3 DEF TypeOK
  <2>5. todo' \subseteq Comps
    BY <1>2 DEF Leaves
  <2>. QED  BY <1>1, <1>2, <2>1, <2>2, <2>4, <2>5 DEF TypeOK
<1>5. \A u \in Trainers \ {t} : Uses(u)' = Uses(u)
  BY <1>1, <1>2 DEF Uses, Leaves, TypeOK
<1>6. Uses(t)' \subseteq Uses(t) \cup Free
  BY <1>1, <1>2 DEF Uses, Leaves, TypeOK
<1>7. Separate'
  BY <1>1, <1>5, <1>6, SeparateStep
<1>8. \A n : Attached(n)' = Attached(n) /\ Counted(n) = Attached(n)
             /\ Counted(n)' = Attached(n) \ Leaves(t)
  BY <1>2 DEF Attached, Counted
<1>9. CountsExact'
  <2>. SUFFICES ASSUME NEW u \in Trainers, NEW n \in Uses(u)'
                PROVE  numReferences'[n] = Cardinality(Counted(n)')
    BY DEF CountsExact
  <2>0. n \in Conns
    BY <1>4, UsesType, <1>1, <1>5, <1>6 DEF Free
  <2>1. CASE u # t
    <3>1. n \in Uses(u) /\ n \notin Uses(t) /\ n \notin Free
      BY <2>1, <1>1, <1>5 DEF Separate, Free
    <3>2. n \notin zeroed
      BY <3>1 DEF Held, New, Uses
    <3>3. Attached(n) \subseteq Leaves(u)
      BY <3>1, <1>1, AttachedOwner
    <3>4. Attached(n) \ Leaves(t) = Attached(n)
      BY <3>3, <2>1 DEF Leaves
    <3>. QED  BY <3>1, <3>2, <3>4, <2>0, <1>1, <1>3, <1>8 DEF CountsExact
  <2>2. CASE u = t
    <3>1. CASE n \in Free
      <4>1. Attached(n) = {}
        BY <3>1, <1>1, FreeUnattached
      <4>2. n \in New(table)
        BY <3>1, <2>2, <1>2, <1>1, <2>0 DEF New, Uses, Free, Leaves, TypeOK
      <4>. QED  BY <4>1, <4>2, <2>0, <1>3, <1>8, EmptyCount
    <3>2. CASE n \in Uses(t)
      <4>1. Attached(n) \subseteq Leaves(t)
        BY <3>2, <1>1, AttachedOwner
      <4>2. Counted(n)' = {}
        BY <4>1, <1>8
      <4>3. CASE n \in zeroed
        BY <4>2, <4>3, <2>0, <1>3, EmptyCount
      <4>4. CASE n \notin zeroed
        <5>1. Attached(n) = {}
          BY <4>1, <4>4, <2>0, CompsAssumption DEF Held, Attached, Leaves
        <5>. QED  BY <5>1, <4>2, <4>4, <3>2, <2>0, <1>1, <1>3, <1>8 DEF CountsExact
      <4>. QED  BY <4>3, <4>4
    <3>. QED  BY <3>1, <3>2, <2>2, <1>6
  <2>. QED  BY <2>1, <2>2
<1>10. GivenExact' /\ (\A n \in Conns : given[n] = {})
  BY <1>1, <1>2 DEF GivenExact
<1>11. CallsExact'
  BY <1>1, <1>2, <1>3, <1>10, EmptyCount DEF CallsExact
<1>12. Traversal'
  <2>1. Leaves(t) # {} /\ \A c \in Leaves(t) : Owner[c] = t
    BY CompsAssumption DEF Leaves
  <2>. QED  BY <1>1, <1>2, <2>1 DEF Traversal, Leaves
<1>13. PartialStep'
  <2>1. \A n \in Conns : updateWeightsCalls'[n] = 0
    BY <1>2, <1>10, <1>11, EmptyCount DEF CallsExact
  <2>. QED  BY <2>1 DEF PartialStep
<1>. QED  BY <1>4, <1>7, <1>9, <1>10, <1>11, <1>12, <1>13 DEF IndInv

\* build with a table of the script's.
LEMMA BuildInv ==
    ASSUME IndInv, NEW t \in Trainers, Build(t)
    PROVE  IndInv'
<1>1. PICK table \in [Names -> Uses(t) \cup Free \cup {Null}], a \in Vals, b \in Vals :
        BeginBuild(t, table, [n \in Conns |-> a], [n \in Conns |-> b])
  BY DEF Build
<1>2. a \in Int /\ b \in Int
  BY OptionsAssumption
<1>3. New(table) \subseteq Conns
  BY DEF New, Free
<1>. QED  BY <1>1, <1>2, <1>3, BeginBuildInv

\* The build of a clone with copies of the original's Connections.
LEMMA CloneInv ==
    ASSUME IndInv, NEW t \in Trainers, NEW u \in Trainers, Clone(t, u)
    PROVE  IndInv'
<1>1. PICK copy \in [Names -> Free \cup {Null}] :
        /\ \A x \in Names : copy[x] = Null <=> weightsTable[t][x] = Null
        /\ LET src == [n \in Conns |-> weightsTable[t]
                          [CHOOSE x \in Names : n \in New(copy) => copy[x] = n]]
           IN BeginBuild(u, copy, [n \in New(copy) |-> weights[src[n]]],
                                  [n \in New(copy) |-> prevWeights[src[n]]])
  BY DEF Clone
<1>. DEFINE pick(n) == CHOOSE x \in Names : n \in New(copy) => copy[x] = n
            src == [n \in Conns |-> weightsTable[t][pick(n)]]
<1>2. ASSUME NEW n \in New(copy)
      PROVE  src[n] \in Conns
  <2>1. n \in Conns /\ n # Null /\ \E x \in Names : copy[x] = n
    BY CompsAssumption DEF New, Free
  <2>2. pick(n) \in Names /\ copy[pick(n)] = n
    BY <2>1
  <2>3. weightsTable[t][pick(n)] \in Conns
    BY <1>1, <2>1, <2>2 DEF IndInv, TypeOK
  <2>. QED  BY <2>1, <2>3
<1>3. \A n \in New(copy) : weights[src[n]] \in Int /\ prevWeights[src[n]] \in Int
  BY <1>2 DEF IndInv, TypeOK
<1>4. copy \in [Names -> Uses(u) \cup Free \cup {Null}]
  OBVIOUS
<1>5. BeginBuild(u, copy, [n \in New(copy) |-> weights[src[n]]],
                          [n \in New(copy) |-> prevWeights[src[n]]])
  BY <1>1
<1>. HIDE DEF src
<1>. QED  BY <1>3, <1>4, <1>5, BeginBuildInv

\* What is common to the three ways in which a leaf gets its Connections n.
LEMMA LeafBuilt ==
    ASSUME IndInv, NEW c \in Comps, NEW n \in Conns,
           NextToBuild(c), EndOfBuild(c),
           matrix' = [matrix EXCEPT ![c] = n],
           \/ n \in Uses(Owner[c]) /\ numReferences' = [numReferences EXCEPT ![n] = @ + 1]
           \/ n \in Free /\ numReferences' = [numReferences EXCEPT ![n] = 1],
           \/ weightsTable' = weightsTable
           \/ weightsTable' = [weightsTable EXCEPT ![Owner[c]][WeightsName[c]] = n],
           \A m \in Conns : updateWeightsCalls[m] = 0 => updateWeightsCalls'[m] = 0,
           updateWeightsCalls' \in [Conns -> 0..Cardinality(Comps)],
           weights' \in [Conns -> Int], prevWeights' \in [Conns -> Int],
           UNCHANGED <<steps, ghostVars>>
    PROVE  IndInv'
<1>1. /\ TypeOK /\ Separate /\ CountsExact /\ GivenExact /\ CallsExact
      /\ Traversal /\ PartialStep
  BY DEF IndInv
<1>2. /\ phase = "build" /\ c \in todo /\ todo' = todo \ {c} /\ todo \subseteq Comps
      /\ steps' = steps /\ given' = given /\ acc' = acc /\ base' = base /\ rule' = rule
      /\ Owner[c] \in Trainers /\ WeightsName[c] \in Names /\ n # Null
  BY <1>1, CompsAssumption DEF NextToBuild, EndOfBuild, ghostVars, TypeOK
<1>3. /\ phase' = IF todo' = {} THEN "none" ELSE "build"
      /\ built' = IF todo' = {} THEN built \cup {Owner[c]} ELSE built
  BY <1>2 DEF EndOfBuild
<1>4. \A m : Counted(m) = Attached(m) \ todo /\ Counted(m)' = Attached(m)' \ todo'
  BY <1>2, <1>3 DEF Counted
<1>5. \A m : Counted(m)' = IF m = n THEN Counted(m) \cup {c} ELSE Counted(m)
  <2>1. \A d \in Comps : matrix'[d] = IF d = c THEN n ELSE matrix[d]
    BY <1>1 DEF TypeOK
  <2>2. \A m : /\ Counted(m) = {d \in Comps : matrix[d] = m /\ d \notin todo}
               /\ Counted(m)' = {d \in Comps : matrix'[d] = m /\ (d \notin todo \/ d = c)}
    BY <1>2, <1>4 DEF Attached
  <2>. QED  BY <1>2, <2>1, <2>2
<1>6. c \notin Counted(n) /\ Counted(n) \subseteq Comps
  BY <1>2, <1>4 DEF Attached
<1>7. n \in Free => Counted(n) = {}
  BY <1>1, <1>4, FreeUnattached
<1>8. numReferences'[n] = Cardinality(Counted(n)')
  <2>1. CASE n \in Uses(Owner[c])
    <3>1. n \notin Free
      BY <2>1, <1>2 DEF Free
    <3>. QED  BY <2>1, <3>1, <1>1, <1>2, <1>5, <1>6, OneMore DEF CountsExact, TypeOK
  <2>2. CASE n \in Free
    <3>1. n \notin Uses(Owner[c])
      BY <2>2, <1>2 DEF Free
    <3>2. numReferences'[n] = 1
      BY <3>1, <1>1 DEF TypeOK
    <3>3. Cardinality(Counted(n) \cup {c}) = 0 + 1
      BY <2>2, <1>6, <1>7, OneMore, EmptyCount
    <3>4. Counted(n)' = Counted(n) \cup {c}
      BY <1>5
    <3>5. Cardinality(Counted(n)') = 1
      BY <3>3, <3>4
    <3>. QED  BY <3>2, <3>5
  <2>. QED  BY <2>1, <2>2
<1>9. \A m \in Conns \ {n} : numReferences'[m] = numReferences[m]
  BY <1>1 DEF TypeOK
<1>10. TypeOK'
  <2>1. matrix' \in [Comps -> Conns \cup {Null}]
    BY <1>1 DEF TypeOK
  <2>2. weightsTable' \in [Trainers -> [Names -> Conns \cup {Null}]]
    <3>1. CASE weightsTable' = weightsTable
      BY <3>1, <1>1 DEF TypeOK
    <3>2. CASE weightsTable' = [weightsTable EXCEPT ![Owner[c]][WeightsName[c]] = n]
      <4>1. [weightsTable[Owner[c]] EXCEPT ![WeightsName[c]] = n]
               \in [Names -> Conns \cup {Null}]
        BY <1>1, <1>2 DEF TypeOK
      <4>. QED  BY <3>2, <4>1, <1>1, <1>2 DEF TypeOK
    <3>. QED  BY <3>1, <3>2
  <2>3. numReferences'[n] \in 0..Cardinality(Comps)
    BY <1>5, <1>6, <1>8, SubsetOfComps
  <2>4. numReferences' \in [Conns -> 0..Cardinality(Comps)]
    BY <1>1, <1>9, <2>3 DEF TypeOK
  <2>5. built' \subseteq Trainers /\ phase' \in {"none", "build", "update"}
    BY <1>1, <1>2, <1>3 DEF TypeOK
  <2>. QED  BY <1>1, <1>2, <2>1, <2>2, <2>4, <2>5 DEF TypeOK
<1>11. \A u \in Trainers \ {Owner[c]} : Uses(u)' = Uses(u)
  BY <1>1, <1>2 DEF Uses, Leaves, TypeOK
<1>12. Uses(Owner[c])' \subseteq Uses(Owner[c]) \cup {n}
  BY <1>1, <1>2 DEF Uses, Leaves, TypeOK
<1>13. n \in Uses(Owner[c]) \cup Free
  OBVIOUS
<1>14. Separate'
  BY <1>1, <1>2, <1>11, <1>12, <1>13, SeparateStep
<1>15. CountsExact'
  <2>. SUFFICES ASSUME NEW u \in Trainers, NEW m \in Uses(u)'
                PROVE  numReferences'[m] = Cardinality(Counted(m)')
    BY DEF CountsExact
  <2>1. CASE m = n
    BY <2>1, <1>8
  <2>2. CASE m # n
    <3>1. m \in Uses(u) /\ m \in Conns
      BY <2>2, <1>1, <1>11, <1>12, UsesType
    <3>. QED  BY <2>2, <3>1, <1>1, <1>5, <1>9 DEF CountsExact
  <2>. QED  BY <2>1, <2>2
<1>16. GivenExact' /\ \A m \in Conns : given[m] = {}
  BY <1>1, <1>2, <1>3 DEF GivenExact
<1>17. \A m \in Conns : updateWeightsCalls'[m] = 0 /\ acc[m] = 0
  BY <1>1, <1>16, EmptyCount DEF CallsExact
<1>18. CallsExact' /\ PartialStep'
  <2>1. \A m \in Conns : /\ updateWeightsCalls'[m] = 0
                         /\ acc'[m] = 0 /\ given'[m] = {}
    BY <1>2, <1>16, <1>17
  <2>2. CallsExact'
    BY <2>1, EmptyCount DEF CallsExact
  <2>3. PartialStep'
    BY <2>1 DEF PartialStep
  <2>. QED  BY <2>2, <2>3
<1>19. Traversal'
  <2>1. \A d \in Comps : d # c => matrix'[d] = matrix[d]
    BY <1>1 DEF TypeOK
  <2>2. matrix'[c] # Null
    BY <1>1, <1>2 DEF TypeOK
  <2>3. \A d \in Comps : Owner[d] \in built' => matrix'[d] # Null
    BY <1>1, <1>2, <1>3, <2>1, <2>2 DEF Traversal
  <2>4. \A d \in Comps \ todo', e \in todo' : Owner[d] = Owner[e] => matrix'[d] # Null
    BY <1>1, <1>2, <2>1, <2>2 DEF Traversal
  <2>. QED  BY <1>1, <1>2, <1>3, <2>3, <2>4 DEF Traversal
<1>. QED  BY <1>10, <1>14, <1>15, <1>16, <1>18, <1>19 DEF IndInv

LEMMA AttachFromTableInv ==
    ASSUME IndInv, NEW c \in Comps, AttachFromTable(c)
    PROVE  IndInv'
<1>. DEFINE n == weightsTable[Owner[c]][WeightsName[c]]
<1>1. /\ NextToBuild(c) /\ EndOfBuild(c)
      /\ matrix' = [matrix EXCEPT ![c] = n]
      /\ numReferences' = [numReferences EXCEPT ![n] = @ + 1]
      /\ UNCHANGED <<weights, prevWeights, updateWeightsCalls, weightsTable, steps, ghostVars>>
  BY DEF AttachFromTable
<1>2. n \in Uses(Owner[c]) /\ n \in Conns
  <2>1. Owner[c] \in Trainers /\ WeightsName[c] \in Names /\ n # Null
    BY CompsAssumption DEF AttachFromTable
  <2>2. n \in Conns \cup {Null}
    BY <2>1 DEF IndInv, TypeOK
  <2>. QED  BY <2>1, <2>2 DEF Uses
<1>. HIDE DEF n
<1>. QED  BY <1>1, <1>2, LeafBuilt DEF IndInv, TypeOK

LEMMA KeepPreviousInv ==
    ASSUME IndInv, NEW c \in Comps, KeepPrevious(c)
    PROVE  IndInv'
<1>. DEFINE n == matrix[c]
<1>1. /\ NextToBuild(c) /\ EndOfBuild(c)
      /\ weightsTable' = [weightsTable EXCEPT ![Owner[c]][WeightsName[c]] = n]
      /\ numReferences' = [numReferences EXCEPT ![n] = @ + 1]
      /\ UNCHANGED <<weights, prevWeights, updateWeightsCalls, matrix, steps, ghostVars>>
  BY DEF KeepPrevious
<1>2. n \in Uses(Owner[c]) /\ n \in Conns
  BY CompsAssumption DEF KeepPrevious, Uses, Leaves, IndInv, TypeOK
<1>3. matrix' = [matrix EXCEPT ![c] = n]
  BY <1>1 DEF IndInv, TypeOK
<1>. HIDE DEF n
<1>. QED  BY <1>1, <1>2, <1>3, LeafBuilt DEF IndInv, TypeOK

LEMMA AllocateWeightsInv ==
    ASSUME IndInv, NEW c \in Comps, AllocateWeights(c)
    PROVE  IndInv'
<1>1. PICK n \in Free, a \in Vals, b \in Vals :
        /\ weights' = [weights EXCEPT ![n] = a]
        /\ prevWeights' = [prevWeights EXCEPT ![n] = b]
        /\ numReferences' = [numReferences EXCEPT ![n] = 1]
        /\ updateWeightsCalls' = [updateWeightsCalls EXCEPT ![n] = 0]
        /\ matrix' = [matrix EXCEPT ![c] = n]
        /\ weightsTable' = [weightsTable EXCEPT ![Owner[c]][WeightsName[c]] = n]
  BY DEF AllocateWeights
<1>2. NextToBuild(c) /\ EndOfBuild(c) /\ UNCHANGED <<steps, ghostVars>>
  BY DEF AllocateWeights
<1>3. n \in Conns /\ a \in Int /\ b \in Int
  BY OptionsAssumption DEF Free
<1>4. weights' \in [Conns -> Int] /\ prevWeights' \in [Conns -> Int]
  BY <1>1, <1>3 DEF IndInv, TypeOK
<1>5. /\ updateWeightsCalls' \in [Conns -> 0..Cardinality(Comps)]
      /\ \A m \in Conns : updateWeightsCalls[m] = 0 => updateWeightsCalls'[m] = 0
  BY <1>1, <1>3, EmptyCount DEF IndInv, TypeOK
<1>. QED  BY <1>1, <1>2, <1>3, <1>4, <1>5, LeafBuilt

\* A training step begins: nothing is pending and the network is one trainer's.
LEMMA TrainStepInv ==
    ASSUME IndInv, NEW t \in Trainers, TrainStep(t)
    PROVE  IndInv'
<1>1. /\ TypeOK /\ Separate /\ CountsExact /\ GivenExact /\ CallsExact
      /\ Traversal /\ PartialStep
  BY DEF IndInv
<1>2. /\ phase = "none" /\ phase' = "update" /\ todo = {} /\ todo' = Leaves(t)
      /\ t \in built /\ steps' = steps + 1 /\ steps < MaxSteps
      /\ UNCHANGED <<connVars, netVars, ghostVars>>
  BY <1>1 DEF TrainStep, Traversal
<1>3. /\ weights' = weights /\ prevWeights' = prevWeights
      /\ numReferences' = numReferences /\ updateWeightsCalls' = updateWeightsCalls
      /\ matrix' = matrix /\ weightsTable' = weightsTable /\ built' = built
      /\ given' = given /\ acc' = acc /\ base' = base /\ rule' = rule
  BY <1>2 DEF connVars, netVars, ghostVars
<1>4. Leaves(t) # {} /\ Leaves(t) \subseteq Comps /\ \A c \in Leaves(t) : Owner[c] = t
  BY CompsAssumption DEF Leaves
<1>5. TypeOK'
  <2>1. steps' \in 0..MaxSteps
    BY <1>1, <1>2, OptionsAssumption DEF TypeOK
  <2>. QED  BY <1>1, <1>2, <1>3, <1>4, <2>1 DEF TypeOK
<1>6. \A u : Uses(u)' = Uses(u)
  BY <1>3 DEF Uses
<1>7. Separate'
  BY <1>1, <1>6 DEF Separate
<1>8. \A n : Attached(n)' = Attached(n) /\ Counted(n)' = Counted(n)
  BY <1>2, <1>3 DEF Attached, Counted
<1>9. CountsExact'
  BY <1>1, <1>3, <1>6, <1>8 DEF CountsExact
<1>10. \A n \in Conns : given[n] = {}
  BY <1>1, <1>2 DEF GivenExact
<1>11. ASSUME NEW n \in Conns, Attached(n) \cap todo' # {}
       PROVE  Attached(n) \ todo' = {}
  <2>1. n \in Uses(t)
    BY <1>2, <1>11, CompsAssumption DEF Attached, Uses
  <2>. QED  BY <1>1, <1>2, <2>1, AttachedOwner
<1>12. GivenExact'
  BY <1>2, <1>3, <1>8, <1>10, <1>11 DEF GivenExact
<1>13. CallsExact' /\ PartialStep'
  BY <1>1, <1>3 DEF CallsExact, PartialStep
<1>14. Traversal'
  BY <1>1, <1>2, <1>3, <1>4 DEF Traversal
<1>. QED  BY <1>5, <1>7, <1>9, <1>12, <1>13, <1>14 DEF IndInv

\* The swap happens at the call of the last leaf attached to the object.
LEMMA LastCall ==
    ASSUME IndInv, NEW c \in Comps, NextToUpdate(c)
    PROVE  /\ matrix[c] \in Conns
           /\ c \in todo /\ c \notin given[matrix[c]]
           /\ given[matrix[c]] = Attached(matrix[c]) \ todo
           /\ updateWeightsCalls[matrix[c]] + 1 = numReferences[matrix[c]]
                 <=> Attached(matrix[c]) \cap (todo \ {c}) = {}
<1>. DEFINE n == matrix[c]
            S == Attached(n) \ todo
<1>1. phase = "update" /\ c \in todo /\ Owner[c] \in built /\ Owner[c] \in Trainers
  BY CompsAssumption DEF NextToUpdate, IndInv, Traversal
<1>2. n \in Conns /\ n \in Uses(Owner[c]) /\ c \in Attached(n)
  BY <1>1 DEF IndInv, TypeOK, Traversal, Uses, Leaves, Attached
<1>3. given[n] = S
  BY <1>1, <1>2 DEF IndInv, GivenExact
<1>4. numReferences[n] = Cardinality(Attached(n))
  <2>1. Counted(n) = Attached(n)
    BY <1>1 DEF Counted, Attached
  <2>. QED  BY <1>1, <1>2, <2>1 DEF IndInv, CountsExact
<1>5. updateWeightsCalls[n] = Cardinality(S)
  BY <1>2, <1>3 DEF IndInv, CallsExact
<1>6. S \in SUBSET Comps /\ c \in Comps \ S /\ Attached(n) \in SUBSET Comps
  BY <1>1 DEF Attached
<1>7. S \cup {c} \in SUBSET Attached(n)
  BY <1>2
<1>8. Cardinality(S \cup {c}) = Cardinality(S) + 1
  BY <1>6, OneMore
<1>9. Cardinality(S \cup {c}) = Cardinality(Attached(n)) <=> S \cup {c} = Attached(n)
  BY <1>6, <1>7, SubsetOfComps, FS_Subset
<1>10. S \cup {c} = Attached(n) <=> Attached(n) \cap (todo \ {c}) = {}
  BY <1>1, <1>2
<1>. QED  BY <1>1, <1>2, <1>3, <1>4, <1>5, <1>8, <1>9, <1>10

\* The rule of a component.
LEMMA RuleType ==
    ASSUME NEW c \in Comps
    PROVE  /\ RuleOf(c) \in [mom : Nat, decay : Int]
           /\ RuleOf(c).mom = Momentum[c]
           /\ RuleOf(c).decay =
                IF Momentum[c] = 0 /\ Kind[c] = "sparse" THEN 1 ELSE DecayOf(c)
           /\ DecayOf(c) \in Int
BY OptionsAssumption DEF RuleOf, DecayOf

\* computeMomentumOnPrevVector subtracts first and scales by the opposite of
\* the momentum afterwards: the term that the first call of a step leaves in
\* prev_weights, before its gradient, is the momentum rule's, for every kind
\* of component.
LEMMA FirstTerm ==
    ASSUME NEW c \in Comps, NEW w \in Int, NEW p \in Int
    PROVE  /\ Beta(c, 1) * StartedPrev(c, w, p)
                = RuleOf(c).decay * w + RuleOf(c).mom * (w - p)
           /\ RuleOf(c).decay * w + RuleOf(c).mom * (w - p) \in Int
<1>. DEFINE m == RuleOf(c).mom
            d == RuleOf(c).decay
<1>1. m \in Nat /\ d \in Int /\ m = Momentum[c]
  BY RuleType
<1>2. d * w \in Int /\ m * (w - p) \in Int
  BY <1>1
<1>3. CASE Momentum[c] > 0
  <2>1. Beta(c, 1) = 1
    BY <1>1, <1>3 DEF Beta
  <2>2. d = DecayOf(c)
    BY <1>1, <1>3, RuleType
  <2>3. StartedPrev(c, w, p) = (-m) * (p - w) + d * w
    BY <1>1, <1>3, <2>2 DEF StartedPrev
  <2>. HIDE DEF m, d
  <2>4. (-m) * (p - w) = m * (w - p)
    BY <1>1
  <2>5. StartedPrev(c, w, p) = d * w + m * (w - p)
    BY <1>2, <2>3, <2>4
  <2>. DEFINE X == d * w + m * (w - p)
  <2>6. X \in Int /\ StartedPrev(c, w, p) = X
    BY <1>2, <2>5
  <2>. HIDE DEF X
  <2>7. Beta(c, 1) * StartedPrev(c, w, p) = X
    BY <2>1, <2>6
  <2>. QED  BY <2>6, <2>7 DEF X, m, d
<1>4. CASE Momentum[c] = 0
  <2>1. StartedPrev(c, w, p) = w
    BY <1>4 DEF StartedPrev
  <2>2. Beta(c, 1) = d
    BY <1>4, RuleType, OptionsAssumption DEF Beta, DecayOf
  <2>3. m * (w - p) = 0
    BY <1>1, <1>4
  <2>. HIDE DEF m, d
  <2>4. d * w + m * (w - p) = d * w
    BY <1>2, <2>3
  <2>. QED  BY <1>2, <2>1, <2>2, <2>4 DEF m, d
<1>. QED  BY <1>1, <1>3, <1>4

\* What doUpdate leaves in the buffer it works in, and what becomes of the
\* object whether its call is the last of the step or not.
UpdateEffect(c, n, g, sum, r, b) ==
    /\ sum = r.decay * weights[n] + r.mom * (weights[n] - b) + (acc[n] + g)
    /\ r = IF given[n] = {} THEN RuleOf(c) ELSE rule[n]
    /\ b = IF given[n] = {} THEN prevWeights[n] ELSE base[n]
    /\ base' = [base EXCEPT ![n] = b]
    /\ rule' = [rule EXCEPT ![n] = r]
    /\ IF updateWeightsCalls[n] + 1 = numReferences[n]
       THEN /\ weights' = [weights EXCEPT ![n] = Clip(c, sum)]
            /\ prevWeights' = [prevWeights EXCEPT ![n] = weights[n]]
            /\ updateWeightsCalls' = [updateWeightsCalls EXCEPT ![n] = 0]
            /\ given' = [given EXCEPT ![n] = {}]
            /\ acc' = [acc EXCEPT ![n] = 0]
       ELSE /\ weights' = weights
            /\ prevWeights' = [prevWeights EXCEPT ![n] = sum]
            /\ updateWeightsCalls' =
                  [updateWeightsCalls EXCEPT ![n] = updateWeightsCalls[n] + 1]
            /\ given' = [given EXCEPT ![n] = given[n] \cup {c}]
            /\ acc' = [acc EXCEPT ![n] = acc[n] + g]

LEMMA DoUpdateEffect ==
    ASSUME IndInv, NEW c \in Comps, DoUpdate(c),
           NEW n, n = matrix[c]
    PROVE  \E g \in Grads, sum \in Int, r \in [mom : Nat, decay : Int], b \in Int :
               UpdateEffect(c, n, g, sum, r, b)
<1>1. NextToUpdate(c) /\ n \in Conns
  BY LastCall DEF DoUpdate
<1>2. /\ weights[n] \in Int /\ prevWeights[n] \in Int /\ acc[n] \in Int /\ base[n] \in Int
      /\ rule[n] \in [mom : Nat, decay : Int] /\ updateWeightsCalls[n] \in Nat
      /\ given[n] \in SUBSET Comps
  BY <1>1, EmptyCount DEF IndInv, TypeOK
<1>3. updateWeightsCalls[n] = 0 <=> given[n] = {}
  <2>1. updateWeightsCalls[n] = Cardinality(given[n])
    BY <1>1 DEF IndInv, CallsExact
  <2>. QED  BY <1>2, <2>1, SubsetOfComps, FS_EmptySet
<1>4. updateWeightsCalls[n] + 1 = 1 <=> given[n] = {}
  BY <1>2, <1>3
<1>. DEFINE calls == updateWeightsCalls[n] + 1
            start == IF calls = 1 THEN StartedPrev(c, weights[n], prevWeights[n])
                                  ELSE prevWeights[n]
            prod  == Beta(c, calls) * start
            r     == IF calls = 1 THEN RuleOf(c) ELSE rule[n]
            b     == IF calls = 1 THEN prevWeights[n] ELSE base[n]
<1>5. PICK g \in Grads :
        /\ IF calls = numReferences[n]
           THEN /\ weights' = [weights EXCEPT ![n] = Clip(c, prod + g)]
                /\ prevWeights' = [prevWeights EXCEPT ![n] = weights[n]]
                /\ updateWeightsCalls' = [updateWeightsCalls EXCEPT ![n] = 0]
                /\ given' = [given EXCEPT ![n] = {}]
                /\ acc' = [acc EXCEPT ![n] = 0]
           ELSE /\ prevWeights' = [prevWeights EXCEPT ![n] = prod + g]
                /\ updateWeightsCalls' = [updateWeightsCalls EXCEPT ![n] = calls]
                /\ given' = [given EXCEPT ![n] = given[n] \cup {c}]
                /\ acc' = [acc EXCEPT ![n] = acc[n] + g]
                /\ weights' = weights
        /\ base' = [base EXCEPT ![n] = b]
        /\ rule' = [rule EXCEPT ![n] = r]
  BY DEF DoUpdate, IsLastCall
<1>6. r \in [mom : Nat, decay : Int] /\ b \in Int /\ g \in Int
  BY <1>2, RuleType, OptionsAssumption
<1>7. /\ prod = r.decay * weights[n] + r.mom * (weights[n] - b) + acc[n]
      /\ prod \in Int
  <2>1. CASE given[n] = {}
    <3>1. calls = 1 /\ acc[n] = 0
      BY <1>1, <1>4, <2>1 DEF IndInv, CallsExact
    <3>2. prod = Beta(c, 1) * StartedPrev(c, weights[n], prevWeights[n])
          /\ r = RuleOf(c) /\ b = prevWeights[n]
      BY <3>1
    <3>. HIDE DEF prod, r, b
    <3>3. /\ prod = r.decay * weights[n] + r.mom * (weights[n] - b)
          /\ prod \in Int
      BY <1>2, <3>2, FirstTerm
    <3>. QED  BY <3>1, <3>3
  <2>2. CASE given[n] # {}
    <3>1. calls # 1 /\ updateWeightsCalls[n] > 0
      BY <1>2, <1>3, <1>4, <2>2
    <3>2. Beta(c, calls) = 1 /\ start = prevWeights[n] /\ r = rule[n] /\ b = base[n]
      BY <3>1 DEF Beta
    <3>3. prod = prevWeights[n]
      BY <1>2, <3>2
    <3>4. prevWeights[n] = rule[n].decay * weights[n] + rule[n].mom * (weights[n] - base[n])
                           + acc[n]
      BY <1>1, <3>1 DEF IndInv, PartialStep
    <3>. HIDE DEF prod, r, b
    <3>. QED  BY <1>2, <3>2, <3>3, <3>4
  <2>. QED  BY <2>1, <2>2
<1>8. r.decay * weights[n] + r.mom * (weights[n] - b) \in Int
  <2>1. r.decay \in Int /\ r.mom \in Int
    BY <1>6
  <2>. HIDE DEF r, b
  <2>. QED  BY <1>2, <1>6, <2>1
<1>9. r = (IF given[n] = {} THEN RuleOf(c) ELSE rule[n])
      /\ b = (IF given[n] = {} THEN prevWeights[n] ELSE base[n])
  BY <1>4
<1>. HIDE DEF prod, r, b
<1>10. /\ prod + g = r.decay * weights[n] + r.mom * (weights[n] - b) + (acc[n] + g)
       /\ prod + g \in Int
  <2>. DEFINE X == r.decay * weights[n] + r.mom * (weights[n] - b)
  <2>1. X \in Int /\ prod = X + acc[n] /\ prod \in Int
    BY <1>7, <1>8
  <2>. HIDE DEF X
  <2>2. prod + g = X + (acc[n] + g) /\ prod + g \in Int
    BY <2>1, <1>2, <1>6
  <2>. QED  BY <2>2 DEF X
<1>11. UpdateEffect(c, n, g, prod + g, r, b)
  BY <1>5, <1>9, <1>10 DEF UpdateEffect
<1>. QED  BY <1>6, <1>10, <1>11

\* The maximum norm keeps an integer an integer.
LEMMA ClipType ==
    ASSUME NEW c \in Comps, NEW v \in Int
    PROVE  Clip(c, v) \in Int
BY OptionsAssumption DEF Clip

LEMMA DoUpdateInv ==
    ASSUME IndInv, NEW c \in Comps, DoUpdate(c)
    PROVE  IndInv'
<1>. DEFINE n == matrix[c]
<1>1. /\ TypeOK /\ Separate /\ CountsExact /\ GivenExact /\ CallsExact
      /\ Traversal /\ PartialStep
  BY DEF IndInv
<1>2. /\ phase = "update" /\ c \in todo /\ todo' = todo \ {c} /\ todo \subseteq Comps
      /\ phase' = (IF todo' = {} THEN "none" ELSE "update")
      /\ numReferences' = numReferences /\ steps' = steps
      /\ matrix' = matrix /\ weightsTable' = weightsTable /\ built' = built
  BY <1>1 DEF DoUpdate, NextToUpdate, netVars, TypeOK
<1>3. /\ n \in Conns /\ c \notin given[n] /\ given[n] = Attached(n) \ todo
      /\ c \in Attached(n)
      /\ updateWeightsCalls[n] + 1 = numReferences[n] <=> Attached(n) \cap (todo \ {c}) = {}
  BY LastCall DEF DoUpdate, Attached
<1>4. PICK g \in Grads, sum \in Int, r \in [mom : Nat, decay : Int], b \in Int :
        UpdateEffect(c, n, g, sum, r, b)
  BY DoUpdateEffect
<1>5. g \in Int /\ acc[n] \in Int /\ acc[n] + g \in Int /\ weights[n] \in Int
      /\ given[n] \in SUBSET Comps /\ updateWeightsCalls[n] = Cardinality(given[n])
  <2>1. g \in Int
    BY OptionsAssumption
  <2>2. acc[n] \in Int /\ weights[n] \in Int /\ given[n] \in SUBSET Comps
    BY <1>1, <1>3 DEF TypeOK
  <2>3. updateWeightsCalls[n] = Cardinality(given[n])
    BY <1>1, <1>3 DEF CallsExact
  <2>. QED  BY <2>1, <2>2, <2>3
<1>6. \A m \in Conns \ {n} :
        /\ weights'[m] = weights[m] /\ prevWeights'[m] = prevWeights[m]
        /\ updateWeightsCalls'[m] = updateWeightsCalls[m]
        /\ given'[m] = given[m] /\ acc'[m] = acc[m]
        /\ base'[m] = base[m] /\ rule'[m] = rule[m]
  BY <1>1, <1>3, <1>4 DEF UpdateEffect, TypeOK
<1>. DEFINE last == updateWeightsCalls[n] + 1 = numReferences[n]
<1>7. /\ base'[n] = b /\ rule'[n] = r
      /\ last => /\ updateWeightsCalls'[n] = 0 /\ given'[n] = {} /\ acc'[n] = 0
      /\ ~last => /\ updateWeightsCalls'[n] = updateWeightsCalls[n] + 1
                  /\ given'[n] = given[n] \cup {c} /\ acc'[n] = acc[n] + g
                  /\ prevWeights'[n] = sum /\ weights'[n] = weights[n]
  BY <1>1, <1>3, <1>4 DEF UpdateEffect, TypeOK
<1>8. Cardinality(given[n] \cup {c}) = updateWeightsCalls[n] + 1
      /\ updateWeightsCalls[n] + 1 \in 0..Cardinality(Comps)
  BY <1>3, <1>5, OneMore
<1>9. TypeOK'
  <2>1. weights' \in [Conns -> Int] /\ prevWeights' \in [Conns -> Int]
    BY <1>1, <1>3, <1>4, <1>5, ClipType DEF UpdateEffect, TypeOK
  <2>2. updateWeightsCalls' \in [Conns -> 0..Cardinality(Comps)]
    <3>1. 0 \in 0..Cardinality(Comps)
      BY EmptyCount
    <3>2. PICK v \in 0..Cardinality(Comps) :
            updateWeightsCalls' = [updateWeightsCalls EXCEPT ![n] = v]
      BY <1>4, <1>8, <3>1 DEF UpdateEffect
    <3>. QED  BY <1>1, <1>3, <3>2 DEF TypeOK
  <2>3. given' \in [Conns -> SUBSET Comps] /\ acc' \in [Conns -> Int]
    BY <1>1, <1>3, <1>4, <1>5 DEF UpdateEffect, TypeOK
  <2>4. base' \in [Conns -> Int] /\ rule' \in [Conns -> [mom : Nat, decay : Int]]
    BY <1>1, <1>3, <1>4 DEF UpdateEffect, TypeOK
  <2>5. phase' \in {"none", "build", "update"}
    BY <1>2
  <2>. QED  BY <1>1, <1>2, <2>1, <2>2, <2>3, <2>4, <2>5 DEF TypeOK
<1>10. \A u : Uses(u)' = Uses(u)
  BY <1>2 DEF Uses
<1>11. \A m : Attached(m)' = Attached(m)
  BY <1>2 DEF Attached
<1>12. \A m : Counted(m) = Attached(m) /\ Counted(m)' = Attached(m)
  BY <1>2, <1>11 DEF Counted, Attached
<1>13. Separate' /\ CountsExact'
  BY <1>1, <1>2, <1>10, <1>12 DEF Separate, CountsExact
<1>14. GivenExact'
  <2>. SUFFICES ASSUME NEW m \in Conns
                PROVE  given'[m] = IF phase' = "update" /\ Attached(m) \cap todo' # {}
                                   THEN Attached(m) \ todo' ELSE {}
    BY <1>11 DEF GivenExact
  <2>1. CASE m = n
    BY <2>1, <1>2, <1>3, <1>7
  <2>2. CASE m # n
    <3>1. c \notin Attached(m)
      BY <2>2 DEF Attached
    <3>2. given[m] = IF Attached(m) \cap todo # {} THEN Attached(m) \ todo ELSE {}
      BY <1>1, <1>2 DEF GivenExact
    <3>. QED  BY <3>1, <3>2, <2>2, <1>2, <1>6
  <2>. QED  BY <2>1, <2>2
<1>15. CallsExact'
  <2>. SUFFICES ASSUME NEW m \in Conns
                PROVE  /\ updateWeightsCalls'[m] = Cardinality(given'[m])
                       /\ given'[m] = {} => acc'[m] = 0
    BY DEF CallsExact
  <2>1. CASE m = n
    BY <2>1, <1>7, <1>8, EmptyCount
  <2>2. CASE m # n
    BY <2>2, <1>1, <1>6 DEF CallsExact
  <2>. QED  BY <2>1, <2>2
<1>16. Traversal'
  BY <1>1, <1>2 DEF Traversal
<1>17. PartialStep'
  <2>. SUFFICES ASSUME NEW m \in Conns, updateWeightsCalls'[m] > 0
                PROVE  prevWeights'[m] = rule'[m].decay * weights'[m]
                          + rule'[m].mom * (weights'[m] - base'[m]) + acc'[m]
    BY DEF PartialStep
  <2>1. CASE m = n
    <3>1. ~last
      BY <2>1, <1>7
    <3>2. sum = r.decay * weights[n] + r.mom * (weights[n] - b) + (acc[n] + g)
      BY <1>4 DEF UpdateEffect
    <3>. QED  BY <2>1, <3>1, <3>2, <1>7
  <2>2. CASE m # n
    BY <2>2, <1>1, <1>6 DEF PartialStep
  <2>. QED  BY <2>1, <2>2
<1>. QED  BY <1>9, <1>13, <1>14, <1>15, <1>16, <1>17 DEF IndInv

\* Loading weights between traversals disturbs no counter and no step.
LEMMA LoadWeightsInv ==
    ASSUME IndInv, NEW n \in Conns, NEW a \in Vals, NEW b \in Vals, LoadWeights(n, a, b)
    PROVE  IndInv'
<1>1. /\ TypeOK /\ Separate /\ CountsExact /\ GivenExact /\ CallsExact
      /\ Traversal /\ PartialStep
  BY DEF IndInv
<1>2. /\ phase = "none" /\ phase' = phase /\ todo' = todo /\ steps' = steps
      /\ numReferences' = numReferences /\ updateWeightsCalls' = updateWeightsCalls
      /\ matrix' = matrix /\ weightsTable' = weightsTable /\ built' = built
      /\ given' = given /\ acc' = acc /\ base' = base /\ rule' = rule
  BY DEF LoadWeights, netVars, ghostVars
<1>3. weights' \in [Conns -> Int] /\ prevWeights' \in [Conns -> Int]
  BY <1>1, OptionsAssumption DEF LoadWeights, TypeOK
<1>4. TypeOK'
  BY <1>1, <1>2, <1>3 DEF TypeOK
<1>5. Separate' /\ CountsExact'
  <2>1. /\ \A u : Uses(u)' = Uses(u)
        /\ \A m : Counted(m)' = Counted(m)
    BY <1>2 DEF Uses, Counted, Attached
  <2>. QED  BY <1>1, <1>2, <2>1 DEF Separate, CountsExact
<1>6. GivenExact' /\ CallsExact' /\ Traversal'
  BY <1>1, <1>2 DEF GivenExact, CallsExact, Traversal, Attached
<1>7. \A m \in Conns : updateWeightsCalls[m] = 0
  BY <1>1, <1>2, EmptyCount DEF GivenExact, CallsExact
<1>8. PartialStep'
  BY <1>2, <1>7 DEF PartialStep
<1>. QED  BY <1>4, <1>5, <1>6, <1>8 DEF IndInv

\* A trainer that is dropped takes its pointers with it.
LEMMA DropInv ==
    ASSUME IndInv, NEW t \in Trainers, Drop(t)
    PROVE  IndInv'
<1>1. /\ TypeOK /\ Separate /\ CountsExact /\ GivenExact /\ CallsExact
      /\ Traversal /\ PartialStep
  BY DEF IndInv
<1>2. /\ phase = "none" /\ phase' = phase /\ todo' = todo /\ todo = {} /\ steps' = steps
      /\ weights' = weights /\ prevWeights' = prevWeights
      /\ numReferences' = numReferences /\ updateWeightsCalls' = updateWeightsCalls
      /\ built' = built \ {t}
      /\ given' = given /\ acc' = acc /\ base' = base /\ rule' = rule
  BY <1>1 DEF Drop, connVars, ghostVars, Traversal
<1>3. /\ matrix' = [c \in Comps |-> IF Owner[c] = t THEN Null ELSE matrix[c]]
      /\ weightsTable' = [weightsTable EXCEPT ![t] = EmptyTable]
  BY DEF Drop
<1>4. TypeOK'
  <2>1. matrix' \in [Comps -> Conns \cup {Null}]
    BY <1>1, <1>3 DEF TypeOK
  <2>2. weightsTable' \in [Trainers -> [Names -> Conns \cup {Null}]]
    BY <1>1, <1>3 DEF TypeOK, EmptyTable
  <2>. QED  BY <1>1, <1>2, <2>1, <2>2 DEF TypeOK
<1>5. \A u \in Trainers \ {t} : Uses(u)' = Uses(u)
  <2>. SUFFICES ASSUME NEW u \in Trainers \ {t} PROVE Uses(u)' = Uses(u)
    OBVIOUS
  <2>1. \A c \in Leaves(u) : matrix'[c] = matrix[c]
    BY <1>3 DEF Leaves
  <2>2. weightsTable'[u] = weightsTable[u]
    BY <1>1, <1>3 DEF TypeOK
  <2>. QED  BY <2>1, <2>2 DEF Uses, Leaves
<1>6. Uses(t)' = {}
  BY <1>1, <1>3 DEF Uses, Leaves, EmptyTable, TypeOK
<1>7. Separate'
  BY <1>1, <1>5, <1>6, SeparateStep
<1>8. CountsExact'
  <2>. SUFFICES ASSUME NEW u \in Trainers, NEW n \in Uses(u)'
                PROVE  numReferences'[n] = Cardinality(Counted(n)')
    BY DEF CountsExact
  <2>1. u # t /\ n \in Uses(u) /\ n # Null
    BY <1>5, <1>6 DEF Uses
  <2>2. Attached(n) \subseteq Leaves(u)
    BY <1>1, <2>1, AttachedOwner
  <2>3. Attached(n)' = Attached(n)
    BY <1>3, <2>1, <2>2 DEF Attached, Leaves
  <2>4. Counted(n) = Attached(n) /\ Counted(n)' = Attached(n)'
    BY <1>2 DEF Counted, Attached
  <2>. QED  BY <1>1, <1>2, <2>1, <2>3, <2>4 DEF CountsExact
<1>9. \A n \in Conns : given[n] = {} /\ updateWeightsCalls[n] = 0
  BY <1>1, <1>2, EmptyCount DEF GivenExact, CallsExact
<1>10. GivenExact' /\ CallsExact'
  BY <1>1, <1>2, <1>9 DEF GivenExact, CallsExact
<1>11. PartialStep'
  BY <1>2, <1>9 DEF PartialStep
<1>12. Traversal'
  BY <1>1, <1>2, <1>3 DEF Traversal
<1>. QED  BY <1>4, <1>7, <1>8, <1>10, <1>11, <1>12 DEF IndInv
-----------------------------------------------------------------------------
\* One step per action.
LEMMA NextInv ==
    ASSUME IndInv, [Next]_vars
    PROVE  IndInv'
<1>1. ASSUME NEW t \in Trainers, Build(t) PROVE IndInv'
  BY <1>1, BuildInv
<1>2. ASSUME NEW t \in Trainers, TrainStep(t) PROVE IndInv'
  BY <1>2, TrainStepInv
<1>3. ASSUME NEW t \in Trainers, Drop(t) PROVE IndInv'
  BY <1>3, DropInv
<1>4. ASSUME NEW t \in Trainers, NEW u \in Trainers, Clone(t, u) PROVE IndInv'
  BY <1>4, CloneInv
<1>5. ASSUME NEW c \in Comps, AttachFromTable(c) PROVE IndInv'
  BY <1>5, AttachFromTableInv
<1>6. ASSUME NEW c \in Comps, KeepPrevious(c) PROVE IndInv'
  BY <1>6, KeepPreviousInv
<1>7. ASSUME NEW c \in Comps, AllocateWeights(c) PROVE IndInv'
  BY <1>7, AllocateWeightsInv
<1>8. ASSUME NEW c \in Comps, DoUpdate(c) PROVE IndInv'
  BY <1>8, DoUpdateInv
<1>9. ASSUME NEW n \in Conns, NEW a \in Vals, NEW b \in Vals, LoadWeights(n, a, b) PROVE IndInv'
  BY <1>9, LoadWeightsInv
<1>10. CASE UNCHANGED vars
  <2>1. /\ phase' = phase /\ todo' = todo /\ steps' = steps
        /\ weights' = weights /\ prevWeights' = prevWeights
        /\ numReferences' = numReferences /\ updateWeightsCalls' = updateWeightsCalls
        /\ matrix' = matrix /\ weightsTable' = weightsTable /\ built' = built
        /\ given' = given /\ acc' = acc /\ base' = base /\ rule' = rule
    BY <1>10 DEF vars, connVars, netVars, ghostVars
  <2>2. /\ \A u : Uses(u)' = Uses(u)
        /\ \A m : Counted(m)' = Counted(m) /\ Attached(m)' = Attached(m)
    BY <2>1 DEF Uses, Counted, Attached
  <2>3. TypeOK' /\ Traversal' /\ PartialStep'
    BY <2>1 DEF IndInv, TypeOK, Traversal, PartialStep
  <2>4. Separate' /\ CountsExact' /\ GivenExact' /\ CallsExact'
    BY <2>1, <2>2 DEF IndInv, Separate, CountsExact, GivenExact, CallsExact
  <2>. QED  BY <2>3, <2>4 DEF IndInv
<1>. QED  BY <1>1, <1>2, <1>3, <1>4, <1>5, <1>6, <1>7, <1>8, <1>9, <1>10 DEF Next

\* The bookkeeping of Connections is right in every state that trainers
\* which keep their Connections to themselves can reach.
THEOREM Invariance == Spec => []IndInv
<1>1. Init => IndInv
  BY InitInv
<1>2. IndInv /\ [Next]_vars => IndInv'
  BY NextInv
<1>. QED  BY <1>1, <1>2, PTL DEF Spec

\* Every variable keeps its type, and no counter exceeds the number of leaves.
THEOREM TypeCorrect == Spec => []TypeOK
<1>1. IndInv => TypeOK
  BY DEF IndInv
<1>. QED  BY <1>1, Invariance, PTL

\* num_references is the number of leaves attached.
THEOREM ReferencesAreExact == Spec => []ReferencesExact
<1>1. IndInv => ReferencesExact
  <2>. SUFFICES ASSUME IndInv, phase # "build", NEW n \in Conns, Attached(n) # {}
                PROVE  numReferences[n] = Cardinality(Attached(n))
    BY DEF ReferencesExact
  <2>1. PICK c \in Comps : matrix[c] = n
    BY DEF Attached
  <2>2. Owner[c] \in Trainers /\ n \in Uses(Owner[c])
    BY <2>1, CompsAssumption DEF Uses, Leaves
  <2>3. phase = "update" \/ todo = {}
    BY DEF IndInv, TypeOK, Traversal
  <2>4. Counted(n) = Attached(n)
    BY <2>3 DEF Counted, Attached
  <2>. QED  BY <2>2, <2>4 DEF IndInv, CountsExact
<1>. QED  BY <1>1, Invariance, PTL

\* A training step that has returned left nothing half done.
THEOREM StepsComplete == Spec => []NothingPending
<1>1. IndInv => NothingPending
  BY EmptyCount DEF IndInv, GivenExact, CallsExact, NothingPending
<1>. QED  BY <1>1, Invariance, PTL

\* The buffer of the old weights holds the momentum rule in the making.
THEOREM PartialStepExact == Spec => []PartialStep
<1>1. IndInv => PartialStep
  BY DEF IndInv
<1>. QED  BY <1>1, Invariance, PTL
-----------------------------------------------------------------------------
\* During an update only doUpdate runs.
LEMMA OnlyUpdates ==
    ASSUME Next, phase = "update"
    PROVE  \E c \in Comps : DoUpdate(c)
BY DEF Next, Build, Clone, BeginBuild, TrainStep, Drop, AttachFromTable, KeepPrevious,
       AllocateWeights, NextToBuild, LoadWeights

\* Weights never move under a leaf that is still to update with them.
THEOREM WeightsStayDuringUpdate == Spec => NoMoveUnderUpdate
<1>. DEFINE A == phase = "update" =>
                   \A n \in Conns : weights'[n] # weights[n] => Attached(n) \cap todo' = {}
<1>1. ASSUME IndInv, [Next]_vars PROVE [A]_vars
  <2>. SUFFICES ASSUME Next, phase = "update", NEW m \in Conns, weights'[m] # weights[m]
                PROVE  Attached(m) \cap todo' = {}
    BY <1>1
  <2>1. PICK c \in Comps : DoUpdate(c)
    BY OnlyUpdates
  <2>. DEFINE n == matrix[c]
  <2>2. PICK g \in Grads, sum \in Int, r \in [mom : Nat, decay : Int], b \in Int :
          UpdateEffect(c, n, g, sum, r, b)
    BY <1>1, <2>1, DoUpdateEffect
  <2>3. m = n /\ updateWeightsCalls[n] + 1 = numReferences[n]
    BY <1>1, <2>2 DEF UpdateEffect, IndInv, TypeOK
  <2>4. Attached(n) \cap (todo \ {c}) = {}
    BY <1>1, <2>1, <2>3, LastCall DEF DoUpdate
  <2>. QED  BY <2>1, <2>3, <2>4 DEF DoUpdate
<1>. QED  BY <1>1, Invariance, PTL DEF Spec, NoMoveUnderUpdate
-----------------------------------------------------------------------------
OldWeights == [n \in Conns |-> IF given[n] = {} THEN prevWeights[n] ELSE base[n]]
Members    == [n \in Conns |-> Attached(n)]

\* Between traversals nothing is pending, and the old weights are in
\* prev_weights.
LEMMA QuietBetween ==
    ASSUME IndInv, phase # "update"
    PROVE  Abstract!Quiet /\ \A n \in Conns : given[n] = {} /\ OldWeights[n] = prevWeights[n]
BY DEF IndInv, GivenExact, Abstract!Quiet, OldWeights

\* A step that leaves the contents of the attached objects, and hands in no
\* gradient, is a reconfiguration.
LEMMA Reconfigures ==
    ASSUME IndInv, IndInv', phase # "update", UNCHANGED ghostVars,
           \A n \in Conns : Attached(n) # {} => /\ weights'[n] = weights[n]
                                               /\ prevWeights'[n] = prevWeights[n]
    PROVE  Abstract!Reconfigure
<1>1. given' = given /\ acc' = acc /\ base' = base /\ rule' = rule
  BY DEF ghostVars
<1>2. \A n \in Conns : given[n] = {} /\ given'[n] = {}
  BY <1>1, QuietBetween
<1>3. Members' \in [Conns -> SUBSET Comps]
  BY DEF Members, Attached
<1>4. weights' \in [Conns -> Int] /\ OldWeights' \in [Conns -> Int]
  BY DEF IndInv, TypeOK, OldWeights
<1>5. \A n \in Conns : Members[n] # {} => /\ weights'[n] = weights[n]
                                          /\ OldWeights'[n] = OldWeights[n]
  BY <1>2 DEF Members, OldWeights
<1>6. Abstract!Quiet
  BY QuietBetween
<1>. QED  BY <1>1, <1>3, <1>4, <1>5, <1>6 DEF Abstract!Reconfigure, Members, OldWeights

LEMMA BeginBuildReconfigures ==
    ASSUME IndInv, IndInv', NEW t \in Trainers, NEW table, NEW w, NEW p,
           BeginBuild(t, table, w, p)
    PROVE  Abstract!Reconfigure
<1>1. phase # "update" /\ UNCHANGED ghostVars
  BY DEF BeginBuild
<1>2. \A n \in Conns : Attached(n) # {} => n \notin New(table)
  BY FreeUnattached DEF New, IndInv
<1>3. \A n \in Conns \ New(table) : weights'[n] = weights[n] /\ prevWeights'[n] = prevWeights[n]
  BY DEF BeginBuild
<1>. QED  BY <1>1, <1>2, <1>3, Reconfigures

LEMMA AllocateReconfigures ==
    ASSUME IndInv, IndInv', NEW c \in Comps, AllocateWeights(c)
    PROVE  Abstract!Reconfigure
<1>1. phase # "update" /\ UNCHANGED ghostVars
  BY DEF AllocateWeights, NextToBuild
<1>2. PICK n \in Free, a \in Vals, b \in Vals :
        /\ weights' = [weights EXCEPT ![n] = a]
        /\ prevWeights' = [prevWeights EXCEPT ![n] = b]
        /\ numReferences' = [numReferences EXCEPT ![n] = 1]
        /\ updateWeightsCalls' = [updateWeightsCalls EXCEPT ![n] = 0]
        /\ matrix' = [matrix EXCEPT ![c] = n]
        /\ weightsTable' = [weightsTable EXCEPT ![Owner[c]][WeightsName[c]] = n]
  BY DEF AllocateWeights
<1>3. Attached(n) = {}
  BY FreeUnattached DEF IndInv
<1>4. \A m \in Conns \ {n} : weights'[m] = weights[m] /\ prevWeights'[m] = prevWeights[m]
  BY <1>2 DEF IndInv, TypeOK
<1>. QED  BY <1>1, <1>3, <1>4, Reconfigures

\* The scaling of max_norm_penalty is the bound of the abstract step.
LEMMA ClipIsCap ==
    ASSUME NEW c \in Comps, NEW v \in Int
    PROVE  \E m \in {0} \cup {MaxNorm[d] : d \in Comps} : Clip(c, v) = Abstract!Cap(v, m)
<1>. DEFINE m == IF Kind[c] = "bias" THEN 0 ELSE MaxNorm[c]
<1>1. m \in {0} \cup {MaxNorm[d] : d \in Comps}
  OBVIOUS
<1>2. Clip(c, v) = Abstract!Cap(v, m)
  BY DEF Clip, Abstract!Cap
<1>. QED  BY <1>1, <1>2

\* doUpdate hands a gradient in; the call that swaps is the last one to.
LEMMA DoUpdateGives ==
    ASSUME IndInv, NEW c \in Comps, DoUpdate(c)
    PROVE  \E n \in Conns, g \in Grads, r \in {NoRule} \cup {RuleOf(d) : d \in Comps} :
             \/ Abstract!Give(n, c, g, r)
             \/ \E m \in {0} \cup {MaxNorm[d] : d \in Comps} : Abstract!GiveLast(n, c, g, r, m)
<1>. DEFINE n == matrix[c]
<1>1. /\ n \in Conns /\ c \notin given[n] /\ given[n] = Attached(n) \ todo
      /\ c \in todo /\ c \in Attached(n) /\ matrix' = matrix
      /\ updateWeightsCalls[n] + 1 = numReferences[n] <=> Attached(n) \cap (todo \ {c}) = {}
  BY LastCall DEF DoUpdate, Attached, netVars
<1>2. PICK g \in Grads, sum \in Int, r \in [mom : Nat, decay : Int], b \in Int :
        UpdateEffect(c, n, g, sum, r, b)
  BY DoUpdateEffect
<1>3. updateWeightsCalls[n] + 1 = numReferences[n] <=> given[n] \cup {c} = Attached(n)
  BY <1>1
<1>4. Members' = Members /\ Members[n] = Attached(n)
  BY <1>1 DEF Members, Attached
<1>5. r = Abstract!RuleFor(n, RuleOf(c)) /\ b = OldWeights[n]
  BY <1>1, <1>2 DEF UpdateEffect, Abstract!RuleFor, OldWeights
<1>6. \A m \in Conns \ {n} : OldWeights'[m] = OldWeights[m]
  BY <1>1, <1>2 DEF UpdateEffect, OldWeights, IndInv, TypeOK
<1>7. rule' = [rule EXCEPT ![n] = Abstract!RuleFor(n, RuleOf(c))]
  BY <1>2, <1>5 DEF UpdateEffect
<1>8. RuleOf(c) \in {NoRule} \cup {RuleOf(d) : d \in Comps}
  OBVIOUS
<1>9. CASE updateWeightsCalls[n] + 1 # numReferences[n]
  <2>1. /\ given' = [given EXCEPT ![n] = given[n] \cup {c}]
        /\ acc' = [acc EXCEPT ![n] = acc[n] + g]
        /\ weights' = weights /\ base' = [base EXCEPT ![n] = b]
    BY <1>2, <1>9 DEF UpdateEffect
  <2>2. OldWeights'[n] = OldWeights[n]
    BY <1>1, <1>5, <2>1 DEF OldWeights, IndInv, TypeOK
  <2>3. OldWeights' = OldWeights
    BY <1>6, <2>2 DEF OldWeights
  <2>4. Abstract!Give(n, c, g, RuleOf(c))
    BY <1>1, <1>3, <1>4, <1>7, <1>9, <2>1, <2>3 DEF Abstract!Give, Members, OldWeights
  <2>. QED  BY <1>1, <1>8, <2>4
<1>10. CASE updateWeightsCalls[n] + 1 = numReferences[n]
  <2>1. /\ given' = [given EXCEPT ![n] = {}]
        /\ acc' = [acc EXCEPT ![n] = 0]
        /\ weights' = [weights EXCEPT ![n] = Clip(c, sum)]
        /\ prevWeights' = [prevWeights EXCEPT ![n] = weights[n]]
    BY <1>2, <1>10 DEF UpdateEffect
  <2>2. OldWeights'[n] = weights[n]
    BY <1>1, <2>1 DEF OldWeights, IndInv, TypeOK
  <2>3. OldWeights' = [OldWeights EXCEPT ![n] = weights[n]]
    BY <1>1, <1>6, <2>2 DEF OldWeights
  <2>4. sum = Abstract!Moved(n, Abstract!RuleFor(n, RuleOf(c)), acc[n] + g)
    BY <1>2, <1>5 DEF UpdateEffect, Abstract!Moved, OldWeights
  <2>5. PICK m \in {0} \cup {MaxNorm[d] : d \in Comps} : Clip(c, sum) = Abstract!Cap(sum, m)
    BY ClipIsCap
  <2>6. Abstract!GiveLast(n, c, g, RuleOf(c), m)
    BY <1>1, <1>3, <1>4, <1>7, <1>10, <2>1, <2>3, <2>4, <2>5
       DEF Abstract!GiveLast, Members, OldWeights
  <2>. QED  BY <1>1, <1>8, <2>5, <2>6
<1>. QED  BY <1>9, <1>10

\* Every step of the buffers and counters is a step of the abstract matrix, or
\* one it does not see.
LEMMA StepRefines ==
    ASSUME IndInv, IndInv', [Next]_vars
    PROVE  [Abstract!Next]_(Abstract!vars)
<1>1. ASSUME NEW t \in Trainers, NEW table, NEW w, NEW p, BeginBuild(t, table, w, p)
      PROVE  Abstract!Next
  BY <1>1, BeginBuildReconfigures DEF Abstract!Next
<1>2. CASE \E t \in Trainers : Build(t)
  BY <1>1, <1>2 DEF Build
<1>3. CASE \E t, u \in Trainers : Clone(t, u)
  BY <1>1, <1>3 DEF Clone
<1>4. CASE \E t \in Trainers : TrainStep(t)
  <2>1. UNCHANGED <<weights, prevWeights, matrix, given, acc, base, rule>>
    BY <1>4 DEF TrainStep, connVars, netVars, ghostVars
  <2>. QED  BY <2>1 DEF Abstract!vars, Attached
<1>5. CASE \E t \in Trainers : Drop(t)
  <2>1. /\ phase # "update" /\ UNCHANGED ghostVars
        /\ weights' = weights /\ prevWeights' = prevWeights
    BY <1>5 DEF Drop, connVars
  <2>. QED  BY <2>1, Reconfigures DEF Abstract!Next
<1>6. CASE \E c \in Comps : AttachFromTable(c) \/ KeepPrevious(c)
  <2>1. /\ phase # "update" /\ UNCHANGED ghostVars
        /\ weights' = weights /\ prevWeights' = prevWeights
    BY <1>6 DEF AttachFromTable, KeepPrevious, NextToBuild
  <2>. QED  BY <2>1, Reconfigures DEF Abstract!Next
<1>7. CASE \E c \in Comps : AllocateWeights(c)
  BY <1>7, AllocateReconfigures DEF Abstract!Next
<1>8. CASE \E c \in Comps : DoUpdate(c)
  BY <1>8, DoUpdateGives DEF Abstract!Next
<1>9. CASE \E n \in Conns, a, b \in Vals : LoadWeights(n, a, b)
  <2>1. PICK n \in Conns, a \in Vals, b \in Vals : LoadWeights(n, a, b)
    BY <1>9
  <2>2. /\ phase # "update" /\ matrix' = matrix
        /\ given' = given /\ acc' = acc /\ base' = base /\ rule' = rule
        /\ weights' = [weights EXCEPT ![n] = a]
        /\ prevWeights' = [prevWeights EXCEPT ![n] = b]
    BY <2>1 DEF LoadWeights, netVars, ghostVars
  <2>3. Members' = Members
    BY <2>2 DEF Members, Attached
  <2>4. Abstract!Quiet /\ \A m \in Conns : given[m] = {}
    BY <2>2, QuietBetween
  <2>5. OldWeights' = [OldWeights EXCEPT ![n] = b]
    BY <2>2, <2>4 DEF OldWeights, IndInv, TypeOK
  <2>6. Abstract!Load(n, a, b)
    BY <2>2, <2>3, <2>4, <2>5 DEF Abstract!Load, Members, OldWeights
  <2>. QED  BY <2>6 DEF Abstract!Next
<1>10. CASE UNCHANGED vars
  BY <1>10 DEF vars, connVars, netVars, ghostVars, Abstract!vars, Attached
<1>. QED  BY <1>2, <1>3, <1>4, <1>5, <1>6, <1>7, <1>8, <1>9, <1>10 DEF Next

\* Two buffers and two counters are enough: the Connections of the trainers
\* are momentum-rule matrices.
THEOREM Refinement == Spec => ImplementsMomentumStep
<1>1. Init => Abstract!Init
  BY CompsAssumption DEF Init, Abstract!Init, Attached
<1>2. IndInv /\ IndInv' /\ [Next]_vars => [Abstract!Next]_(Abstract!vars)
  BY StepRefines
<1>. QED  BY <1>1, <1>2, Invariance, PTL DEF Spec, Abstract!Spec, ImplementsMomentumStep
=============================================================================
