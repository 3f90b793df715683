--------------------------- MODULE MCSharedWeights --------------------------
(***************************************************************************)
(* Instances of SharedWeights for TLC.                                     *)
(*                                                                         *)
(* Tied: an autoencoder and a clone of it.  Each has two dot products      *)
(* tied by one weight name, as the two layers that                         *)
(* build_two_layered_autoencoder_from_sizes_and_actf stacks; the clone is  *)
(* what train_holdout_validation keeps as the best network.  The options   *)
(* differ: the decoder, which starts each step, has momentum and sparse    *)
(* input; the encoder, which ends it, only weight decay and a maximum      *)
(* norm.                                                                   *)
(***************************************************************************)
EXTENDS SharedWeights, TLC

CONSTANTS e1, e2, k1, k2,       \* encoder, decoder, and those of the clone
          T, U,                 \* trainers
          wname                 \* their weight name

TiedOwner     == e1 :> T @@ e2 :> T @@ k1 :> U @@ k2 :> U
TiedName      == [c \in Comps |-> wname]
TiedBuildRank == e1 :> 1 @@ e2 :> 2 @@ k1 :> 1 @@ k2 :> 2
TiedRank      == e1 :> 2 @@ e2 :> 1 @@ k1 :> 2 @@ k2 :> 1
TiedKind      == [c \in Comps |-> IF c \in {e1, k1} THEN "dense" ELSE "sparse"]
TiedMomentum  == [c \in Comps |-> IF c \in {e1, k1} THEN 0 ELSE 1]
TiedDecay     == [c \in Comps |-> 2]
TiedMaxNorm   == [c \in Comps |-> IF c \in {e1, k1} THEN 3 ELSE 0]

\* The clone's network shares nothing but has a single user of the name.
LoneOwner     == e1 :> T @@ e2 :> T @@ k1 :> U
LoneBuildRank == e1 :> 1 @@ e2 :> 2 @@ k1 :> 1
LoneRank      == e1 :> 2 @@ e2 :> 1 @@ k1 :> 1
=============================================================================
