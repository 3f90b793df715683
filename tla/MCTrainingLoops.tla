--------------------------- MODULE MCTrainingLoops --------------------------
(***************************************************************************)
(* Instances of the two training loops of supervised_trainer for TLC.  A   *)
(* behaviour is a call of one of them, chosen in the initial state, while  *)
(* the variables of the other stay as they begin.                          *)
(*                                                                         *)
(* train_holdout_validation: calls that begin at epoch 1 or are resumed at *)
(* epoch 2, with no, one or two epochs without validation, under both      *)
(* built-in criteria and an arbitrary one.  With max below first the loop  *)
(* is empty.                                                               *)
(*                                                                         *)
(* train_wo_validation: up to MaxEpoch - 1 epochs, of which none to two    *)
(* must be done; the empty call; a quarter as the fraction, so that with   *)
(* errors up to 8 an improvement of one unit is sometimes enough and       *)
(* sometimes not.                                                          *)
(***************************************************************************)
EXTENDS HoldoutTraining, ConvergenceTraining

CONSTANT MaxEpoch       \* bound: the largest max_epochs

VARIABLE loop           \* the method called

HoldoutCalls ==
    {o \in [first : 1..2, max : {1, MaxEpoch}, min : {0, 2}, forced : {0, 1, 2},
            criterion : Criteria, limit : 1..2] :
        o.criterion = "caller" => o.limit = 1}

CallsUpTo == [min : 0..2, max : {0, 2, MaxEpoch - 1}]

LoopsInit ==
    /\ loop \in {"holdout", "wo"}
    /\ Init /\ WoInit
    /\ loop = "holdout" => woCall = CHOOSE c \in WoCalls : TRUE
    /\ loop = "wo" => opt = CHOOSE o \in Options : TRUE

HoldoutNext == loop = "holdout" /\ Next /\ UNCHANGED <<loop, woVars>>
WithoutNext == loop = "wo" /\ WoNext /\ UNCHANGED <<loop, vars>>

LoopsNext == HoldoutNext \/ WithoutNext

loopsVars == <<loop, vars, woVars>>
=============================================================================
