------------------------------ MODULE MCTrainer -----------------------------
(***************************************************************************)
(* The instances of MCDatasets and of MCTrainingLoops in one run of TLC: a *)
(* behaviour is one of either, chosen in the initial state, while what the *)
(* other one is about stays as it begins.                                  *)
(***************************************************************************)
EXTENDS MCDatasets, MCTrainingLoops

VARIABLE about

TrainerInit ==
    /\ about \in {"data", "loops"}
    /\ DataInit /\ LoopsInit
    /\ about = "data" => loop = "wo" /\ woCall = CHOOSE c \in WoCalls : TRUE
    /\ about = "loops" => part = "matrices" /\ mat = <<>>

TrainerNext ==
    \/ about = "data" /\ DataNext /\ UNCHANGED <<about, loopsVars>>
    \/ about = "loops" /\ LoopsNext /\ UNCHANGED <<about, dataVars>>

TrainerSpec == TrainerInit /\ [][TrainerNext]_<<about, dataVars, loopsVars>>
=============================================================================
