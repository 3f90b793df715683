------------------------ MODULE MCConvergenceTraining -----------------------
(***************************************************************************)
(* An instance of ConvergenceTraining for TLC with the negative errors of  *)
(* the F measure's loss.  Those that are not negative are checked with     *)
(* MCTrainingLoops.                                                        *)
(***************************************************************************)
EXTENDS ConvergenceTraining

CONSTANT MaxEpoch       \* bound: the largest max_epochs

CallsUpTo == [min : 0..2, max : {0, 2, MaxEpoch}]

Negative == -4..-1      \* what the F measure's loss returns
=============================================================================
