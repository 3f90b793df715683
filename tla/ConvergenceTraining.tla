------------------------- MODULE ConvergenceTraining ------------------------
(***************************************************************************)
(* supervised_trainer:train_wo_validation: train until max_epochs or until *)
(* the training error improves by less than a given fraction.              *)
(*                                                                         *)
(* The networks of a call are numbered by the epochs they have been        *)
(* trained.  An error is an integer, in a unit small enough; the errors of *)
(* a loss function that is to be maximised (ann.loss.local_fmeasure) are   *)
(* negative.  The fraction is Num / Den.                                   *)
(***************************************************************************)
EXTENDS Integers

CONSTANTS
    WoCalls,        \* records [min, max]: min_epochs and max_epochs
    WoErrors,       \* what train_dataset may return
    InitialError,   \* prev_tr_err before the first epoch, 1111111111111
    Num, Den        \* percentage_stopping_criterion

ASSUME ConvergenceAssumption ==
    /\ WoCalls \subseteq [min : Nat, max : Nat]
    /\ WoErrors \subseteq Int
    /\ InitialError \in Nat \ {0}
    /\ \A e \in WoErrors : e < InitialError
    /\ Num \in Nat /\ Den \in Nat \ {0} /\ Num < Den

VARIABLES
    woPc,           \* where the call is
    woCall,         \* params
    woEpoch,        \* the epoch under way
    woNet,          \* the network self is
    woBest,         \* the network that was cloned as best
    prevErr,        \* prev_tr_err
    err,            \* tr_err
    errs            \* history: the error of the epoch that made each network

woVars == <<woPc, woCall, woEpoch, woNet, woBest, prevErr, err, errs>>

EnterWoLoop(e) == IF e <= woCall.max THEN "train" ELSE "return"
-----------------------------------------------------------------------------
WoInit ==
    /\ woCall \in WoCalls
    /\ woEpoch = 1
    /\ woPc = EnterWoLoop(1)
    /\ woNet = 0
    /\ woBest = 0
    /\ prevErr = InitialError
    /\ err = InitialError
    /\ errs = [v \in {0} |-> InitialError]

TrainWoEpoch ==
    /\ woPc = "train"
    /\ woNet' = woNet + 1
    /\ \E e \in WoErrors :
          /\ err' = e
          /\ errs' = [v \in 0..(woNet + 1) |-> IF v = woNet + 1 THEN e ELSE errs[v]]
    /\ woPc' = "decide"
    /\ UNCHANGED <<woCall, woEpoch, woBest, prevErr>>

\* Mutant: the improvement is compared in magnitude.
TooLittleInMagnitude(p, e) ==
    LET d == IF p >= e THEN p - e ELSE e - p IN p > 0 /\ d * Den < Num * p

\* Mutant: the fraction is taken for a percentage.
TooLittlePercent(p, e) == p > 0 /\ (p - e) * Den < 100 * Num * p

\* (p - e) / p < Num / Den, in floating point: the division by a negative p
\* turns the sign of the improvement, by 0 it gives NaN or an infinity.
TooLittle(p, e) ==
    \/ p > 0 /\ (p - e) * Den < Num * p
    \/ p < 0 /\ (p - e) * Den > Num * p
    \/ p = 0 /\ e > 0

Converges == woEpoch > woCall.min /\ TooLittle(prevErr, err)

Break ==
    /\ woPc = "decide" /\ Converges
    /\ woPc' = "return"
    /\ UNCHANGED <<woCall, woEpoch, woNet, woBest, prevErr, err, errs>>

Accept ==
    /\ woPc = "decide" /\ ~Converges
    /\ woBest' = woNet
    /\ prevErr' = err
    /\ woEpoch' = woEpoch + 1
    /\ woPc' = EnterWoLoop(woEpoch + 1)
    /\ UNCHANGED <<woCall, woNet, err, errs>>

WoNext == TrainWoEpoch \/ Break \/ Accept

WoSpec == WoInit /\ [][WoNext]_woVars
-----------------------------------------------------------------------------
(***************************************************************************)
(* With errors that are not negative, the network returned has the least   *)
(* training error of all that were accepted since min_epochs.              *)
(***************************************************************************)
LeastAccepted ==
    woPc = "return" => \A v \in woCall.min..woBest : errs[woBest] <= errs[v]

(***************************************************************************)
(* The comment before train_wo_validation: it trains until max_epochs or   *)
(* until the improvement is less than the fraction.  A call that returns   *)
(* with epochs left has seen an improvement smaller than that fraction of  *)
(* the magnitude of the error.                                             *)
(***************************************************************************)
Magnitude(e) == IF e < 0 THEN -e ELSE e

StopsOnConvergence ==
    woPc = "return" /\ woEpoch <= woCall.max =>
        (prevErr - err) * Den <= Num * Magnitude(prevErr)

(***************************************************************************)
(* Why LeastAccepted holds: the errors accepted since min_epochs never     *)
(* rise, prev_tr_err is the one of best, and best is the network before    *)
(* the epoch under way.                                                    *)
(***************************************************************************)
WoTypeOK ==
    /\ woPc \in {"train", "decide", "return"}
    /\ woCall \in WoCalls
    /\ woEpoch \in Nat /\ woNet \in Nat /\ woBest \in Nat
    /\ prevErr \in WoErrors \cup {InitialError} /\ err \in WoErrors \cup {InitialError}
    /\ errs \in [0..woNet -> WoErrors \cup {InitialError}]

Position ==
    /\ woEpoch = woBest + 1
    /\ woPc = "train" => woNet = woBest
    /\ woPc = "decide" => woNet = woBest + 1 /\ err = errs[woNet]
    /\ woBest <= woNet
    /\ prevErr = errs[woBest]

LeastOfAll == \A v \in woCall.min..woBest : errs[woBest] <= errs[v]

ConvergenceInv == WoTypeOK /\ Position /\ LeastOfAll
=============================================================================
