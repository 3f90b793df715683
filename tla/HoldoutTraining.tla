--------------------------- MODULE HoldoutTraining --------------------------
(***************************************************************************)
(* supervised_trainer:train_holdout_validation: the loop over epochs that  *)
(* trains a network, measures it on the validation data, keeps a clone of  *)
(* the best one and stops when a criterion says so.                        *)
(*                                                                         *)
(* The networks of a call are numbered by the epochs they have been        *)
(* trained: network 0 is the trainer as it was given.  A validation error  *)
(* is an integer or NaN, the result of a division of zero by zero, which   *)
(* is less than nothing and nothing is less than it.  validation_function  *)
(* is the caller's, and what it returns is any of these.                   *)
(***************************************************************************)
EXTENDS Integers

CONSTANTS
    Options,    \* the calls: records of the fields below
    Errors,     \* validation errors that are numbers
    NaN

\* first:     first_epoch       min:    min_epochs
\* forced:    epochs_wo_validation      max:    max_epochs
\* criterion: who made stopping_criterion, and with which limit
Criteria == {"absolute", "relative", "caller"}

ASSUME OptionsAssumption ==
    /\ Options \subseteq [first : Nat, max : Nat, min : Nat, forced : Nat,
                          criterion : Criteria, limit : Nat]
    /\ Errors \subseteq Int
    /\ NaN \notin Int

Measures == Errors \cup {NaN}

VARIABLES
    pc,             \* where the call is
    opt,            \* params
    epoch,          \* the epoch under way
    net,            \* the network self is
    best,           \* the network that was cloned as best
    bestEpoch,      \* best_epoch
    bestValError,   \* best_val_error
    lastEpoch,      \* last_epoch
    lastValError,   \* last_val_error
    \* history variables, read by no action
    measured,       \* what the validation of each network returned
    since           \* the last network kept without regard to its error

vars == <<pc, opt, epoch, net, best, bestEpoch, bestValError, lastEpoch,
          lastValError, measured, since>>

Less(a, b) == a # NaN /\ b # NaN /\ a < b
-----------------------------------------------------------------------------
Init ==
    /\ pc = "call"
    /\ opt \in Options
    /\ epoch = opt.first
    /\ net = 0
    /\ best = 0
    /\ bestEpoch = opt.first
    /\ bestValError = NaN
    /\ lastEpoch = 0
    /\ lastValError = NaN
    /\ measured = [v \in {} |-> NaN]
    /\ since = 0

Measured(v, e) == [w \in DOMAIN measured \cup {v} |->
                      IF w = v THEN e ELSE measured[w]]

\* The head of the for loop.
EnterLoop(e) == IF e <= opt.max THEN "train" ELSE "return"

\* The clone and the validation before the first epoch.
ValidateGiven ==
    /\ pc = "call"
    /\ \E e \in Measures :
          /\ bestValError' = e
          /\ lastValError' = e
          /\ measured' = Measured(net, e)
    /\ best' = net
    /\ pc' = EnterLoop(opt.first)
    /\ UNCHANGED <<opt, epoch, net, bestEpoch, lastEpoch, since>>

TrainDataset ==
    /\ pc = "train"
    /\ net' = net + 1
    /\ pc' = "validate"
    /\ UNCHANGED <<opt, epoch, best, bestEpoch, bestValError, lastEpoch,
                   lastValError, measured, since>>

Validate ==
    /\ pc = "validate"
    /\ \E e \in Measures : lastValError' = e /\ measured' = Measured(net, e)
    /\ lastEpoch' = epoch
    /\ pc' = "select"
    /\ UNCHANGED <<opt, epoch, net, best, bestEpoch, bestValError, since>>

\* Mutant: an error as good as the best one replaces it.
ImprovesOrEquals(e) == ~Less(bestValError, e) /\ e # NaN

Improves(e) == Less(e, bestValError)

\* Mutant: the error is noted and the network is not cloned.
CloneForgotten == best

\* self:clone() while self is the network just validated.
Clone == net

Keep ==
    /\ best' = Clone
    /\ bestEpoch' = epoch
    /\ bestValError' = lastValError
    /\ pc' = "stop"
    /\ UNCHANGED <<opt, epoch, net, lastEpoch, lastValError, measured>>

KeepBetter ==
    /\ pc = "select" /\ Improves(lastValError)
    /\ Keep
    /\ UNCHANGED since

\* Mutant: the epochs without validation are counted from the call's first.
ForcedFromFirst == epoch - opt.first < opt.forced

Forced == epoch <= opt.forced

KeepForced ==
    /\ pc = "select" /\ ~Improves(lastValError) /\ Forced
    /\ Keep
    /\ since' = net

KeepNothing ==
    /\ pc = "select" /\ ~Improves(lastValError) /\ ~Forced
    /\ pc' = "stop"
    /\ UNCHANGED <<opt, epoch, net, best, bestEpoch, bestValError, lastEpoch,
                   lastValError, measured, since>>

\* Mutant: one epoch more of patience.
CriterionLate ==
    CASE opt.criterion = "absolute" -> {epoch - bestEpoch > opt.limit}
      [] opt.criterion = "relative" -> {~(epoch < opt.limit * bestEpoch)}
      [] OTHER                      -> BOOLEAN

\* What stopping_criterion may answer.  The quotient of the relative one is
\* infinite or NaN when best_epoch is 0, and then not less than the limit.
Criterion ==
    CASE opt.criterion = "absolute" -> {epoch - bestEpoch >= opt.limit}
      [] opt.criterion = "relative" -> {~(epoch < opt.limit * bestEpoch)}
      [] OTHER                      -> BOOLEAN

Stop ==
    /\ pc = "stop" /\ epoch > opt.min /\ TRUE \in Criterion
    /\ pc' = "return"
    /\ UNCHANGED <<opt, epoch, net, best, bestEpoch, bestValError, lastEpoch,
                   lastValError, measured, since>>

GoOn ==
    /\ pc = "stop" /\ (epoch <= opt.min \/ FALSE \in Criterion)
    /\ epoch' = epoch + 1
    /\ pc' = EnterLoop(epoch + 1)
    /\ UNCHANGED <<opt, net, best, bestEpoch, bestValError, lastEpoch,
                   lastValError, measured, since>>

Next == \/ ValidateGiven \/ TrainDataset \/ Validate
        \/ KeepBetter \/ KeepForced \/ KeepNothing
        \/ Stop \/ GoOn

Spec == Init /\ [][Next]_vars
-----------------------------------------------------------------------------
TypeOK ==
    /\ pc \in {"call", "train", "validate", "select", "stop", "return"}
    /\ opt \in Options
    /\ epoch \in Nat /\ net \in Nat /\ best \in Nat /\ since \in Nat
    /\ bestEpoch \in Nat /\ lastEpoch \in Nat
    /\ bestValError \in Measures /\ lastValError \in Measures
    /\ measured \in [DOMAIN measured -> Measures]

(***************************************************************************)
(* The error announced as best_val_error is the one measured for the very  *)
(* network returned as best.                                               *)
(***************************************************************************)
BestWasMeasured ==
    pc # "call" => best \in DOMAIN measured /\ bestValError = measured[best]

(***************************************************************************)
(* No network since the last one kept regardless of its error was          *)
(* measured better than best, and best is the first with its error: the    *)
(* clone is replaced neither too seldom nor without need.                  *)
(***************************************************************************)
Settled == pc \in {"train", "stop", "return"}

BestIsLeast ==
    Settled => \A v \in since..net :
                  /\ ~Less(measured[v], bestValError)
                  /\ v < best /\ measured[v] # NaN =>
                        Less(bestValError, measured[v])

(***************************************************************************)
(* Validation never costs anything: unless an epoch disregards it, the     *)
(* network returned is no worse than the one the call was given.           *)
(***************************************************************************)
NoWorseThanGiven ==
    pc = "return" /\ opt.forced < opt.first => ~Less(measured[0], bestValError)

(***************************************************************************)
(* make_max_epochs_wo_imp_absolute(limit): past min_epochs no epoch begins *)
(* after limit epochs without improvement.  When the network given is      *)
(* still the best one limit is passed by one, because best_epoch starts at *)
(* first_epoch, the epoch that has not been trained yet.                   *)
(***************************************************************************)
Patience ==
    pc = "train" /\ opt.criterion = "absolute" /\ epoch - 1 > opt.min /\ net > 0 =>
        net - best < opt.limit + (IF best = 0 THEN 1 ELSE 0)

(***************************************************************************)
(* Why they hold: the inductive invariant.  The networks measured are the  *)
(* ones up to net, net itself only once it was validated; epochs and       *)
(* networks advance together, and best_epoch is the epoch that trained     *)
(* best unless best is the network given; best is the least of those       *)
(* compared so far.                                                        *)
(***************************************************************************)
InEpoch == pc \in {"validate", "select", "stop"}

Epochs ==
    /\ epoch = opt.first + net
                 - (IF InEpoch \/ (pc = "return" /\ epoch <= opt.max) THEN 1 ELSE 0)
    /\ InEpoch => net > 0
    /\ pc = "train" \/ InEpoch => epoch <= opt.max
    /\ bestEpoch = opt.first + best - (IF best = 0 THEN 0 ELSE 1)

Compared == IF pc \in {"validate", "select"} THEN net - 1 ELSE net

Validations ==
    /\ DOMAIN measured = IF pc = "call" THEN {}
                         ELSE IF pc = "validate" THEN 0..(net - 1) ELSE 0..net
    /\ pc = "call" => net = 0 /\ best = 0 /\ since = 0
    /\ pc \in {"select", "stop"} => lastValError = measured[net]
    /\ since <= best /\ best <= Compared
    /\ opt.forced < opt.first => since = 0

LeastSoFar ==
    pc # "call" => \A v \in since..Compared :
                      /\ ~Less(measured[v], bestValError)
                      /\ v < best /\ measured[v] # NaN =>
                            Less(bestValError, measured[v])

HoldoutInv == TypeOK /\ Epochs /\ Validations /\ BestWasMeasured /\ LeastSoFar
=============================================================================
