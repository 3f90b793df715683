------------------------- MODULE TrainingLoopsProof --------------------------
(***************************************************************************)
(* Proofs about the two training loops of supervised_trainer.              *)
(*                                                                         *)
(* HoldoutTraining: for all options, all validation errors and every       *)
(* stopping criterion, what is kept as the best network is the least of    *)
(* those compared, and its error is the one announced.                     *)
(*                                                                         *)
(* ConvergenceTraining: with a loss that is not negative, the network      *)
(* returned is that of least training error among those accepted since     *)
(* min_epochs, for every fraction and every sequence of errors.            *)
(***************************************************************************)
EXTENDS HoldoutTraining, ConvergenceTraining, TLAPS

\* Less is a strict order on numbers and relates NaN to nothing.
LEMMA LessOrder ==
    ASSUME NEW a \in Measures, NEW b \in Measures, NEW c \in Measures
    PROVE  /\ ~Less(a, a)
           /\ Less(a, b) /\ ~Less(c, b) /\ c # NaN => Less(a, c)
           /\ Less(a, b) => ~Less(b, a) /\ a # NaN
           /\ Less(a, b) /\ ~Less(c, b) => ~Less(c, a)
    BY OptionsAssumption DEF Less, Measures

LEMMA InitInv == Init => HoldoutInv
    <1> SUFFICES ASSUME Init PROVE HoldoutInv
        OBVIOUS
    <1>1. opt \in [first : Nat, max : Nat, min : Nat, forced : Nat,
                   criterion : Criteria, limit : Nat]
        BY OptionsAssumption DEF Init
    <1>2. TypeOK
        BY <1>1 DEF Init, TypeOK, Measures
    <1>3. Epochs
        BY <1>1 DEF Init, Epochs, InEpoch
    <1>4. Validations
        BY DEF Init, Validations, Compared
    <1>5. BestWasMeasured /\ LeastSoFar
        BY DEF Init, BestWasMeasured, LeastSoFar
    <1> QED
        BY <1>2, <1>3, <1>4, <1>5 DEF HoldoutInv

\* The fields of the options.
LEMMA OptFields ==
    ASSUME HoldoutInv
    PROVE  /\ opt.first \in Nat /\ opt.max \in Nat
           /\ opt.min \in Nat /\ opt.forced \in Nat
    BY OptionsAssumption DEF HoldoutInv, TypeOK

\* What the history records of a new measure.
LEMMA MeasuredAfter ==
    ASSUME HoldoutInv, NEW e \in Measures
    PROVE  /\ DOMAIN Measured(net, e) = DOMAIN measured \cup {net}
           /\ Measured(net, e) \in [DOMAIN Measured(net, e) -> Measures]
           /\ Measured(net, e)[net] = e
           /\ \A v \in DOMAIN measured : v # net => Measured(net, e)[v] = measured[v]
    BY DEF HoldoutInv, TypeOK, Measured

LEMMA ValidateGivenInv == HoldoutInv /\ ValidateGiven => HoldoutInv'
    <1> SUFFICES ASSUME HoldoutInv, ValidateGiven PROVE HoldoutInv'
        OBVIOUS
    <1>1. PICK e \in Measures : /\ bestValError' = e
                                /\ lastValError' = e
                                /\ measured' = Measured(net, e)
        BY DEF ValidateGiven
    <1>2. /\ net = 0 /\ best = 0 /\ since = 0 /\ DOMAIN measured = {}
          /\ pc' \in {"train", "return"} /\ best' = 0
          /\ pc' = "train" <=> opt.first <= opt.max
        BY OptFields DEF HoldoutInv, Validations, ValidateGiven, EnterLoop
    <1>3. /\ DOMAIN measured' = 0..0 /\ measured' \in [0..0 -> Measures]
          /\ measured'[0] = e
        BY <1>1, <1>2, MeasuredAfter
    <1>4. TypeOK'
        BY <1>1, <1>2, <1>3 DEF HoldoutInv, TypeOK, ValidateGiven
    <1>5. Epochs'
        BY <1>2, OptFields DEF HoldoutInv, TypeOK, Epochs, InEpoch, ValidateGiven
    <1>6. Validations'
        BY <1>2, <1>3 DEF Validations, Compared, ValidateGiven
    <1>7. BestWasMeasured'
        BY <1>1, <1>2, <1>3 DEF BestWasMeasured, ValidateGiven
    <1>8. LeastSoFar'
        BY <1>1, <1>2, <1>3, LessOrder DEF LeastSoFar, Compared, ValidateGiven
    <1> QED
        BY <1>4, <1>5, <1>6, <1>7, <1>8 DEF HoldoutInv

LEMMA TrainDatasetInv == HoldoutInv /\ TrainDataset => HoldoutInv'
    <1> SUFFICES ASSUME HoldoutInv, TrainDataset PROVE HoldoutInv'
        OBVIOUS
    <1> USE DEF TrainDataset
    <1>1. TypeOK'
        BY DEF HoldoutInv, TypeOK
    <1>2. Epochs'
        BY OptFields DEF HoldoutInv, TypeOK, Epochs, InEpoch
    <1>3. Validations'
        BY DEF HoldoutInv, TypeOK, Validations, Compared
    <1>4. BestWasMeasured'
        BY DEF HoldoutInv, BestWasMeasured
    <1>5. LeastSoFar'
        BY DEF HoldoutInv, TypeOK, LeastSoFar, Compared
    <1> QED
        BY <1>1, <1>2, <1>3, <1>4, <1>5 DEF HoldoutInv

LEMMA ValidateInv == HoldoutInv /\ Validate => HoldoutInv'
    <1> SUFFICES ASSUME HoldoutInv, Validate PROVE HoldoutInv'
        OBVIOUS
    <1>1. PICK e \in Measures : lastValError' = e /\ measured' = Measured(net, e)
        BY DEF Validate
    <1>2. /\ net \in Nat \ {0} /\ DOMAIN measured = 0..(net - 1)
          /\ best \in 0..(net - 1)
        BY DEF HoldoutInv, TypeOK, Epochs, InEpoch, Validations, Compared, Validate
    <1>3. /\ DOMAIN measured' = 0..net /\ measured' \in [0..net -> Measures]
          /\ measured'[net] = e
          /\ \A v \in 0..(net - 1) : measured'[v] = measured[v]
        <2>1. 0..(net - 1) \cup {net} = 0..net
            BY <1>2
        <2>2. /\ DOMAIN measured' = DOMAIN measured \cup {net}
              /\ measured' \in [DOMAIN measured' -> Measures]
              /\ measured'[net] = e
              /\ \A v \in DOMAIN measured : v # net => measured'[v] = measured[v]
            BY <1>1, MeasuredAfter
        <2>3. DOMAIN measured' = 0..net
            BY <1>2, <2>1, <2>2
        <2>4. measured' \in [0..net -> Measures]
            BY <2>2, <2>3
        <2>5. \A v \in 0..(net - 1) : v # net
            BY <1>2
        <2> QED
            BY <1>2, <2>2, <2>3, <2>4, <2>5
    <1>4. TypeOK'
        BY <1>1, <1>3 DEF HoldoutInv, TypeOK, Validate
    <1>5. Epochs'
        BY DEF HoldoutInv, Epochs, InEpoch, Validate
    <1>6. Validations'
        BY <1>1, <1>2, <1>3 DEF HoldoutInv, Validations, Compared, Validate
    <1>7. BestWasMeasured'
        BY <1>2, <1>3 DEF HoldoutInv, BestWasMeasured, Validate
    <1>8. LeastSoFar'
        BY <1>2, <1>3 DEF HoldoutInv, TypeOK, LeastSoFar, Compared, Validate
    <1> QED
        BY <1>4, <1>5, <1>6, <1>7, <1>8 DEF HoldoutInv

\* What is common to the two branches that clone the network.
LEMMA KeepInv ==
    ASSUME HoldoutInv, Keep, pc = "select",
           since' = since \/ (since' = net /\ epoch <= opt.forced),
           since' = since => Less(lastValError, bestValError)
    PROVE  HoldoutInv'
    <1> USE DEF Keep, Clone
    <1>1. /\ net \in Nat \ {0} /\ since \in 0..net /\ DOMAIN measured = 0..net
          /\ lastValError = measured[net] /\ bestValError = measured[best]
          /\ best \in 0..(net - 1)
        BY DEF HoldoutInv, TypeOK, Epochs, InEpoch, Validations, Compared, BestWasMeasured
    <1>2. /\ bestValError \in Measures /\ lastValError \in Measures
          /\ \A v \in 0..net : measured[v] \in Measures
        BY <1>1 DEF HoldoutInv, TypeOK
    <1>3. TypeOK'
        BY <1>1, <1>2 DEF HoldoutInv, TypeOK
    <1>4. Epochs'
        BY <1>1, OptFields DEF HoldoutInv, TypeOK, Epochs, InEpoch
    <1>5. Validations'
        <2>1. epoch >= opt.first
            BY <1>1, OptFields DEF HoldoutInv, TypeOK, Epochs, InEpoch
        <2>2. opt.forced < opt.first => since' = 0
            BY <2>1, OptFields DEF HoldoutInv, TypeOK, Validations
        <2> QED
            BY <1>1, <2>2 DEF HoldoutInv, Validations, Compared
    <1>6. BestWasMeasured'
        BY <1>1 DEF BestWasMeasured
    <1>7. LeastSoFar'
        <2> SUFFICES ASSUME NEW v \in (since')..net
                     PROVE  /\ ~Less(measured[v], lastValError)
                            /\ v < net /\ measured[v] # NaN =>
                                  Less(lastValError, measured[v])
            BY <1>1 DEF LeastSoFar, Compared
        <2>1. CASE v = net
            BY <2>1, <1>1, <1>2, LessOrder
        <2>2. CASE v # net
            <3>1. since' = since /\ v \in since..(net - 1)
                BY <2>2, <1>1
            <3>2. Less(lastValError, bestValError) /\ ~Less(measured[v], bestValError)
                BY <3>1 DEF HoldoutInv, LeastSoFar, Compared
            <3>3. measured[v] \in Measures
                BY <3>1, <1>1, <1>2
            <3> QED
                BY <3>2, <3>3, <1>2, LessOrder
        <2> QED
            BY <2>1, <2>2
    <1> QED
        BY <1>3, <1>4, <1>5, <1>6, <1>7 DEF HoldoutInv

LEMMA KeepNothingInv == HoldoutInv /\ KeepNothing => HoldoutInv'
    <1> SUFFICES ASSUME HoldoutInv, KeepNothing PROVE HoldoutInv'
        OBVIOUS
    <1> USE DEF KeepNothing
    <1>1. /\ net \in Nat \ {0} /\ lastValError = measured[net]
          /\ ~Less(lastValError, bestValError) /\ best \in 0..(net - 1)
          /\ since \in 0..best
        BY DEF HoldoutInv, TypeOK, Epochs, InEpoch, Validations, Compared, Improves
    <1>2. TypeOK'
        BY DEF HoldoutInv, TypeOK
    <1>3. Epochs'
        BY DEF HoldoutInv, Epochs, InEpoch
    <1>4. Validations'
        BY <1>1 DEF HoldoutInv, Validations, Compared
    <1>5. BestWasMeasured'
        BY DEF HoldoutInv, BestWasMeasured
    <1>6. LeastSoFar'
        <2> SUFFICES ASSUME NEW v \in since..net
                     PROVE  /\ ~Less(measured[v], bestValError)
                            /\ v < best /\ measured[v] # NaN =>
                                  Less(bestValError, measured[v])
            BY DEF LeastSoFar, Compared
        <2>1. CASE v = net
            BY <2>1, <1>1
        <2>2. CASE v # net
            BY <2>2, <1>1 DEF HoldoutInv, LeastSoFar, Compared
        <2> QED
            BY <2>1, <2>2
    <1> QED
        BY <1>2, <1>3, <1>4, <1>5, <1>6 DEF HoldoutInv

LEMMA StopInv == HoldoutInv /\ Stop => HoldoutInv'
    <1> SUFFICES ASSUME HoldoutInv, Stop PROVE HoldoutInv'
        OBVIOUS
    <1> USE DEF Stop
    <1>1. TypeOK'
        BY DEF HoldoutInv, TypeOK
    <1>2. Epochs'
        BY DEF HoldoutInv, Epochs, InEpoch
    <1>3. Validations'
        BY DEF HoldoutInv, Validations, Compared
    <1>4. BestWasMeasured'
        BY DEF HoldoutInv, BestWasMeasured
    <1>5. LeastSoFar'
        BY DEF HoldoutInv, LeastSoFar, Compared
    <1> QED
        BY <1>1, <1>2, <1>3, <1>4, <1>5 DEF HoldoutInv

LEMMA GoOnInv == HoldoutInv /\ GoOn => HoldoutInv'
    <1> SUFFICES ASSUME HoldoutInv, GoOn PROVE HoldoutInv'
        OBVIOUS
    <1> USE DEF GoOn, EnterLoop
    <1>1. TypeOK'
        BY DEF HoldoutInv, TypeOK
    <1>2. Epochs'
        BY OptFields DEF HoldoutInv, TypeOK, Epochs, InEpoch
    <1>3. Validations'
        BY DEF HoldoutInv, Validations, Compared
    <1>4. BestWasMeasured'
        BY DEF HoldoutInv, BestWasMeasured
    <1>5. LeastSoFar'
        BY DEF HoldoutInv, LeastSoFar, Compared
    <1> QED
        BY <1>1, <1>2, <1>3, <1>4, <1>5 DEF HoldoutInv

LEMMA NextHoldoutInv == HoldoutInv /\ [Next]_vars => HoldoutInv'
    <1> SUFFICES ASSUME HoldoutInv, [Next]_vars PROVE HoldoutInv'
        OBVIOUS
    <1>1. CASE ValidateGiven
        BY <1>1, ValidateGivenInv
    <1>2. CASE TrainDataset
        BY <1>2, TrainDatasetInv
    <1>3. CASE Validate
        BY <1>3, ValidateInv
    <1>4. CASE KeepBetter
        BY <1>4, KeepInv DEF KeepBetter, Improves
    <1>5. CASE KeepForced
        <2>1. CASE since' = since
            \* since = net is impossible before the selection
            BY <1>5, <2>1 DEF KeepForced, HoldoutInv, TypeOK, Validations, Compared
        <2>2. CASE since' # since
            BY <1>5, <2>2, KeepInv DEF KeepForced, Forced
        <2> QED
            BY <2>1, <2>2
    <1>6. CASE KeepNothing
        BY <1>6, KeepNothingInv
    <1>7. CASE Stop
        BY <1>7, StopInv
    <1>8. CASE GoOn
        BY <1>8, GoOnInv
    <1>9. CASE UNCHANGED vars
        BY <1>9 DEF vars, HoldoutInv, TypeOK, Epochs, InEpoch, Validations,
                    Compared, BestWasMeasured, LeastSoFar
    <1> QED
        BY <1>1, <1>2, <1>3, <1>4, <1>5, <1>6, <1>7, <1>8, <1>9 DEF Next

(***************************************************************************)
(* Every state of a call satisfies the inductive invariant.                *)
(***************************************************************************)
THEOREM HoldoutInvariance == Spec => []HoldoutInv
    BY InitInv, NextHoldoutInv, PTL DEF Spec

(***************************************************************************)
(* best_val_error is the error measured for the network returned as best.  *)
(***************************************************************************)
THEOREM BestErrorIsItsOwn == Spec => []BestWasMeasured
    <1>1. HoldoutInv => BestWasMeasured
        BY DEF HoldoutInv
    <1> QED
        BY <1>1, HoldoutInvariance, PTL

(***************************************************************************)
(* Nothing compared is better than best, and best is the first with its    *)
(* error, whatever order the errors came in and however the call stopped.  *)
(***************************************************************************)
THEOREM BestIsTheLeast == Spec => []BestIsLeast
    <1>1. HoldoutInv => BestIsLeast
        BY DEF HoldoutInv, BestIsLeast, Settled, LeastSoFar, Compared
    <1> QED
        BY <1>1, HoldoutInvariance, PTL

(***************************************************************************)
(* When no epoch disregards validation the network returned is no worse    *)
(* than the one the call was given.                                        *)
(***************************************************************************)
THEOREM TrainingCostsNothing == Spec => []NoWorseThanGiven
    <1>1. HoldoutInv => NoWorseThanGiven
        BY DEF HoldoutInv, TypeOK, NoWorseThanGiven, Validations, LeastSoFar, Compared
    <1> QED
        BY <1>1, HoldoutInvariance, PTL

\* GoOn is the only step that begins an epoch after the first.
LEMMA PatienceStep == HoldoutInv /\ Patience /\ [Next]_vars => Patience'
    <1> SUFFICES ASSUME HoldoutInv, Patience, [Next]_vars PROVE Patience'
        OBVIOUS
    <1>0. /\ opt.first \in Nat /\ opt.min \in Nat /\ opt.limit \in Nat
          /\ epoch \in Nat /\ net \in Nat /\ best \in Nat /\ bestEpoch \in Nat
        <2>1. opt \in [first : Nat, max : Nat, min : Nat, forced : Nat,
                       criterion : Criteria, limit : Nat]
            BY OptionsAssumption DEF HoldoutInv, TypeOK
        <2> QED
            BY <2>1 DEF HoldoutInv, TypeOK
    <1>1. CASE ValidateGiven
        BY <1>1 DEF ValidateGiven, Patience, HoldoutInv, Validations
    <1>2. CASE TrainDataset \/ Validate \/ KeepBetter \/ KeepForced \/ KeepNothing \/ Stop
        BY <1>2 DEF TrainDataset, Validate, KeepBetter, KeepForced, Keep, KeepNothing,
                    Stop, Patience
    <1>3. CASE GoOn
        <2> SUFFICES ASSUME opt.criterion = "absolute", epoch > opt.min, net > 0
                     PROVE  net - best < opt.limit + (IF best = 0 THEN 1 ELSE 0)
            BY <1>3, <1>0 DEF GoOn, Patience
        <2>1. epoch - bestEpoch < opt.limit
            <3>1. FALSE \in Criterion
                <4>1. ~(epoch <= opt.min)
                    BY <1>0
                <4> QED
                    BY <1>3, <4>1, Zenon DEF GoOn
            <3>2. Criterion = {epoch - bestEpoch >= opt.limit}
                BY Zenon DEF Criterion
            <3>3. ~(epoch - bestEpoch >= opt.limit)
                BY <3>1, <3>2, Zenon
            <3> QED
                BY <3>3, <1>0
        <2>2. /\ epoch = opt.first + net - 1
              /\ bestEpoch = opt.first + best - (IF best = 0 THEN 0 ELSE 1)
            BY <1>3 DEF GoOn, HoldoutInv, Epochs, InEpoch
        <2> QED
            BY <2>1, <2>2, <1>0
    <1>4. CASE UNCHANGED vars
        BY <1>4 DEF vars, Patience
    <1> QED
        BY <1>1, <1>2, <1>3, <1>4 DEF Next

(***************************************************************************)
(* Past min_epochs no epoch begins after limit epochs without improvement, *)
(* for every limit and call: one more when nothing has improved yet.       *)
(***************************************************************************)
THEOREM PatienceIsBounded == Spec => []Patience
    <1>1. Init => Patience
        BY DEF Init, Patience
    <1> QED
        BY <1>1, PatienceStep, HoldoutInvariance, PTL DEF Spec
-----------------------------------------------------------------------------
(***************************************************************************)
(* train_wo_validation                                                     *)
(***************************************************************************)
\* A change that is not too little is not a rise.
LEMMA NoRise ==
    ASSUME NEW p \in Nat, NEW e \in Nat, ~TooLittle(p, e)
    PROVE  e <= p
    <1>1. CASE p = 0
        BY <1>1 DEF TooLittle
    <1>2. CASE p > 0
        <2>1. (p - e) * Den >= Num * p
            BY <1>2, ConvergenceAssumption DEF TooLittle
        <2>2. Num * p >= 0
            BY ConvergenceAssumption
        <2>3. ASSUME e > p PROVE FALSE
            <3>1. PICK d \in Nat \ {0} : d = e - p
                BY <2>3
            <3>2. (p - e) * Den = -(d * Den)
                BY <3>1, ConvergenceAssumption
            <3>3. d * Den > 0
                BY <3>1, ConvergenceAssumption
            <3> QED
                BY <2>1, <2>2, <3>2, <3>3, ConvergenceAssumption
        <2> QED
            BY <2>3
    <1> QED
        BY <1>1, <1>2

LEMMA ConvergenceInit ==
    ASSUME WoInit
    PROVE  ConvergenceInv
    <1>1. /\ 0..0 = {0} /\ woBest = 0 /\ woNet = 0 /\ woCall.min \in Nat
          /\ errs \in [{0} -> WoErrors \cup {InitialError}]
        BY ConvergenceAssumption DEF WoInit
    <1>2. WoTypeOK
        BY <1>1 DEF WoInit, WoTypeOK, EnterWoLoop
    <1>3. Position
        BY <1>1 DEF WoInit, Position, EnterWoLoop
    <1>4. LeastOfAll
        BY <1>1, ConvergenceAssumption DEF WoInit, LeastOfAll
    <1> QED
        BY <1>2, <1>3, <1>4 DEF ConvergenceInv

LEMMA ConvergenceStep ==
    ASSUME WoErrors \subseteq Nat, ConvergenceInv, [WoNext]_woVars
    PROVE  ConvergenceInv'
    <1> USE DEF ConvergenceInv
    <1>0. /\ woCall.min \in Nat /\ WoErrors \cup {InitialError} \subseteq Nat
          /\ woBest \in 0..woNet
        BY ConvergenceAssumption DEF WoTypeOK, Position
    <1>1. CASE TrainWoEpoch
        <2>1. PICK e \in WoErrors :
                 /\ err' = e
                 /\ errs' = [v \in 0..(woNet + 1) |-> IF v = woNet + 1 THEN e ELSE errs[v]]
            BY <1>1 DEF TrainWoEpoch
        <2>2. /\ woNet' = woNet + 1 /\ woBest' = woBest /\ woCall' = woCall
              /\ woPc' = "decide" /\ woPc = "train" /\ woEpoch' = woEpoch /\ prevErr' = prevErr
            BY <1>1 DEF TrainWoEpoch
        <2>3. \A v \in 0..woNet : errs'[v] = errs[v]
            BY <2>1, <1>0 DEF WoTypeOK
        <2>4. errs'[woNet + 1] = e
            BY <2>1, <1>0 DEF WoTypeOK
        <2>5. WoTypeOK'
            BY <2>1, <2>2, <1>0 DEF WoTypeOK
        <2>6. Position'
            BY <2>1, <2>2, <2>3, <2>4, <1>0 DEF WoTypeOK, Position
        <2>7. LeastOfAll'
            BY <2>2, <2>3, <1>0 DEF LeastOfAll, WoTypeOK
        <2> QED
            BY <2>5, <2>6, <2>7
    <1>2. CASE Break
        <2>1. WoTypeOK'
            BY <1>2 DEF Break, WoTypeOK
        <2>2. Position'
            BY <1>2 DEF Break, Position
        <2>3. LeastOfAll'
            BY <1>2 DEF Break, LeastOfAll
        <2> QED
            BY <2>1, <2>2, <2>3
    <1>3. CASE Accept
        <2>1. /\ woNet = woBest + 1 /\ woBest' = woNet /\ woCall' = woCall /\ errs' = errs
              /\ prevErr' = err /\ err = errs[woNet] /\ prevErr = errs[woBest]
              /\ woEpoch = woNet /\ woNet \in Nat
              /\ prevErr \in Nat /\ err \in Nat
            BY <1>3, <1>0 DEF Accept, Position, WoTypeOK
        <2>2. WoTypeOK'
            BY <1>3 DEF Accept, WoTypeOK, EnterWoLoop
        <2>3. Position'
            BY <1>3, <2>1 DEF Accept, Position, EnterWoLoop
        <2>4. LeastOfAll'
            <3> SUFFICES ASSUME NEW v \in woCall.min..woNet
                         PROVE  errs[woNet] <= errs[v]
                BY <2>1 DEF LeastOfAll
            <3>1. CASE v = woNet
                BY <3>1, <2>1
            <3>2. CASE v # woNet
                <4>1. v \in woCall.min..woBest /\ woEpoch > woCall.min
                    BY <3>2, <2>1, <1>0
                <4>2. ~TooLittle(prevErr, err)
                    BY <4>1, <1>3 DEF Accept, Converges
                <4>3. err <= prevErr
                    BY <4>2, <2>1, NoRise
                <4>4. errs[woBest] <= errs[v] /\ errs[v] \in Nat
                    BY <4>1, <2>1, <1>0 DEF LeastOfAll, WoTypeOK
                <4> QED
                    BY <4>3, <4>4, <2>1
            <3> QED
                BY <3>1, <3>2
        <2> QED
            BY <2>2, <2>3, <2>4
    <1>4. CASE UNCHANGED woVars
        BY <1>4 DEF woVars, WoTypeOK, Position, LeastOfAll
    <1> QED
        BY <1>1, <1>2, <1>3, <1>4 DEF WoNext

(***************************************************************************)
(* train_wo_validation keeps the best of what it accepted, when the loss   *)
(* is not negative.                                                        *)
(***************************************************************************)
THEOREM ConvergenceKeepsBest ==
    ASSUME WoErrors \subseteq Nat
    PROVE  WoSpec => []LeastAccepted
    <1>0. WoInit => ConvergenceInv
        BY ConvergenceInit
    <1>1. ConvergenceInv /\ [WoNext]_woVars => ConvergenceInv'
        BY ConvergenceStep
    <1>2. ConvergenceInv => LeastAccepted
        BY DEF ConvergenceInv, LeastOfAll, LeastAccepted
    <1> QED
        BY <1>0, <1>1, <1>2, PTL DEF WoSpec

LEMMA StopsStep ==
    ASSUME WoErrors \subseteq Nat, ConvergenceInv, StopsOnConvergence, [WoNext]_woVars
    PROVE  StopsOnConvergence'
    <1>0. /\ woEpoch \in Nat /\ woCall.max \in Nat
          /\ prevErr \in Nat /\ err \in Nat
        BY ConvergenceAssumption DEF ConvergenceInv, WoTypeOK
    <1>1. CASE TrainWoEpoch
        BY <1>1 DEF TrainWoEpoch, StopsOnConvergence
    <1>2. CASE Break
        <2>1. (prevErr - err) * Den <= Num * prevErr
            <3>1. CASE prevErr > 0
                BY <3>1, <1>2, <1>0, ConvergenceAssumption DEF Break, Converges, TooLittle
            <3>2. CASE prevErr = 0
                <4>1. Num * prevErr = 0 /\ prevErr - err = -err
                    BY <3>2, <1>0, ConvergenceAssumption
                <4>2. err * Den >= 0 /\ (-err) * Den = -(err * Den)
                    BY <1>0, ConvergenceAssumption
                <4> QED
                    BY <4>1, <4>2, <1>0, ConvergenceAssumption
            <3> QED
                BY <3>1, <3>2, <1>0
        <2>2. Magnitude(prevErr) = prevErr
            BY <1>0 DEF Magnitude
        <2> QED
            BY <1>2, <2>1, <2>2 DEF Break, StopsOnConvergence, Magnitude
    <1>3. CASE Accept
        BY <1>3, <1>0 DEF Accept, EnterWoLoop, StopsOnConvergence
    <1>4. CASE UNCHANGED woVars
        BY <1>4 DEF woVars, StopsOnConvergence, Magnitude
    <1> QED
        BY <1>1, <1>2, <1>3, <1>4 DEF WoNext

(***************************************************************************)
(* With a loss that is not negative, a call that returns with epochs left  *)
(* has seen an improvement of no more than the fraction.                   *)
(***************************************************************************)
THEOREM EarlyStopIsConvergence ==
    ASSUME WoErrors \subseteq Nat
    PROVE  WoSpec => []StopsOnConvergence
    <1>1. ConvergenceInv /\ [WoNext]_woVars => ConvergenceInv'
        BY ConvergenceStep
    <1>2. ConvergenceInv /\ StopsOnConvergence /\ [WoNext]_woVars => StopsOnConvergence'
        BY StopsStep
    <1>3. WoInit => StopsOnConvergence
        BY ConvergenceAssumption DEF WoInit, EnterWoLoop, StopsOnConvergence
    <1> QED
        BY <1>1, <1>2, <1>3, ConvergenceInit, PTL DEF WoSpec
=============================================================================
