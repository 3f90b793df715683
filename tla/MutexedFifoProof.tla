-------------------------- MODULE MutexedFifoProof --------------------------
(***************************************************************************)
(* Proofs about MutexedFifo, for any sets of threads and items: the        *)
(* invariant behind the single signal of put, and the refinement of        *)
(* BlockingFifo; and that reset does not sleep when one thread takes items.*)
(***************************************************************************)
EXTENDS MutexedFifo, TLAPS

\* The initial states satisfy the invariant.
LEMMA InitInv == Init => IndInv
BY FifoAssumption
   DEF Init, IndInv, TypeOK, HoldsMutex, WaitsOnEmpty, CallMatches, SomeoneAwake,
       Threads

\* get: entering the call.
LEMMA CallGetInv ==
    ASSUME IndInv, NEW t \in Getters, CallGet(t)
    PROVE  IndInv'
BY FifoAssumption
   DEF CallGet, IndInv, TypeOK, HoldsMutex, WaitsOnEmpty, CallMatches, SomeoneAwake,
       Threads

\* get: taking the mutex.
LEMMA EnterInv ==
    ASSUME IndInv, NEW t \in Threads, Enter(t)
    PROVE  IndInv'
BY FifoAssumption
   DEF Enter, IndInv, TypeOK, HoldsMutex, WaitsOnEmpty, CallMatches, SomeoneAwake

\* get: coming back, whether with an item or with nothing.
LEMMA ReturnInv ==
    ASSUME IndInv, NEW t \in Threads, pc[t] = "test",
           NEW v \in Items \cup {Zero}, Return(t, v),
           queue' \in Seq(Items), locked' = locked,
           queue = <<>> => queue' = <<>>
    PROVE  IndInv'
<1>1. t \in Getters /\ call[t] \in {"get", "reset"} /\ mutex = t
  BY DEF IndInv, TypeOK, CallMatches, HoldsMutex
<1>2. /\ pc' \in [Threads -> {"idle", "lock", "test", "wait", "asleep", "reset",
                              "unlock"}]
      /\ pc'[t] = IF call[t] = "reset" THEN "reset" ELSE "idle"
      /\ \A s \in Threads : s # t => pc'[s] = pc[s]
  BY DEF Return, IndInv, TypeOK
<1>3. /\ call' \in [Threads -> {"none", "get", "reset"}]
      /\ call'[t] = IF call[t] = "reset" THEN "reset" ELSE "none"
      /\ \A s \in Threads : s # t => call'[s] = call[s]
  BY DEF Return, IndInv, TypeOK
<1>4. result' \in [Threads -> Items \cup {Zero}] /\ mutex' = NoThread
  BY DEF Return, IndInv, TypeOK
<1>5. TypeOK'
  BY <1>2, <1>3, <1>4 DEF IndInv, TypeOK
<1>6. HoldsMutex'
  BY <1>1, <1>2, <1>4, FifoAssumption DEF IndInv, HoldsMutex
<1>7. WaitsOnEmpty'
  BY <1>2 DEF IndInv, WaitsOnEmpty
<1>8. CallMatches'
  BY <1>1, <1>2, <1>3 DEF IndInv, CallMatches
<1>9. SomeoneAwake'
  BY <1>1, <1>2 DEF SomeoneAwake
<1>10. QED
  BY <1>5, <1>6, <1>7, <1>8, <1>9 DEF IndInv

LEMMA TakeInv ==
    ASSUME IndInv, NEW t \in Threads, Take(t)
    PROVE  IndInv'
<1>1. queue \in Seq(Items) /\ queue # <<>>
  BY DEF IndInv, TypeOK, Take
<1>2. Head(queue) \in Items /\ Tail(queue) \in Seq(Items)
  BY <1>1
<1>3. QED
  BY <1>1, <1>2, ReturnInv DEF Take

LEMMA GiveUpInv ==
    ASSUME IndInv, NEW t \in Threads, GiveUp(t)
    PROVE  IndInv'
BY ReturnInv DEF GiveUp, IndInv, TypeOK

\* get: deciding to wait, then falling asleep and letting the mutex go.
LEMMA WaitInv ==
    ASSUME IndInv, NEW t \in Threads, DecideToWait(t) \/ Sleep(t)
    PROVE  IndInv'
<1>1. CASE DecideToWait(t)
  BY <1>1, FifoAssumption
     DEF DecideToWait, IndInv, TypeOK, HoldsMutex, WaitsOnEmpty, CallMatches,
         SomeoneAwake
<1>2. CASE Sleep(t)
  BY <1>2, FifoAssumption
     DEF Sleep, IndInv, TypeOK, HoldsMutex, WaitsOnEmpty, CallMatches, SomeoneAwake
<1>3. QED
  BY <1>1, <1>2

LEMMA SpuriousWakeupInv ==
    ASSUME IndInv, NEW t \in Threads, SpuriousWakeup(t)
    PROVE  IndInv'
BY FifoAssumption
   DEF SpuriousWakeup, IndInv, TypeOK, HoldsMutex, WaitsOnEmpty, CallMatches,
       SomeoneAwake

LEMMA ResetInv ==
    ASSUME IndInv, NEW t \in Threads, ResetTest(t) \/ (t \in Getters /\ CallReset(t))
    PROVE  IndInv'
<1>1. CASE ResetTest(t)
  BY <1>1, FifoAssumption
     DEF ResetTest, IndInv, TypeOK, HoldsMutex, WaitsOnEmpty, CallMatches,
         SomeoneAwake
<1>2. CASE t \in Getters /\ CallReset(t)
  BY <1>2, FifoAssumption
     DEF CallReset, IndInv, TypeOK, HoldsMutex, WaitsOnEmpty, CallMatches,
         SomeoneAwake
<1>3. QED
  BY <1>1, <1>2

(***************************************************************************)
(* A signal moves at most one thread, from its sleep to the mutex, and     *)
(* moves one if there is one to move.                                      *)
(***************************************************************************)
LEMMA SignalWakes ==
    ASSUME NEW ready, Signal(ready),
           ready \in [Threads -> {"idle", "lock", "test", "wait", "asleep", "reset",
                                  "unlock"}],
           \A s \in Threads : pc[s] = "asleep" => ready[s] = "asleep"
    PROVE  /\ pc' \in [Threads -> {"idle", "lock", "test", "wait", "asleep", "reset",
                                   "unlock"}]
           /\ \A s \in Threads :
                 pc'[s] # ready[s] => ready[s] = "asleep" /\ pc'[s] = "lock"
           /\ Asleep # {} =>
                 \E s \in Threads : pc[s] = "asleep" /\ pc'[s] = "lock"
<1>1. CASE Asleep = {}
  BY <1>1 DEF Signal
<1>2. CASE Asleep # {}
  <2>1. PICK s \in Asleep : pc' = [ready EXCEPT ![s] = "lock"]
    BY <1>2 DEF Signal
  <2>2. s \in Threads /\ pc[s] = "asleep" /\ ready[s] = "asleep"
    BY DEF Asleep
  <2>3. QED
    BY <2>1, <2>2
<1>3. QED
  BY <1>1, <1>2

\* put: the queue was empty, or somebody was awake already.
LEMMA PutInv ==
    ASSUME IndInv, NEW t \in Putters, NEW v \in Items, Put(t, v)
    PROVE  IndInv'
<1>1. queue \in Seq(Items) /\ Len(queue) \in Nat /\ queue' = Append(queue, v)
  BY DEF Put, IndInv, TypeOK
<1>2. queue' \in Seq(Items) /\ queue' # <<>>
  BY <1>1
<1>3. /\ pc' \in [Threads -> {"idle", "lock", "test", "wait", "asleep", "reset",
                              "unlock"}]
      /\ \A s \in Threads : pc'[s] # pc[s] => pc[s] = "asleep" /\ pc'[s] = "lock"
      /\ queue = <<>> /\ Asleep # {} =>
            \E s \in Threads : pc[s] = "asleep" /\ pc'[s] = "lock"
  <2>1. CASE WorthASignal(Len(queue) + 1)
    <3>1. Signal(pc)
      BY <2>1 DEF Put
    <3>2. QED
      BY <3>1, SignalWakes DEF IndInv, TypeOK
  <2>2. CASE ~WorthASignal(Len(queue) + 1)
    <3>1. pc' = pc
      BY <2>2 DEF Put
    <3>2. queue # <<>>
      BY <2>2, <1>1 DEF WorthASignal
    <3>3. QED
      BY <3>1, <3>2 DEF IndInv, TypeOK
  <2>3. QED
    BY <2>1, <2>2
<1>4. mutex = NoThread /\ UNCHANGED <<mutex, locked, call, result>>
  BY DEF Put
<1>5. TypeOK'
  BY <1>2, <1>3, <1>4 DEF IndInv, TypeOK
<1>6. HoldsMutex'
  BY <1>3, <1>4 DEF IndInv, HoldsMutex
<1>7. \A s \in Threads : pc'[s] # "wait"
  BY <1>3, <1>4, FifoAssumption DEF IndInv, HoldsMutex
<1>8. CallMatches'
  BY <1>3, <1>4 DEF IndInv, CallMatches
<1>9. SomeoneAwake'
  <2>1. CASE queue # <<>>
    BY <2>1, <1>3 DEF IndInv, SomeoneAwake, Threads
  <2>2. CASE queue = <<>> /\ Asleep # {}
    BY <2>2, <1>3 DEF IndInv, CallMatches, SomeoneAwake
  <2>3. CASE Asleep = {}
    BY <2>3, <1>3, FifoAssumption DEF Asleep, SomeoneAwake, Threads
  <2>4. QED
    BY <2>1, <2>2, <2>3
<1>10. QED
  BY <1>5, <1>6, <1>7, <1>8, <1>9 DEF IndInv, WaitsOnEmpty

\* unlock and lock.
LEMMA ControlInv ==
    ASSUME IndInv, NEW t \in Threads,
           UnlockSignal(t) \/ (t \in Controllers /\ (UnlockFlag(t) \/ Lock(t)))
    PROVE  IndInv'
<1>1. CASE UnlockFlag(t)
  BY <1>1, FifoAssumption
     DEF UnlockFlag, IndInv, TypeOK, HoldsMutex, WaitsOnEmpty, CallMatches,
         SomeoneAwake, Threads
<1>2. CASE Lock(t)
  BY <1>2
     DEF Lock, IndInv, TypeOK, HoldsMutex, WaitsOnEmpty, CallMatches, SomeoneAwake
<1>3. CASE UnlockSignal(t)
  <2> DEFINE ready == [pc EXCEPT ![t] = "idle"]
  <2>1. /\ pc[t] = "unlock" /\ Signal(ready)
        /\ UNCHANGED <<queue, mutex, locked, call, result>>
    BY <1>3 DEF UnlockSignal
  <2>2. /\ ready \in [Threads -> {"idle", "lock", "test", "wait", "asleep", "reset",
                                  "unlock"}]
        /\ \A s \in Threads : ready[s] = IF s = t THEN "idle" ELSE pc[s]
    BY DEF IndInv, TypeOK
  <2> HIDE DEF ready
  <2>3. /\ pc' \in [Threads -> {"idle", "lock", "test", "wait", "asleep", "reset",
                                "unlock"}]
        /\ \A s \in Threads :
              pc'[s] # ready[s] => ready[s] = "asleep" /\ pc'[s] = "lock"
    BY <2>1, <2>2, SignalWakes
  <2>4. \A s \in Threads :
           \/ pc'[s] = pc[s]
           \/ pc[s] = "asleep" /\ pc'[s] = "lock"
           \/ pc[s] = "unlock" /\ pc'[s] = "idle"
    BY <2>1, <2>2, <2>3
  <2>5. TypeOK'
    BY <2>1, <2>3 DEF IndInv, TypeOK
  <2>6. HoldsMutex' /\ WaitsOnEmpty'
    BY <2>1, <2>4 DEF IndInv, HoldsMutex, WaitsOnEmpty
  <2>7. CallMatches'
    BY <2>1, <2>4 DEF IndInv, CallMatches
  <2>8. SomeoneAwake'
    BY <2>1, <2>4 DEF IndInv, SomeoneAwake, Threads
  <2>9. QED
    BY <2>5, <2>6, <2>7, <2>8 DEF IndInv
<1>4. QED
  BY <1>1, <1>2, <1>3

LEMMA NextInv == IndInv /\ [Next]_vars => IndInv'
<1> SUFFICES ASSUME IndInv, [Next]_vars
             PROVE  IndInv'
  OBVIOUS
<1>1. CASE UNCHANGED vars
  BY <1>1
     DEF vars, IndInv, TypeOK, HoldsMutex, WaitsOnEmpty, CallMatches, SomeoneAwake
<1>2. CASE \E t \in Threads : Step(t) \/ SpuriousWakeup(t)
  BY <1>2, EnterInv, TakeInv, GiveUpInv, WaitInv, ResetInv, ControlInv,
     SpuriousWakeupInv
     DEF Step
<1>3. CASE \E t \in Getters : CallGet(t) \/ CallReset(t)
  BY <1>3, CallGetInv, ResetInv DEF Threads
<1>4. CASE \E t \in Putters, v \in Items : Put(t, v)
  BY <1>4, PutInv
<1>5. CASE \E t \in Controllers : UnlockFlag(t) \/ Lock(t)
  BY <1>5, ControlInv DEF Threads
<1>6. QED
  BY <1>1, <1>2, <1>3, <1>4, <1>5 DEF Next

(***************************************************************************)
(* The mutex of MutexedFIFO protects the test of the queue and the wait    *)
(* that follows it, whoever the threads are.                               *)
(***************************************************************************)
THEOREM FifoInvariance == Spec => []IndInv
<1>1. Init => IndInv
  BY InitInv
<1>2. IndInv /\ [Next]_vars => IndInv'
  BY NextInv
<1>3. QED
  BY <1>1, <1>2, PTL DEF Spec

(***************************************************************************)
(* The one signal of put is enough for the getters never to be all asleep  *)
(* beside an item.                                                         *)
(***************************************************************************)
THEOREM PutsAreNoticed == Spec => []SomeoneAwake
<1>1. IndInv => SomeoneAwake
  BY DEF IndInv
<1>2. QED
  BY <1>1, FifoInvariance, PTL
-----------------------------------------------------------------------------
\* One thread that takes items: what it saw stays in the queue.
LEMMA OneGetterStep ==
    ASSUME NEW g, Getters = {g}, IndInv, ResetSaw, ResetNeverSleeps, [Next]_vars
    PROVE  ResetSaw' /\ ResetNeverSleeps'
<1> DEFINE Kept == pc'[g] = pc[g] /\ call'[g] = call[g] /\ (queue # <<>> => queue' # <<>>)
<1>1. g \in Threads /\ pc \in [Threads -> {"idle", "lock", "test", "wait", "asleep",
                                           "reset", "unlock"}]
      /\ call \in [Threads -> {"none", "get", "reset"}]
  BY DEF Threads, IndInv, TypeOK
<1>2. CASE Kept
  BY <1>2 DEF ResetSaw, ResetNeverSleeps
<1>3. CASE UNCHANGED vars
  BY <1>3, <1>2 DEF vars
<1>4. ASSUME NEW t \in Threads, Enter(t) \/ DecideToWait(t) \/ Sleep(t)
      PROVE  ResetSaw' /\ ResetNeverSleeps'
  BY <1>4, <1>1 DEF Enter, DecideToWait, Sleep, ResetSaw, ResetNeverSleeps
<1>5. ASSUME NEW t \in Threads, Take(t) \/ GiveUp(t)
      PROVE  ResetSaw' /\ ResetNeverSleeps'
  <2>1. t = g
    BY <1>5 DEF Take, GiveUp, IndInv, CallMatches
  <2>2. pc'[g] \in {"reset", "idle"}
    BY <1>1, <1>5, <2>1 DEF Take, GiveUp, Return
  <2>3. QED
    BY <2>2 DEF ResetSaw, ResetNeverSleeps
<1>6. ASSUME NEW t \in Threads, ResetTest(t) \/ SpuriousWakeup(t)
      PROVE  ResetSaw' /\ ResetNeverSleeps'
  <2>1. t = g
    BY <1>6 DEF ResetTest, SpuriousWakeup, IndInv, CallMatches
  <2>2. QED
    BY <1>1, <1>6, <2>1
       DEF ResetTest, SpuriousWakeup, Drained, ResetSaw, ResetNeverSleeps
<1>7. ASSUME NEW t \in Getters, CallGet(t) \/ CallReset(t)
      PROVE  ResetSaw' /\ ResetNeverSleeps'
  BY <1>7, <1>1 DEF CallGet, CallReset, ResetSaw, ResetNeverSleeps
<1>8. ASSUME NEW t \in Putters, NEW v \in Items, Put(t, v)
      PROVE  ResetSaw' /\ ResetNeverSleeps'
  <2>1. queue \in Seq(Items) /\ queue' = Append(queue, v)
    BY <1>8 DEF Put, IndInv, TypeOK
  <2>2. queue' # <<>>
    BY <2>1
  <2>3. call' = call
    BY <1>8 DEF Put
  <2>4. pc'[g] = pc[g] \/ (pc[g] = "asleep" /\ pc'[g] = "lock")
    <3>1. CASE WorthASignal(Len(queue) + 1)
      BY <1>1, <1>8, <3>1, SignalWakes DEF Put
    <3>2. CASE ~WorthASignal(Len(queue) + 1)
      BY <1>8, <3>2 DEF Put
    <3>3. QED
      BY <3>1, <3>2
  <2>5. QED
    BY <2>2, <2>3, <2>4 DEF ResetSaw, ResetNeverSleeps
<1>9. ASSUME NEW t \in Threads, UnlockFlag(t) \/ Lock(t)
      PROVE  ResetSaw' /\ ResetNeverSleeps'
  BY <1>9, <1>1 DEF UnlockFlag, Lock, ResetSaw, ResetNeverSleeps
<1>10. ASSUME NEW t \in Threads, UnlockSignal(t)
       PROVE  ResetSaw' /\ ResetNeverSleeps'
  <2> DEFINE ready == [pc EXCEPT ![t] = "idle"]
  <2>1. pc[t] = "unlock" /\ Signal(ready) /\ call' = call /\ queue' = queue
    BY <1>10 DEF UnlockSignal
  <2>2. /\ ready \in [Threads -> {"idle", "lock", "test", "wait", "asleep", "reset",
                                  "unlock"}]
        /\ \A s \in Threads : ready[s] = IF s = t THEN "idle" ELSE pc[s]
    BY <1>1
  <2> HIDE DEF ready
  <2>3. pc'[g] # ready[g] => ready[g] = "asleep" /\ pc'[g] = "lock"
    BY <1>1, <2>1, <2>2, SignalWakes
  <2>4. \/ pc'[g] = pc[g] \/ pc'[g] = "idle"
        \/ pc[g] = "asleep" /\ pc'[g] = "lock"
    BY <1>1, <2>2, <2>3
  <2>5. QED
    BY <2>1, <2>4 DEF ResetSaw, ResetNeverSleeps
<1>11. QED
  BY <1>3, <1>4, <1>5, <1>6, <1>7, <1>8, <1>9, <1>10 DEF Next, Step, Threads

(***************************************************************************)
(* ProducerFifoWrapper::reset never sleeps when one thread takes items.    *)
(***************************************************************************)
THEOREM ResetIsNonBlocking ==
    ASSUME NEW CONSTANT g, Getters = {g}
    PROVE  Spec => []ResetNeverSleeps
<1>1. Init => ResetSaw /\ ResetNeverSleeps
  BY DEF Init, ResetSaw, ResetNeverSleeps, Threads
<1>2. IndInv /\ ResetSaw /\ ResetNeverSleeps /\ [Next]_vars
        => ResetSaw' /\ ResetNeverSleeps'
  BY OneGetterStep
<1>3. QED
  BY <1>1, <1>2, FifoInvariance, PTL DEF Spec
-----------------------------------------------------------------------------
\* get comes back: the abstract get, or the discarding get of a reset.
LEMMA TakeMaps ==
    ASSUME IndInv, NEW t \in Threads, Take(t)
    PROVE  Abstract!Deliver(t) \/ Abstract!Discard(t)
<1>1. call[t] \in {"get", "reset"}
  BY DEF Take, IndInv, TypeOK, CallMatches
<1>2. CASE call[t] = "reset"
  BY <1>2 DEF Take, Return, Abstract!Discard
<1>3. CASE call[t] = "get"
  BY <1>3 DEF Take, Return, Abstract!Deliver
<1>4. QED
  BY <1>1, <1>2, <1>3

LEMMA GiveUpMaps ==
    ASSUME IndInv, NEW t \in Threads, GiveUp(t)
    PROVE  Abstract!GiveUp(t) \/ UNCHANGED Abstract!vars
<1>1. call[t] \in {"get", "reset"}
  BY DEF GiveUp, IndInv, TypeOK, CallMatches
<1>2. CASE call[t] = "reset"
  BY <1>2 DEF GiveUp, Return, Abstract!vars
<1>3. CASE call[t] = "get"
  BY <1>3 DEF GiveUp, GivesUp, Return, Abstract!GiveUp
<1>4. QED
  BY <1>1, <1>2, <1>3

LEMMA ResetTestMaps ==
    ASSUME IndInv, NEW t \in Threads, ResetTest(t)
    PROVE  Abstract!EndReset(t) \/ UNCHANGED Abstract!vars
<1>1. call[t] = "reset"
  BY DEF ResetTest, IndInv, CallMatches
<1>2. CASE queue = <<>>
  BY <1>1, <1>2 DEF ResetTest, Drained, Abstract!EndReset
<1>3. CASE queue # <<>>
  BY <1>3 DEF ResetTest, Drained, Abstract!vars
<1>4. QED
  BY <1>2, <1>3

LEMMA StepMaps == IndInv /\ [Next]_vars => [Abstract!Next]_Abstract!vars
<1> SUFFICES ASSUME IndInv, [Next]_vars
             PROVE  [Abstract!Next]_Abstract!vars
  OBVIOUS
<1>1. CASE UNCHANGED vars
  BY <1>1 DEF vars, Abstract!vars
<1>2. ASSUME NEW t \in Threads,
             \/ Enter(t) \/ DecideToWait(t) \/ Sleep(t) \/ SpuriousWakeup(t)
             \/ UnlockSignal(t)
      PROVE  UNCHANGED Abstract!vars
  BY <1>2 DEF Enter, DecideToWait, Sleep, SpuriousWakeup, UnlockSignal, Abstract!vars
<1>3. ASSUME NEW t \in Threads, Take(t)
      PROVE  [Abstract!Next]_Abstract!vars
  BY <1>3, TakeMaps DEF Abstract!Next
<1>4. ASSUME NEW t \in Threads, GiveUp(t)
      PROVE  [Abstract!Next]_Abstract!vars
  BY <1>4, GiveUpMaps DEF Abstract!Next
<1>5. ASSUME NEW t \in Threads, ResetTest(t)
      PROVE  [Abstract!Next]_Abstract!vars
  BY <1>5, ResetTestMaps DEF Abstract!Next
<1>6. ASSUME NEW t \in Getters, CallGet(t) \/ CallReset(t)
      PROVE  [Abstract!Next]_Abstract!vars
  <2>1. t \in Threads /\ call[t] = "none"
    BY <1>6 DEF Threads, CallGet, CallReset, IndInv, CallMatches
  <2>2. Abstract!Call(t, "get") \/ Abstract!Call(t, "reset")
    BY <1>6, <2>1 DEF CallGet, CallReset, Abstract!Call
  <2>3. QED
    BY <2>1, <2>2 DEF Abstract!Next
<1>7. ASSUME NEW t \in Putters, NEW v \in Items, Put(t, v)
      PROVE  [Abstract!Next]_Abstract!vars
  <2>1. Abstract!Put(v)
    BY <1>7 DEF Put, Abstract!Put
  <2>2. QED
    BY <2>1 DEF Abstract!Next
<1>8. ASSUME NEW t \in Controllers, UnlockFlag(t)
      PROVE  [Abstract!Next]_Abstract!vars
  <2>1. Abstract!SetLocked(FALSE)
    BY <1>8 DEF UnlockFlag, Abstract!SetLocked
  <2>2. QED
    BY <2>1 DEF Abstract!Next
<1>9. ASSUME NEW t \in Controllers, Lock(t)
      PROVE  [Abstract!Next]_Abstract!vars
  <2>1. Abstract!SetLocked(TRUE)
    BY <1>9 DEF Lock, Abstract!SetLocked
  <2>2. QED
    BY <2>1 DEF Abstract!Next
<1>10. QED
  BY <1>1, <1>2, <1>3, <1>4, <1>5, <1>6, <1>7, <1>8, <1>9 DEF Next, Step

(***************************************************************************)
(* MutexedFIFO implements BlockingFifo, whoever the threads are: the       *)
(* operations appear instantaneous, items come out in the order they went  *)
(* in, and only a fifo that does not block hands out T().                  *)
(***************************************************************************)
THEOREM FifoRefinement == Spec => ImplementsBlockingFifo
<1>1. Init => Abstract!Init
  BY DEF Init, Abstract!Init
<1>2. IndInv /\ [Next]_vars => [Abstract!Next]_Abstract!vars
  BY StepMaps
<1>3. QED
  BY <1>1, <1>2, FifoInvariance, PTL DEF Spec, ImplementsBlockingFifo, Abstract!Spec
=============================================================================
