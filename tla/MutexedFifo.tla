----------------------------- MODULE MutexedFifo ----------------------------
(***************************************************************************)
(* MutexedFIFO (thread_utils/c_src/mutexed_fifo.h) and the                 *)
(* ProducerFifoWrapper that gives it to Lua: a queue behind a mutex, with  *)
(* a condition variable for the readers that find it empty.                *)
(*                                                                         *)
(* What runs under the mutex without letting it go is one step, except in  *)
(* get: the flag "locked" is written by lock and unlock without the mutex, *)
(* so that its test and the wait that follows are two steps.               *)
(*                                                                         *)
(* pthread_cond_wait releases the mutex and sleeps in one step; the thread *)
(* that pthread_cond_signal chooses has to take the mutex again before it  *)
(* goes on, and a sleeper may wake without a signal.                       *)
(***************************************************************************)
EXTENDS Sequences, Naturals

CONSTANTS
    Getters,        \* threads that call get and reset
    Putters,        \* threads that call put
    Controllers,    \* threads that call unlock and lock
    Items,          \* what is put
    Zero,           \* T(), the null pointer
    NoThread,       \* the mutex is free
    MaxQueue        \* bound: length of the queue

Threads == Getters \cup Putters \cup Controllers

ASSUME FifoAssumption ==
    /\ NoThread \notin Threads
    /\ Getters # {}
    /\ Zero \notin Items
    /\ MaxQueue \in Nat

VARIABLES
    queue,          \* MutexedFIFO::queue
    mutex,          \* the thread that holds fifo_mutex between two steps
    locked,         \* MutexedFIFO::locked
    pc,             \* where each thread is
    call,           \* the call a getter is in
    result          \* what its last get returned

vars == <<queue, mutex, locked, pc, call, result>>

\* The threads in pthread_cond_wait.
Asleep == {t \in Threads : pc[t] = "asleep"}

InGet(t) == pc[t] \in {"lock", "test", "wait", "asleep"}
-----------------------------------------------------------------------------
Init ==
    /\ queue = <<>>
    /\ mutex = NoThread
    /\ locked = TRUE
    /\ pc = [t \in Threads |-> "idle"]
    /\ call = [t \in Threads |-> "none"]
    /\ result = [t \in Threads |-> Zero]

(***************************************************************************)
(* get                                                                     *)
(***************************************************************************)
CallGet(t) ==
    /\ pc[t] = "idle"
    /\ pc' = [pc EXCEPT ![t] = "lock"]
    /\ call' = [call EXCEPT ![t] = "get"]
    /\ UNCHANGED <<queue, mutex, locked, result>>

\* The mutex is taken, at the start of get or by a thread that woke up.
Enter(t) ==
    /\ pc[t] = "lock" /\ mutex = NoThread
    /\ mutex' = t
    /\ pc' = [pc EXCEPT ![t] = "test"]
    /\ UNCHANGED <<queue, locked, call, result>>

\* get returns v: to its caller, or to the loop of reset, which deletes it.
Return(t, v) ==
    /\ mutex' = NoThread
    /\ IF call[t] = "reset"
          THEN /\ pc' = [pc EXCEPT ![t] = "reset"]
               /\ UNCHANGED <<call, result>>
          ELSE /\ pc' = [pc EXCEPT ![t] = "idle"]
               /\ call' = [call EXCEPT ![t] = "none"]
               /\ result' = [result EXCEPT ![t] = v]

Take(t) ==
    /\ pc[t] = "test" /\ queue # <<>>
    /\ queue' = Tail(queue)
    /\ Return(t, Head(queue))
    /\ UNCHANGED locked

\* Mutant: an empty queue never blocks.
GivesUpAlways(isLocked) == TRUE

GivesUp(isLocked) == ~isLocked

GiveUp(t) ==
    /\ pc[t] = "test" /\ queue = <<>> /\ GivesUp(locked)
    /\ Return(t, Zero)
    /\ UNCHANGED <<queue, locked>>

DecideToWait(t) ==
    /\ pc[t] = "test" /\ queue = <<>> /\ locked
    /\ pc' = [pc EXCEPT ![t] = "wait"]
    /\ UNCHANGED <<queue, mutex, locked, call, result>>

\* Mutant: the wait does not let go of the mutex.
SleepHolding(t) ==
    /\ pc[t] = "wait"
    /\ pc' = [pc EXCEPT ![t] = "asleep"]
    /\ UNCHANGED <<queue, mutex, locked, call, result>>

Sleep(t) ==
    /\ pc[t] = "wait"
    /\ mutex' = NoThread
    /\ pc' = [pc EXCEPT ![t] = "asleep"]
    /\ UNCHANGED <<queue, locked, call, result>>

SpuriousWakeup(t) ==
    /\ pc[t] = "asleep"
    /\ pc' = [pc EXCEPT ![t] = "lock"]
    /\ UNCHANGED <<queue, mutex, locked, call, result>>
-----------------------------------------------------------------------------
(***************************************************************************)
(* ProducerFifoWrapper::reset: while (!empty()) delete[] get().  The two   *)
(* calls take the mutex one after the other.                               *)
(***************************************************************************)
CallReset(t) ==
    /\ pc[t] = "idle"
    /\ pc' = [pc EXCEPT ![t] = "reset"]
    /\ call' = [call EXCEPT ![t] = "reset"]
    /\ UNCHANGED <<queue, mutex, locked, result>>

\* Mutant: the loop of reset gets before it looks.
DrainedNever(q) == FALSE

Drained(q) == q = <<>>

ResetTest(t) ==
    /\ pc[t] = "reset" /\ mutex = NoThread
    /\ IF Drained(queue)
          THEN /\ pc' = [pc EXCEPT ![t] = "idle"]
               /\ call' = [call EXCEPT ![t] = "none"]
          ELSE /\ pc' = [pc EXCEPT ![t] = "lock"]
               /\ UNCHANGED call
    /\ UNCHANGED <<queue, mutex, locked, result>>
-----------------------------------------------------------------------------
(***************************************************************************)
(* put, unlock and lock.                                                   *)
(***************************************************************************)
\* pthread_cond_signal wakes a sleeper, if there is one; ready is pc without
\* the wakeup.
Signal(ready) ==
    IF Asleep = {}
    THEN pc' = ready
    ELSE \E s \in Asleep : pc' = [ready EXCEPT ![s] = "lock"]

\* Mutant: the size is compared before the item is in.
WorthASignalBefore(size) == size = 2

WorthASignal(size) == size = 1

Put(t, v) ==
    /\ pc[t] = "idle" /\ mutex = NoThread
    /\ Len(queue) < MaxQueue
    /\ queue' = Append(queue, v)
    /\ IF WorthASignal(Len(queue) + 1) THEN Signal(pc) ELSE UNCHANGED pc
    /\ UNCHANGED <<mutex, locked, call, result>>

\* unlock writes the flag and then signals, without the mutex.
UnlockFlag(t) ==
    /\ pc[t] = "idle"
    /\ locked' = FALSE
    /\ pc' = [pc EXCEPT ![t] = "unlock"]
    /\ UNCHANGED <<queue, mutex, call, result>>

UnlockSignal(t) ==
    /\ pc[t] = "unlock"
    /\ Signal([pc EXCEPT ![t] = "idle"])
    /\ UNCHANGED <<queue, mutex, locked, call, result>>

Lock(t) ==
    /\ pc[t] = "idle"
    /\ locked' = TRUE
    /\ UNCHANGED <<queue, mutex, pc, call, result>>
-----------------------------------------------------------------------------
\* What a thread inside a call does on its own.
Step(t) ==
    \/ Enter(t) \/ Take(t) \/ GiveUp(t) \/ DecideToWait(t) \/ Sleep(t)
    \/ ResetTest(t) \/ UnlockSignal(t)

Next ==
    \/ \E t \in Threads : Step(t) \/ SpuriousWakeup(t)
    \/ \E t \in Getters : CallGet(t) \/ CallReset(t)
    \/ \E t \in Putters, v \in Items : Put(t, v)
    \/ \E t \in Controllers : UnlockFlag(t) \/ Lock(t)

Spec == Init /\ [][Next]_vars

\* A thread that is neither asleep nor kept out of the mutex goes on (put is
\* one step).  No thread has to make a call, and no sleeper has to wake by
\* itself.
Scheduled == \A t \in Getters \cup Controllers : WF_vars(Step(t))
-----------------------------------------------------------------------------
TypeOK ==
    /\ queue \in Seq(Items)
    /\ mutex \in Threads \cup {NoThread}
    /\ locked \in BOOLEAN
    /\ pc \in [Threads -> {"idle", "lock", "test", "wait", "asleep", "reset",
                           "unlock"}]
    /\ call \in [Threads -> {"none", "get", "reset"}]
    /\ result \in [Threads -> Items \cup {Zero}]

(***************************************************************************)
(* put signals only when it finds the queue empty.  That is enough for one *)
(* thing: the getters are never all asleep with items in the queue.        *)
(***************************************************************************)
SomeoneAwake ==
    queue # <<>> => \E t \in Getters : pc[t] # "asleep"

(***************************************************************************)
(* reset looks and takes in two critical sections.  When only one thread   *)
(* takes items, what it has seen is still there and reset never sleeps.    *)
(***************************************************************************)
ResetNeverSleeps ==
    \A t \in Getters : call[t] = "reset" => pc[t] \notin {"wait", "asleep"}

(***************************************************************************)
(* The comment of unlock: it unblocks the fifo and wakes the threads that  *)
(* sleep.  When unlock has returned and the fifo does not block, nobody    *)
(* sleeps in get.                                                          *)
(***************************************************************************)
UnlockWakesAll ==
    ~locked /\ (\A t \in Threads : pc[t] # "unlock") => Asleep = {}

(***************************************************************************)
(* A get that is called, or already asleep, when there is an item in the   *)
(* queue returns.                                                          *)
(***************************************************************************)
GetReturns ==
    \A t \in Getters : call[t] = "get" /\ queue # <<>> ~> call[t] = "none"

\* Why the properties hold: who has the mutex, and what it keeps unchanged.
HoldsMutex ==
    \A t \in Threads : mutex = t <=> pc[t] \in {"test", "wait"}

WaitsOnEmpty ==
    \A t \in Threads : pc[t] = "wait" => queue = <<>>

CallMatches ==
    \A t \in Threads :
        /\ pc[t] \in {"idle", "unlock"} <=> call[t] = "none"
        /\ pc[t] = "reset" => call[t] = "reset"
        /\ pc[t] = "asleep" => t \in Getters
        /\ call[t] # "none" => t \in Getters

IndInv ==
    /\ TypeOK
    /\ HoldsMutex
    /\ WaitsOnEmpty
    /\ CallMatches
    /\ SomeoneAwake

\* Why reset does not sleep: what its last look showed is still true.
ResetSaw ==
    \A t \in Getters : call[t] = "reset" /\ pc[t] \in {"lock", "test"} => queue # <<>>

(***************************************************************************)
(* The threads see one queue whose operations are instantaneous.           *)
(***************************************************************************)
Abstract == INSTANCE BlockingFifo

ImplementsBlockingFifo == Abstract!Spec
=============================================================================
