----------------------------- MODULE BlockingFifo ---------------------------
(***************************************************************************)
(* What a MutexedFIFO promises to the threads that share it: every get and *)
(* every put happens at one instant.  A get takes the oldest item, and is  *)
(* allowed to come back with the default value T() only from an empty      *)
(* queue that is not blocking.  A reset (ProducerFifoWrapper) throws items *)
(* away until it has seen the queue empty.                                 *)
(***************************************************************************)
EXTENDS Sequences, Naturals

CONSTANTS
    Threads,
    Items,
    Zero        \* the value T() that a get with nothing to return returns

VARIABLES
    queue,
    locked,     \* gets from an empty queue block
    call,       \* the call each thread is in: "none", "get" or "reset"
    result      \* what the last get of each thread returned

vars == <<queue, locked, call, result>>

Init ==
    /\ queue = <<>>
    /\ locked = TRUE
    /\ call = [t \in Threads |-> "none"]
    /\ result = [t \in Threads |-> Zero]

Call(t, op) ==
    /\ call[t] = "none"
    /\ call' = [call EXCEPT ![t] = op]
    /\ UNCHANGED <<queue, locked, result>>

Deliver(t) ==
    /\ call[t] = "get" /\ queue # <<>>
    /\ queue' = Tail(queue)
    /\ result' = [result EXCEPT ![t] = Head(queue)]
    /\ call' = [call EXCEPT ![t] = "none"]
    /\ UNCHANGED locked

GiveUp(t) ==
    /\ call[t] = "get" /\ queue = <<>> /\ ~locked
    /\ result' = [result EXCEPT ![t] = Zero]
    /\ call' = [call EXCEPT ![t] = "none"]
    /\ UNCHANGED <<queue, locked>>

Discard(t) ==
    /\ call[t] = "reset" /\ queue # <<>>
    /\ queue' = Tail(queue)
    /\ UNCHANGED <<locked, call, result>>

EndReset(t) ==
    /\ call[t] = "reset" /\ queue = <<>>
    /\ call' = [call EXCEPT ![t] = "none"]
    /\ UNCHANGED <<queue, locked, result>>

Put(v) ==
    /\ queue' = Append(queue, v)
    /\ UNCHANGED <<locked, call, result>>

SetLocked(b) ==
    /\ locked' = b
    /\ UNCHANGED <<queue, call, result>>

Next ==
    \/ \E t \in Threads : \/ Call(t, "get") \/ Call(t, "reset")
                          \/ Deliver(t) \/ GiveUp(t)
                          \/ Discard(t) \/ EndReset(t)
    \/ \E v \in Items : Put(v)
    \/ SetLocked(TRUE) \/ SetLocked(FALSE)

Spec == Init /\ [][Next]_vars
=============================================================================
