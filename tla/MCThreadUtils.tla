---------------------------- MODULE MCThreadUtils ---------------------------
(***************************************************************************)
(* thread_utils for TLC: one mutexed queue, and two stoppable threads with *)
(* ctrl+c.  A behaviour is one of either, chosen in the initial state,     *)
(* while the other stays as it begins and has nothing to schedule.         *)
(*                                                                         *)
(* With three starts and a ctrl+c a stopped thread starts again while a    *)
(* handler over the other one is on its way to remove it.                  *)
(***************************************************************************)
EXTENDS MutexedFifo, StoppableThreads

VARIABLE part

UtilsInit ==
    /\ part \in {"queue", "threads"}
    /\ Init /\ ThreadsInit
    /\ part = "queue" => self = CHOOSE a \in Object : TRUE

UtilsNext ==
    \/ part = "queue" /\ Next /\ UNCHANGED <<part, threadsVars>>
    \/ part = "threads" /\ ThreadsNext /\ UNCHANGED <<part, vars>>

UtilsSpec ==
    /\ UtilsInit /\ [][UtilsNext]_<<part, vars, threadsVars>>
    /\ Scheduled /\ ThreadsScheduled
=============================================================================
