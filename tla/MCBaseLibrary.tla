---------------------------- MODULE MCBaseLibrary ---------------------------
(***************************************************************************)
(* Instances for TLC of four parts of the base library that share no       *)
(* state: block queues, the time-stamped hash, mirrored memory and context *)
(* windows.  A behaviour is one of one part, chosen in the initial state,  *)
(* while the other parts stay as they begin.                               *)
(***************************************************************************)
EXTENDS FifoBlock, TimestampHash, MirroredBlock, ContextWindow

VARIABLE part

ASSUME LibraryAssumption == FifoAssumption /\ HashAssumption

\* Keys that collide in a table of four buckets, and steps that differ.
MCHash(k) == CASE k = 1 -> 1 [] k = 2 -> 5 [] k = 3 -> 2 ^ 15 + 1 [] k = 4 -> 3 * 2 ^ 15 + 5

LibraryInit ==
    /\ part \in {"queues", "table", "block", "windows"}
    /\ FifoInit /\ HashInit /\ BlockInit /\ WindowInit
    /\ part # "windows" => before = 1 /\ after = 0 /\ length = 0

QueuesNext ==
    part = "queues" /\ FifoNext /\ UNCHANGED <<part, hashVars, blockVars, windowVars>>
TableNext ==
    part = "table" /\ HashNext /\ UNCHANGED <<part, fifoVars, blockVars, windowVars>>
MemoryNext ==
    part = "block" /\ BlockNext /\ UNCHANGED <<part, fifoVars, hashVars, windowVars>>
WindowsNext ==
    part = "windows" /\ WindowNext /\ UNCHANGED <<part, fifoVars, hashVars, blockVars>>

LibraryNext == QueuesNext \/ TableNext \/ MemoryNext \/ WindowsNext

libraryVars == <<part, fifoVars, hashVars, blockVars, windowVars>>

LibrarySpec == LibraryInit /\ [][LibraryNext]_libraryVars
=============================================================================
