-------------------------- MODULE BaseLibraryProof ---------------------------
(***************************************************************************)
(* Proofs about parts of the base library.                                 *)
(*                                                                         *)
(* MirroredBlock: either side of a mirrored block shows the last value     *)
(* written in each cell it has not lost, for blocks of any size and any    *)
(* values.                                                                 *)
(*                                                                         *)
(* StoppableThreads: a thread is joined before its object is deleted, and  *)
(* one that runs is in the list of ctrl+c but for the exceptions that      *)
(* ReachedByCtrlC names, for any objects and any number of starts and      *)
(* signals.  Each action is an instance of Owner, Thread or Handler, which *)
(* say who moves; the invariant is proved group of actions by group.       *)
(*                                                                         *)
(* ContextWindow: for windows of any width and sequences of any length     *)
(* that end_input finds either not ready or filling the vector.            *)
(*                                                                         *)
(* FifoBlock and TimestampHash: for blocks of any size, any queues and     *)
(* elements, and for any keys, hash function, largest stamp and load       *)
(* factor up to nine tenths.  A function defined by recursion (the copy of *)
(* a queue, the powers of 2, the table while it is rehashed) is shown to   *)
(* exist, and its values to have a property, by induction over a set of    *)
(* numbers.                                                                *)
(***************************************************************************)
EXTENDS MirroredBlock, StoppableThreads, FifoBlock, TimestampHash, ContextWindow,
        FiniteSetTheorems, TLAPS

LEMMA MirrorInit == BlockInit => MirrorInv
    BY DEF BlockInit, MirrorInv, ShowsLastWritten, Blank, Side

\* A side that is brought up to date shows what the other one shows.
LEMMA RefreshShows ==
    ASSUME MirrorInv, NEW s \in Side
    PROVE  /\ Refreshed(s) \in [Side -> [Cell -> Value \cup {Garbage}]]
           /\ LostAfterRefresh(s) \in [Side -> SUBSET Cell]
           /\ \A x \in updated \cup {s} : \A c \in Cell \ LostAfterRefresh(s)[x] :
                 Refreshed(s)[x][c] = contents[c]
    <1>1. CASE s \in updated
        BY <1>1 DEF MirrorInv, ShowsLastWritten, Refreshed, LostAfterRefresh
    <1>2. CASE s \notin updated
        <2>1. Other(s) \in updated /\ Other(s) \in Side
            BY <1>2 DEF MirrorInv, ShowsLastWritten, Side, Other
        <2>2. /\ Refreshed(s) = [mem EXCEPT ![s] = mem[Other(s)]]
              /\ LostAfterRefresh(s) = [lost EXCEPT ![s] = lost[Other(s)]]
            BY <1>2 DEF Refreshed, LostAfterRefresh
        <2> QED
            BY <2>1, <2>2 DEF MirrorInv, ShowsLastWritten
    <1> QED
        BY <1>1, <1>2

\* What the last values become.
LEMMA RecordsShows ==
    ASSUME MirrorInv, NEW part \in SUBSET Cell, NEW vals \in [part -> Value],
           Records(part, vals)
    PROVE  /\ contents' \in [Cell -> Value \cup {Garbage}]
           /\ \A c \in part : contents'[c] = vals[c]
           /\ \A c \in Cell \ part : contents'[c] = contents[c]
    BY DEF Records, MirrorInv

LEMMA MirrorStep ==
    ASSUME MirrorInv, [BlockNext]_blockVars
    PROVE  MirrorInv'
    <1>1. ASSUME NEW s \in Side, GetForRead(s)
          PROVE  MirrorInv'
        <2>1. /\ mem' \in [Side -> [Cell -> Value \cup {Garbage}]]
              /\ lost' \in [Side -> SUBSET Cell]
              /\ \A x \in updated' : \A c \in Cell \ lost'[x] : mem'[x][c] = contents'[c]
            <3>1. /\ mem' = Refreshed(s) /\ lost' = LostAfterRefresh(s)
                  /\ updated' = updated \cup {s} /\ contents' = contents
                BY <1>1 DEF GetForRead
            <3> QED
                BY <3>1, RefreshShows
        <2>2. /\ updated' # {} /\ updated' \subseteq Side
              /\ "gpu" \in updated' => allocated'
              /\ contents' = contents
            BY <1>1 DEF GetForRead, MirrorInv, ShowsLastWritten, Side
        <2> QED
            BY <2>1, <2>2 DEF MirrorInv, ShowsLastWritten
    <1>2. ASSUME NEW part \in SUBSET Cell, NEW vals \in [part -> Value],
                 GetPPALForWrite(part, vals)
          PROVE  MirrorInv'
        <2>1. "ppal" \in Side /\ mem \in [Side -> [Cell -> Value \cup {Garbage}]]
            BY DEF Side, MirrorInv
        <2>2. /\ mem' \in [Side -> [Cell -> Value \cup {Garbage}]]
              /\ \A c \in part : mem'["ppal"][c] = vals[c]
              /\ \A c \in Cell \ part : mem'["ppal"][c] = mem["ppal"][c]
            BY <1>2, <2>1 DEF GetPPALForWrite, Written
        <2>3. /\ contents' \in [Cell -> Value \cup {Garbage}]
              /\ \A c \in part : contents'[c] = vals[c]
              /\ \A c \in Cell \ part : contents'[c] = contents[c]
            BY <1>2, RecordsShows DEF GetPPALForWrite
        <2>4. /\ updated' = {"ppal"}
              /\ lost' \in [Side -> SUBSET Cell]
              /\ lost'["ppal"] = IF "ppal" \in updated THEN lost["ppal"] \ part
                                 ELSE Cell \ part
            BY <1>2, <2>1 DEF GetPPALForWrite, MirrorInv
        <2>5. \A c \in Cell \ lost'["ppal"] : mem'["ppal"][c] = contents'[c]
            BY <2>2, <2>3, <2>4 DEF MirrorInv, ShowsLastWritten
        <2> QED
            BY <2>1, <2>2, <2>3, <2>4, <2>5 DEF MirrorInv, ShowsLastWritten
    <1>3. ASSUME NEW part \in SUBSET Cell, NEW vals \in [part -> Value],
                 GetGPUForWrite(part, vals)
          PROVE  MirrorInv'
        <2>1. /\ "ppal" \in Side /\ "gpu" \in Side
              /\ ~allocated => updated = {"ppal"}
            BY DEF Side, MirrorInv, ShowsLastWritten
        <2>2. FreshOrAllocated \in [Side -> [Cell -> Value \cup {Garbage}]]
            BY <2>1 DEF FreshOrAllocated, MirrorInv
        <2>3. /\ mem' \in [Side -> [Cell -> Value \cup {Garbage}]]
              /\ \A c \in part : mem'["gpu"][c] = vals[c]
              /\ \A c \in Cell \ part : mem'["gpu"][c] = FreshOrAllocated["gpu"][c]
            BY <1>3, <2>1, <2>2 DEF GetGPUForWrite, Written
        <2>4. /\ contents' \in [Cell -> Value \cup {Garbage}]
              /\ \A c \in part : contents'[c] = vals[c]
              /\ \A c \in Cell \ part : contents'[c] = contents[c]
            BY <1>3, RecordsShows DEF GetGPUForWrite
        <2>5. /\ updated' = {"gpu"} /\ allocated' = TRUE
              /\ lost' \in [Side -> SUBSET Cell]
              /\ lost'["gpu"] = IF ~allocated THEN lost["ppal"] \ part
                                ELSE IF "gpu" \in updated THEN lost["gpu"] \ part
                                ELSE Cell \ part
            BY <1>3, <2>1 DEF GetGPUForWrite, MirrorInv
        <2>6. ASSUME NEW c \in Cell \ lost'["gpu"]
              PROVE  mem'["gpu"][c] = contents'[c]
            <3>1. CASE c \in part
                BY <3>1, <2>3, <2>4
            <3>2. CASE c \notin part /\ ~allocated
                <4>1. FreshOrAllocated["gpu"] = mem["ppal"]
                    BY <3>2, <2>1 DEF FreshOrAllocated, MirrorInv
                <4> QED
                    BY <3>2, <4>1, <2>1, <2>3, <2>4, <2>5 DEF MirrorInv, ShowsLastWritten
            <3>3. CASE c \notin part /\ allocated
                BY <3>3, <2>1, <2>3, <2>4, <2>5
                    DEF FreshOrAllocated, MirrorInv, ShowsLastWritten
            <3> QED
                BY <3>1, <3>2, <3>3
        <2> QED
            BY <2>1, <2>3, <2>4, <2>5, <2>6 DEF MirrorInv, ShowsLastWritten
    <1>4. ASSUME NEW s \in Side, NEW part \in SUBSET Cell,
                 NEW vals \in [part -> Value], GetForReadAndWrite(s, part, vals)
          PROVE  MirrorInv'
        <2>1. /\ Refreshed(s) \in [Side -> [Cell -> Value \cup {Garbage}]]
              /\ LostAfterRefresh(s) \in [Side -> SUBSET Cell]
              /\ \A c \in Cell \ LostAfterRefresh(s)[s] : Refreshed(s)[s][c] = contents[c]
            BY RefreshShows
        <2>2. /\ mem' \in [Side -> [Cell -> Value \cup {Garbage}]]
              /\ \A c \in part : mem'[s][c] = vals[c]
              /\ \A c \in Cell \ part : mem'[s][c] = Refreshed(s)[s][c]
            BY <1>4, <2>1 DEF GetForReadAndWrite, Written
        <2>3. /\ contents' \in [Cell -> Value \cup {Garbage}]
              /\ \A c \in part : contents'[c] = vals[c]
              /\ \A c \in Cell \ part : contents'[c] = contents[c]
            BY <1>4, RecordsShows DEF GetForReadAndWrite
        <2>4. /\ updated' = {s} /\ (s = "gpu" => allocated')
              /\ lost' \in [Side -> SUBSET Cell]
              /\ lost'[s] = LostAfterRefresh(s)[s] \ part
            BY <1>4, <2>1 DEF GetForReadAndWrite
        <2>5. \A c \in Cell \ lost'[s] : mem'[s][c] = contents'[c]
            BY <2>1, <2>2, <2>3, <2>4
        <2> QED
            BY <2>2, <2>3, <2>4, <2>5 DEF MirrorInv, ShowsLastWritten
    <1>5. CASE PinnedMemoryPageLock
        BY <1>5 DEF PinnedMemoryPageLock, MirrorInv, ShowsLastWritten, Blank, Side
    <1>6. CASE UNCHANGED blockVars
        BY <1>6 DEF blockVars, MirrorInv, ShowsLastWritten
    <1> QED
        BY <1>1, <1>2, <1>3, <1>4, <1>5, <1>6 DEF BlockNext

(***************************************************************************)
(* Either side that is up to date shows the last value written of every    *)
(* cell it has not lost, for any block and any sequence of calls.          *)
(***************************************************************************)
THEOREM EitherSideShowsTheLast == BlockSpec => []ShowsLastWritten
    <1>1. MirrorInv /\ [BlockNext]_blockVars => MirrorInv'
        BY MirrorStep
    <1>2. MirrorInv => ShowsLastWritten
        BY DEF MirrorInv
    <1> QED
        BY <1>1, <1>2, MirrorInit, PTL DEF BlockSpec
-----------------------------------------------------------------------------
(***************************************************************************)
(* Threads and the ctrl+c handlers                                         *)
(***************************************************************************)
LEMMA ThreadsBegin == ThreadsInit => ThreadsInv
    <1> SUFFICES ASSUME ThreadsInit PROVE ThreadsInv
        OBVIOUS
    <1> USE DEF ThreadsInit, Carrier
    <1>1. ThreadTypes
        BY DEF ThreadTypes
    <1>2. Interrupted /\ Joining /\ Stopping
        BY DEF Interrupted, Joining, Stopping
    <1>3. ReachedByCtrlC
        BY DEF ReachedByCtrlC
    <1> QED
        BY <1>1, <1>2, <1>3 DEF ThreadsInv

\* A method begins.
LEMMA ScriptStep ==
    ASSUME ThreadsInv, Script
    PROVE  ThreadsInv'
    <1> PICK a \in Object : StartThread(a) \/ StopThread(a) \/ WaitThread(a) \/ Destructor(a)
        BY DEF Script
    <1> USE DEF StartThread, StopThread, WaitThread, Destructor, Call, Owner
    <1> ThreadTypes /\ Interrupted /\ Joining /\ Stopping /\ ReachedByCtrlC
        BY DEF ThreadsInv
    <1>1. ThreadTypes'
        BY DEF ThreadTypes
    <1>2. Interrupted'
        BY DEF Interrupted
    <1>3. Joining'
        BY DEF ThreadTypes, Joining, Stopping
    <1>4. Stopping'
        BY DEF ThreadTypes, Joining, Stopping
    <1>5. ReachedByCtrlC'
        BY DEF ReachedByCtrlC, Starting
    <1> QED
        BY <1>1, <1>2, <1>3, <1>4, <1>5 DEF ThreadsInv

\* Begin is where running becomes true; a handler that is about to remove
\* the object is noted as overtaken.
LEMMA BeginStep ==
    ASSUME ThreadsInv, Begin
    PROVE  ThreadsInv'
    <1> USE DEF Begin, Owner
    <1> ThreadTypes /\ Interrupted /\ Joining /\ Stopping /\ ReachedByCtrlC
        BY DEF ThreadsInv
    <1>1. ThreadTypes'
        BY DEF ThreadTypes
    <1>2. Interrupted'
        BY DEF Interrupted
    <1>3. Joining'
        BY DEF ThreadTypes, Joining
    <1>4. Stopping'
        <2>1. ASSUME NEW w \in Carrier, handler[w] = "remove", running'[target[w]]
              PROVE  target[w] \in overtaken'
            <3>1. CASE target[w] = self
                BY <2>1, <3>1
            <3>2. CASE target[w] # self
                <4>1. running[target[w]]
                    BY <2>1, <3>2 DEF ThreadTypes, Interrupted
                <4> QED
                    BY <2>1, <3>2, <4>1 DEF Stopping
            <3> QED
                BY <3>1, <3>2
        <2> QED
            BY <2>1 DEF Stopping
    <1>5. ReachedByCtrlC'
        BY DEF ThreadTypes, ReachedByCtrlC, Starting
    <1> QED
        BY <1>1, <1>2, <1>3, <1>4, <1>5 DEF ThreadsInv

\* The edits of the list by the owner: running is false when it removes.
LEMMA OwnerEditsList ==
    ASSUME ThreadsInv, AddThread \/ RemoveThread
    PROVE  ThreadsInv'
    <1> USE DEF AddThread, RemoveThread, Owner, Added, Removed, EditBeside, AfterStop
    <1> ThreadTypes /\ Interrupted /\ Joining /\ Stopping /\ ReachedByCtrlC
        BY DEF ThreadsInv
    <1>1. ThreadTypes'
        <2>1. self \in Object /\ objects \in [Object -> Nat] /\ torn \in BOOLEAN
            BY DEF ThreadTypes
        <2>2. objects' \in [Object -> Nat]
            <3>1. objects' = [objects EXCEPT ![self] = objects[self] + 1]
                     \/ objects' = [objects EXCEPT ![self] = 0]
                BY DEF ThreadTypes
            <3>2. objects[self] \in Nat /\ objects[self] + 1 \in Nat /\ 0 \in Nat
                BY <2>1
            <3> HIDE DEF AddThread, RemoveThread
            <3> QED
                BY <2>1, <3>1, <3>2
        <2>3. torn' \in BOOLEAN
            BY <2>1
        <2> QED
            BY <2>2, <2>3 DEF ThreadTypes
    <1>2. Interrupted'
        BY DEF Interrupted
    <1>3. Joining'
        BY DEF ThreadTypes, Joining
    <1>4. Stopping'
        BY DEF ThreadTypes, Stopping
    <1>5. ReachedByCtrlC'
        <2> SUFFICES ASSUME NEW a \in Object, running[a], ~Starting(a)'
                     PROVE  objects'[a] > 0 \/ a \in overtaken \/ torn'
            BY DEF ReachedByCtrlC
        <2>1. CASE AddThread
            <3>1. objects[a] \in Nat /\ torn \in BOOLEAN
                BY DEF ThreadTypes
            <3>2. CASE a = self
                BY <2>1, <3>1, <3>2 DEF ThreadTypes
            <3>3. CASE a # self
                BY <2>1, <3>1, <3>3 DEF ThreadTypes, ReachedByCtrlC, Starting
            <3> QED
                BY <3>2, <3>3
        <2>2. CASE RemoveThread
            BY <2>2 DEF ThreadTypes, ReachedByCtrlC, Starting, Stopping
        <2> QED
            BY <2>1, <2>2
    <1> QED
        BY <1>1, <1>2, <1>3, <1>4, <1>5 DEF ThreadsInv

\* The other steps of a method.
OwnerElsewhere == Create \/ TestStop \/ ClearRunning \/ TestWait \/ Join \/ Delete

LEMMA OwnerGoesOn ==
    ASSUME ThreadsInv, OwnerElsewhere
    PROVE  ThreadsInv'
    <1> USE DEF OwnerElsewhere, Owner, handlerVars
    <1> ThreadTypes /\ Interrupted /\ Joining /\ Stopping /\ ReachedByCtrlC
        BY DEF ThreadsInv
    <1>1. ThreadTypes'
        BY DEF ThreadTypes, Create, TestStop, ClearRunning, TestWait, Join, Delete, Alive
    <1>2. Interrupted'
        BY DEF ThreadTypes, Interrupted, Create, TestStop, ClearRunning, TestWait, Join, Delete, Alive
    <1>3. Joining'
        <2>1. CASE Create
            BY <2>1 DEF ThreadTypes, Joining, Create
        <2>2. CASE TestStop
            BY <2>2 DEF ThreadTypes, Joining, TestStop, AfterStop
        <2>3. CASE ClearRunning
            BY <2>3 DEF ThreadTypes, Joining, ClearRunning
        <2>4. CASE TestWait
            BY <2>4 DEF ThreadTypes, Joining, Stopping, TestWait, AfterWait
        <2>5. CASE Join
            BY <2>5 DEF ThreadTypes, Joining, Join, AfterWait
        <2>6. CASE Delete
            BY <2>6 DEF ThreadTypes, Joining, Delete
        <2> QED
            BY <2>1, <2>2, <2>3, <2>4, <2>5, <2>6
    <1>4. Stopping'
        <2>1. CASE Create
            BY <2>1 DEF ThreadTypes, Stopping, Create
        <2>2. CASE TestStop
            BY <2>2 DEF ThreadTypes, Stopping, TestStop, AfterStop
        <2>3. CASE ClearRunning
            BY <2>3 DEF ThreadTypes, Interrupted, Stopping, ClearRunning
        <2>4. CASE TestWait
            BY <2>4 DEF ThreadTypes, Stopping, TestWait, AfterWait
        <2>5. CASE Join
            BY <2>5 DEF ThreadTypes, Joining, Stopping, Join, AfterWait
        <2>6. CASE Delete
            BY <2>6 DEF ThreadTypes, Stopping, Delete
        <2> QED
            BY <2>1, <2>2, <2>3, <2>4, <2>5, <2>6
    <1>5. ReachedByCtrlC'
        BY DEF ThreadTypes, ReachedByCtrlC, Starting, Create, TestStop, ClearRunning, TestWait,
               Join, Delete, AfterStop, AfterWait
    <1> QED
        BY <1>1, <1>2, <1>3, <1>4, <1>5 DEF ThreadsInv

LEMMA ThreadGoesOn ==
    ASSUME ThreadsInv, NEW a \in Object, ThreadStep(a)
    PROVE  ThreadsInv'
    <1> USE DEF ThreadStep, TestRunning, ThreadProcedure, End, Thread, ownerVars, handlerVars
    <1> ThreadTypes /\ Interrupted /\ Joining /\ Stopping /\ ReachedByCtrlC
        BY DEF ThreadsInv
    <1>1. thread[a] \in Alive /\ handler[a] = "idle"
        BY DEF Alive
    <1>2. \A b \in Object : running'[b] => running[b]
        BY DEF ThreadTypes
    <1>3. \A b \in Object : b # a => thread'[b] = thread[b]
        BY DEF ThreadTypes
    <1>4. ThreadTypes'
        BY DEF ThreadTypes, Alive
    <1>5. Interrupted'
        BY <1>1, <1>3 DEF Interrupted
    <1>6. Joining'
        <2>1. ~joined[a]
            BY <1>1 DEF Joining, Alive
        <2> QED
            BY <1>2, <1>3, <2>1 DEF ThreadTypes, Joining
    <1>7. Stopping'
        BY <1>2 DEF ThreadTypes, Interrupted, Stopping
    <1>8. ReachedByCtrlC'
        BY <1>2 DEF ReachedByCtrlC, Starting
    <1> QED
        BY <1>4, <1>5, <1>6, <1>7, <1>8 DEF ThreadsInv

LEMMA InterruptStep ==
    ASSUME ThreadsInv, NEW w \in Carrier, Interrupt(w)
    PROVE  ThreadsInv'
    <1> USE DEF Interrupt, objectVars, ownerVars
    <1> ThreadTypes /\ Interrupted /\ Joining /\ Stopping /\ ReachedByCtrlC
        BY DEF ThreadsInv
    <1>1. ThreadTypes' /\ Joining'
        BY DEF ThreadTypes, Joining
    <1>2. Interrupted' /\ Stopping'
        BY DEF ThreadTypes, Interrupted, Stopping
    <1>3. ReachedByCtrlC'
        BY DEF ReachedByCtrlC, Starting
    <1> QED
        BY <1>1, <1>2, <1>3 DEF ThreadsInv

\* The steps of a handler until it edits the list.
LEMMA HandlerGoesOn ==
    ASSUME ThreadsInv, NEW w \in Carrier, Walk(w) \/ HandlerReturns(w) \/ HandlerStops(w)
    PROVE  ThreadsInv'
    <1> USE DEF Walk, HandlerReturns, HandlerStops, Handler, ownerVars
    <1> ThreadTypes /\ Interrupted /\ Joining /\ Stopping /\ ReachedByCtrlC
        BY DEF ThreadsInv
    <1>1. \A b \in Object : running'[b] => running[b]
        BY DEF ThreadTypes
    <1>2. ThreadTypes'
        BY DEF ThreadTypes
    <1>3. Interrupted'
        <2>1. \A a \in Object : handler'[a] # "idle" => handler[a] # "idle"
            BY DEF ThreadTypes, Carrier
        <2>2. ASSUME NEW v \in Carrier, handler'[v] \in {"stop", "remove"}
              PROVE  target'[v] \in Object
            <3>1. CASE v # w
                BY <2>2, <3>1 DEF ThreadTypes, Interrupted
            <3>2. CASE v = w
                BY <2>2, <3>2 DEF ThreadTypes, Interrupted
            <3> QED
                BY <3>1, <3>2
        <2> QED
            BY <2>1, <2>2 DEF Interrupted
    <1>4. Joining'
        BY <1>1 DEF ThreadTypes, Joining
    <1>5. Stopping'
        BY <1>1 DEF ThreadTypes, Interrupted, Stopping
    <1>6. ReachedByCtrlC'
        BY <1>1 DEF ReachedByCtrlC, Starting
    <1> QED
        BY <1>2, <1>3, <1>4, <1>5, <1>6 DEF ThreadsInv

\* A handler removes an object that it has stopped, unless it was overtaken.
LEMMA HandlerEditsList ==
    ASSUME ThreadsInv, NEW w \in Carrier, HandlerRemoves(w)
    PROVE  ThreadsInv'
    <1> USE DEF HandlerRemoves, Handler, Removed, EditBeside, ownerVars
    <1> ThreadTypes /\ Interrupted /\ Joining /\ Stopping /\ ReachedByCtrlC
        BY DEF ThreadsInv
    <1>1. ThreadTypes' /\ Joining'
        BY DEF ThreadTypes, Joining
    <1>2. Interrupted' /\ Stopping'
        BY DEF ThreadTypes, Interrupted, Stopping, Carrier
    <1>3. ReachedByCtrlC'
        BY DEF ThreadTypes, Interrupted, Stopping, ReachedByCtrlC, Starting
    <1> QED
        BY <1>1, <1>2, <1>3 DEF ThreadsInv

LEMMA ThreadsStep ==
    ASSUME ThreadsInv, [ThreadsNext]_threadsVars
    PROVE  ThreadsInv'
    <1>1. CASE UNCHANGED threadsVars
        BY <1>1 DEF threadsVars, objectVars, ownerVars, handlerVars, ThreadsInv, ThreadTypes, Interrupted,
                    Joining, Stopping, ReachedByCtrlC, Starting
    <1>2. CASE OwnerStep
        BY <1>2, BeginStep, OwnerEditsList, OwnerGoesOn DEF OwnerStep, OwnerElsewhere
    <1>3. CASE \E w \in Carrier : Interrupt(w) \/ HandlerStep(w)
        BY <1>3, InterruptStep, HandlerGoesOn, HandlerEditsList DEF HandlerStep
    <1> QED
        BY <1>1, <1>2, <1>3, ScriptStep, ThreadGoesOn DEF ThreadsNext

(***************************************************************************)
(* The invariant of threads, their owner and the handlers.                 *)
(***************************************************************************)
THEOREM ThreadsInvariance == ThreadsSpec => []ThreadsInv
    <1>1. ThreadsInv /\ [ThreadsNext]_threadsVars => ThreadsInv'
        BY ThreadsStep
    <1> QED
        BY <1>1, ThreadsBegin, PTL DEF ThreadsSpec

(***************************************************************************)
(* No object is deleted or taken for joined while its thread may use it,   *)
(* for any number of objects and any sequence of starts, stops, waits,     *)
(* ends and signals.                                                       *)
(***************************************************************************)
THEOREM JoinedBeforeDeleted == ThreadsSpec => []ThreadNeverOutlives
    <1>1. ThreadsInv => ThreadNeverOutlives
        BY DEF ThreadsInv, Joining, ThreadNeverOutlives
    <1> QED
        BY <1>1, ThreadsInvariance, PTL

(***************************************************************************)
(* A thread that runs and whose start is over is in the handler's list,    *)
(* for any number of objects and any sequence of starts, stops, ends and   *)
(* signals, except where a start overtook a handler that was about to      *)
(* remove the object, or overlapping edits broke the list.                 *)
(***************************************************************************)
THEOREM RunningIsListed == ThreadsSpec => []ReachedByCtrlC
    <1>1. ThreadsInv => ReachedByCtrlC
        BY DEF ThreadsInv
    <1> QED
        BY <1>1, ThreadsInvariance, PTL
-----------------------------------------------------------------------------
(***************************************************************************)
(* The block queues and the time-stamped hash                              *)
(***************************************************************************)
\* A position of a chain is the block and the index in it.
LEMMA Position ==
    ASSUME NEW size \in Nat \ {0}, NEW b \in Nat, NEW i \in 0..(size - 1)
    PROVE  (b * size + i) \div size = b /\ (b * size + i) % size = i
OBVIOUS

LEMMA Divided ==
    ASSUME NEW size \in Nat \ {0}, NEW at \in Nat
    PROVE  /\ at \div size \in Nat /\ at % size \in 0..(size - 1)
           /\ at = (at \div size) * size + (at % size)
OBVIOUS

LEMMA NextBlock ==
    ASSUME NEW size \in Nat \ {0}, NEW at \in Nat
    PROVE  (at + size) \div size = at \div size + 1 /\ (at + size) % size = at % size
<1> DEFINE b == at \div size
           i == at % size
<1>1. b \in Nat /\ i \in 0..(size - 1) /\ at = b * size + i
  BY Divided
<1> HIDE DEF b, i
<1>2. at + size = (b + 1) * size + i
  BY <1>1
<1>3. (at + size) \div size = b + 1 /\ (at + size) % size = i
  BY <1>1, <1>2, Position
<1>4. QED
  BY <1>3 DEF b, i

LEMMA InBlocks ==
    ASSUME NEW size \in Nat \ {0}, NEW b \in Nat, NEW at \in Nat, at < b * size
    PROVE  at \div size < b
OBVIOUS

\* A block more does not move what the others hold.
LEMMA RoomIsMade ==
    ASSUME FifoAssumption, NEW f, IsFifo(f)
    PROVE  /\ Room(f).chain \in Seq(Block) /\ Len(Room(f).chain) > 0
           /\ Room(f).read = f.read /\ Room(f).write \in 0..(BlockSize - 1)
           /\ Room(f) = [chain |-> Room(f).chain, read |-> f.read, write |-> Room(f).write]
           /\ (Len(Room(f).chain) - 1) * BlockSize + Room(f).write = f.read + Count(f)
           /\ \A b \in 1..Len(f.chain) : Room(f).chain[b] = f.chain[b]
           /\ f.read + Count(f) <= Len(f.chain) * BlockSize
<1> DEFINE fresh == [i \in 0..(BlockSize - 1) |-> Unset]
<1>1. /\ f = [chain |-> f.chain, read |-> f.read, write |-> f.write]
      /\ f.chain \in Seq(Block) /\ Len(f.chain) \in Nat /\ BlockSize \in Nat \ {0}
      /\ f.read \in 0..(BlockSize - 1) /\ f.write \in 0..BlockSize
      /\ fresh \in Block
  BY DEF IsFifo, FifoAssumption, Block
<1>2. CASE f.chain = <<>>
  <2>1. f.read = 0 /\ Count(f) = 0
    BY <1>2 DEF IsFifo, Count
  <2>2. Room(f) = [chain |-> <<fresh>>, read |-> 0, write |-> 0]
    <3>1. Append(f.chain, fresh) = <<fresh>>
      BY <1>2
    <3>2. QED
      BY <1>1, <1>2, <2>1, <3>1 DEF Room
  <2>3. QED
    BY <1>1, <1>2, <2>1, <2>2
<1>3. CASE f.chain # <<>> /\ AtBoundary(f)
  <2>1. Len(f.chain) > 0 /\ f.write = BlockSize
    BY <1>1, <1>3 DEF AtBoundary
  <2>2. Count(f) = (Len(f.chain) - 1) * BlockSize + BlockSize - f.read
    BY <1>3, <2>1 DEF Count
  <2>3. Room(f) = [chain |-> Append(f.chain, fresh), read |-> f.read, write |-> 0]
    BY <1>1, <1>3 DEF Room
  <2>4. /\ Append(f.chain, fresh) \in Seq(Block)
        /\ Len(Append(f.chain, fresh)) = Len(f.chain) + 1
        /\ \A b \in 1..Len(f.chain) : Append(f.chain, fresh)[b] = f.chain[b]
    BY <1>1
  <2> HIDE DEF fresh
  <2>5. (Len(f.chain) + 1 - 1) * BlockSize + 0 = f.read + Count(f)
    BY <1>1, <2>1, <2>2
  <2>6. QED
    BY <1>1, <2>1, <2>3, <2>4, <2>5
<1>4. CASE f.chain # <<>> /\ ~AtBoundary(f)
  <2>1. Room(f) = f /\ Len(f.chain) > 0 /\ f.write < BlockSize
    BY <1>1, <1>4 DEF Room, AtBoundary
  <2>2. Count(f) = (Len(f.chain) - 1) * BlockSize + f.write - f.read
    BY <1>4 DEF Count
  <2> HIDE DEF fresh
  <2>3. (Len(f.chain) - 1) * BlockSize + f.write <= Len(f.chain) * BlockSize
    BY <1>1, <2>1
  <2>4. QED
    BY <1>1, <2>1, <2>2, <2>3
<1>5. QED
  BY <1>2, <1>3, <1>4

\* What two changes of one EXCEPT make of a record.
LEMMA Overwritten ==
    ASSUME NEW c, NEW rd, NEW w, NEW n, NEW v
    PROVE  [[chain |-> c, read |-> rd, write |-> w] EXCEPT !.chain[n][w] = v, !.write = w + 1]
             = [chain |-> [c EXCEPT ![n] = [c[n] EXCEPT ![w] = v]], read |-> rd, write |-> w + 1]
<1> DEFINE g == [chain |-> c, read |-> rd, write |-> w]
<1>1. [g EXCEPT !.chain[n][w] = v, !.write = w + 1]
        = [[g EXCEPT !.chain[n][w] = v] EXCEPT !.write = w + 1]
  OBVIOUS
<1>2. [g EXCEPT !.chain[n][w] = v]
        = [chain |-> [c EXCEPT ![n] = [c[n] EXCEPT ![w] = v]], read |-> rd, write |-> w]
  OBVIOUS
<1>3. ASSUME NEW d
      PROVE  [[chain |-> d, read |-> rd, write |-> w] EXCEPT !.write = w + 1]
               = [chain |-> d, read |-> rd, write |-> w + 1]
  OBVIOUS
<1>4. QED
  <2> HIDE DEF g
  <2> QED BY <1>1, <1>2, <1>3 DEF g

\* put adds an element at the end.
LEMMA PutAppends ==
    ASSUME FifoAssumption, NEW f, IsFifo(f), NEW s, Holds(f, s), NEW v \in Item
    PROVE  IsFifo(PutIn(f, v)) /\ Holds(PutIn(f, v), Append(s, v))
<1> DEFINE g == Room(f)
           last == Len(g.chain)
           r == PutIn(f, v)
<1>1. /\ g.chain \in Seq(Block) /\ last \in Nat \ {0} /\ g.write \in 0..(BlockSize - 1)
      /\ g = [chain |-> g.chain, read |-> f.read, write |-> g.write]
      /\ (last - 1) * BlockSize + g.write = f.read + Count(f)
      /\ \A b \in 1..Len(f.chain) : g.chain[b] = f.chain[b]
      /\ f.read + Count(f) <= Len(f.chain) * BlockSize
  BY RoomIsMade
<1>2. BlockSize \in Nat \ {0} /\ f.read \in 0..(BlockSize - 1) /\ Len(f.chain) \in Nat
  BY DEF IsFifo, FifoAssumption
<1>3. s \in Seq(Item) /\ Len(s) = Count(f) /\ \A k \in 1..Len(s) : Content(f, f.read + k - 1) = s[k]
  BY DEF Holds
<1> DEFINE block == [g.chain[last] EXCEPT ![g.write] = v]
           chain == [g.chain EXCEPT ![last] = block]
<1>4. r = [chain |-> chain, read |-> f.read, write |-> g.write + 1]
  <2> HIDE DEF g
  <2>1. r = [g EXCEPT !.chain[last][g.write] = v, !.write = g.write + 1]
    BY DEF PutIn, g
  <2>2. r = [[chain |-> g.chain, read |-> f.read, write |-> g.write] EXCEPT
               !.chain[last][g.write] = v, !.write = g.write + 1]
    BY <1>1, <2>1
  <2>3. QED
    BY <2>2, Overwritten
<1>5. block \in Block /\ block[g.write] = v
      /\ \A i \in 0..(BlockSize - 1) : i # g.write => block[i] = g.chain[last][i]
  BY <1>1, <1>2 DEF Block
<1>6. chain \in Seq(Block) /\ Len(chain) = last /\ chain[last] = block
      /\ \A b \in 1..last : b # last => chain[b] = g.chain[b]
  <2> HIDE DEF block
  <2> QED BY <1>1, <1>5
<1> HIDE DEF block, chain, last, g
<1>7. Count(r) = Count(f) + 1
  <2>1. r.chain # <<>>
    BY <1>1, <1>4, <1>6
  <2>2. Count(r) = (last - 1) * BlockSize + (g.write + 1) - f.read
    BY <1>4, <1>6, <2>1 DEF Count
  <2>3. Count(f) \in Int
    BY <1>3
  <2> DEFINE base == (last - 1) * BlockSize
  <2>4. base \in Int /\ g.write \in Int /\ f.read \in Int
    BY <1>1, <1>2
  <2>5. base + g.write = f.read + Count(f)
    BY <1>1
  <2>6. Count(r) = base + (g.write + 1) - f.read
    BY <2>2
  <2> HIDE DEF base
  <2>7. QED
    BY <2>3, <2>4, <2>5, <2>6
<1>8. IsFifo(r)
  BY <1>1, <1>2, <1>3, <1>4, <1>6, <1>7 DEF IsFifo
<1>9. ASSUME NEW k \in 1..Len(s)
      PROVE  Content(r, f.read + k - 1) = s[k]
  <2> DEFINE at == f.read + k - 1
             b == at \div BlockSize
             i == at % BlockSize
  <2>1. at \in Nat /\ at < f.read + Count(f)
    BY <1>2, <1>3, <1>9
  <2>2. b \in Nat /\ i \in 0..(BlockSize - 1) /\ at = b * BlockSize + i
    BY <1>2, <2>1, Divided
  <2>3. b < Len(f.chain)
    <3> HIDE DEF at
    <3>1. at < Len(f.chain) * BlockSize
      BY <1>1, <1>2, <1>3, <2>1
    <3>2. QED
      BY <1>2, <2>1, <3>1, InBlocks
  <2>4. b < last
    <3>1. at < last * BlockSize
      BY <1>1, <1>2, <2>1
    <3>2. QED
      BY <1>1, <1>2, <2>1, <3>1, InBlocks
  <2>5. b + 1 = last => i # g.write
    BY <1>1, <2>1, <2>2
  <2>6. Content(r, at) = chain[b + 1][i] /\ Content(f, at) = f.chain[b + 1][i]
    BY <1>4 DEF Content
  <2> HIDE DEF at, b, i
  <2>7. chain[b + 1][i] = g.chain[b + 1][i]
    BY <1>1, <1>5, <1>6, <2>2, <2>4, <2>5
  <2>8. g.chain[b + 1] = f.chain[b + 1]
    <3>1. b + 1 \in 1..Len(f.chain)
      BY <1>2, <2>2, <2>3
    <3>2. QED
      BY <1>1, <3>1
  <2>9. Content(f, at) = s[k]
    BY <1>3 DEF at
  <2>10. QED
    BY <2>6, <2>7, <2>8, <2>9 DEF at
<1>10. Content(r, f.read + Count(f)) = v
  <2>1. (f.read + Count(f)) \div BlockSize = last - 1 /\ (f.read + Count(f)) % BlockSize = g.write
    <3>1. last - 1 \in Nat
      BY <1>1
    <3>2. QED
      BY <1>1, <1>2, <3>1, Position
  <2>2. QED
    BY <1>1, <1>4, <1>5, <1>6, <2>1 DEF Content
<1>11. Holds(r, Append(s, v))
  <2>1. Append(s, v) \in Seq(Item) /\ Len(Append(s, v)) = Len(s) + 1
        /\ \A k \in 1..(Len(s) + 1) : Append(s, v)[k] = IF k = Len(s) + 1 THEN v ELSE s[k]
    BY <1>3
  <2>2. r.read = f.read
    BY <1>4
  <2> HIDE DEF r
  <2>3. \A k \in 1..(Len(s) + 1) : Content(r, r.read + k - 1) = Append(s, v)[k]
    <3>1. f.read + (Len(s) + 1) - 1 = f.read + Count(f)
      BY <1>2, <1>3
    <3>2. QED
      BY <1>3, <1>9, <1>10, <2>1, <2>2, <3>1
  <2>4. QED
    BY <1>3, <1>7, <2>1, <2>3 DEF Holds
<1>12. QED
  BY <1>8, <1>11

LEMMA Shortened ==
    ASSUME NEW c, NEW rd, NEW w, NEW d, NEW e
    PROVE  [[chain |-> c, read |-> rd, write |-> w] EXCEPT !.chain = d, !.read = e]
             = [chain |-> d, read |-> e, write |-> w]
<1> DEFINE g == [chain |-> c, read |-> rd, write |-> w]
<1>1. [g EXCEPT !.chain = d, !.read = e] = [[g EXCEPT !.chain = d] EXCEPT !.read = e]
  OBVIOUS
<1>2. [g EXCEPT !.chain = d] = [chain |-> d, read |-> rd, write |-> w]
  OBVIOUS
<1>3. [[chain |-> d, read |-> rd, write |-> w] EXCEPT !.read = e]
        = [chain |-> d, read |-> e, write |-> w]
  OBVIOUS
<1>4. QED
  BY <1>1, <1>2, <1>3

\* drop takes the first element away.
LEMMA DropTakes ==
    ASSUME FifoAssumption, NEW f, IsFifo(f), NEW s, Holds(f, s), ~IsEmpty(f), f.chain # <<>>
    PROVE  s # <<>> /\ IsFifo(DropFrom(f)) /\ Holds(DropFrom(f), Tail(s))
<1> DEFINE blocks == Len(f.chain)
           r == DropFrom(f)
<1>1. /\ f = [chain |-> f.chain, read |-> f.read, write |-> f.write]
      /\ f.chain \in Seq(Block) /\ blocks \in Nat \ {0} /\ BlockSize \in Nat \ {0}
      /\ f.read \in 0..(BlockSize - 1) /\ f.write \in 1..BlockSize
  BY DEF IsFifo, FifoAssumption
<1>2. /\ s \in Seq(Item) /\ Len(s) = Count(f)
      /\ Count(f) = (blocks - 1) * BlockSize + f.write - f.read
      /\ \A k \in 1..Len(s) : Content(f, f.read + k - 1) = s[k]
  BY DEF Holds, Count
<1> HIDE DEF blocks
<1>3. Count(f) > 0
  <2>1. CASE blocks = 1
    BY <1>1, <1>2, <2>1 DEF IsEmpty, blocks
  <2>2. CASE blocks > 1
    <3>1. (blocks - 1) * BlockSize >= BlockSize
      BY <1>1, <2>2
    <3>2. QED
      BY <1>1, <1>2, <3>1
  <2>3. QED
    BY <1>1, <2>1, <2>2
<1>4. /\ s # <<>> /\ Tail(s) \in Seq(Item) /\ Len(Tail(s)) = Count(f) - 1
      /\ \A k \in 1..Len(Tail(s)) : Tail(s)[k] = s[k + 1] /\ k + 1 \in 1..Len(s)
  BY <1>2, <1>3
<1>5. CASE f.read + 1 < BlockSize
  <2>1. r = [chain |-> f.chain, read |-> f.read + 1, write |-> f.write]
    BY <1>1, <1>5 DEF DropFrom
  <2>2. Count(r) = Count(f) - 1 /\ IsFifo(r)
    BY <1>1, <1>2, <1>3, <1>5, <2>1 DEF IsFifo, Count, blocks
  <2>3. ASSUME NEW k \in 1..Len(Tail(s))
        PROVE  Content(r, r.read + k - 1) = Tail(s)[k]
    <3>1. r.read + k - 1 = f.read + (k + 1) - 1
      BY <1>1, <1>4, <2>1
    <3>2. \A at : Content(r, at) = Content(f, at)
      BY <2>1 DEF Content
    <3>3. QED
      BY <1>2, <1>4, <3>1, <3>2
  <2>4. QED
    BY <1>4, <2>2, <2>3 DEF Holds
<1>6. CASE f.read + 1 >= BlockSize
  <2> DEFINE rest == Tail(f.chain)
  <2>1. r = [chain |-> rest, read |-> 0, write |-> f.write] /\ f.read = BlockSize - 1
    <3>1. r = [f EXCEPT !.chain = rest, !.read = 0]
      BY <1>1, <1>6 DEF DropFrom
    <3>2. r = [[chain |-> f.chain, read |-> f.read, write |-> f.write]
                 EXCEPT !.chain = rest, !.read = 0]
      BY <1>1, <3>1
    <3> HIDE DEF r, rest
    <3>3. r = [chain |-> rest, read |-> 0, write |-> f.write]
      BY <3>2, Shortened
    <3>4. QED
      BY <1>1, <1>6, <3>3
  <2>2. /\ rest \in Seq(Block) /\ Len(rest) = blocks - 1
        /\ \A b \in 1..(blocks - 1) : rest[b] = f.chain[b + 1]
    BY <1>1 DEF blocks
  <2> HIDE DEF rest
  <2>3. Count(r) = Count(f) - 1 /\ IsFifo(r)
    <3>1. CASE blocks = 1
      <4>1. rest = <<>>
        BY <1>1, <2>2, <3>1
      <4>2. f.write = BlockSize
        BY <1>1, <1>2, <1>3, <2>1, <3>1
      <4>3. QED
        BY <1>1, <1>2, <2>1, <2>2, <3>1, <4>1, <4>2 DEF IsFifo, Count
    <3>2. CASE blocks > 1
      <4>1. rest # <<>> /\ Count(r) = (blocks - 1 - 1) * BlockSize + f.write - 0
        BY <1>1, <2>1, <2>2, <3>2 DEF Count
      <4>2. (blocks - 1) * BlockSize = (blocks - 1 - 1) * BlockSize + BlockSize
        BY <1>1, <3>2
      <4>3. Count(r) = Count(f) - 1
        BY <1>1, <1>2, <2>1, <4>1, <4>2
      <4>4. QED
        BY <1>1, <1>2, <1>3, <2>1, <2>2, <4>1, <4>3 DEF IsFifo
    <3>3. QED
      BY <1>1, <3>1, <3>2
  <2>4. ASSUME NEW k \in 1..Len(Tail(s))
        PROVE  Content(r, r.read + k - 1) = Tail(s)[k]
    <3> DEFINE at == k - 1
    <3>a. k \in Nat \ {0} /\ k <= Count(f) - 1
      BY <1>4
    <3>b. r.read = 0 /\ f.read = BlockSize - 1
      BY <2>1
    <3> HIDE DEF r
    <3>1. at \in Nat /\ at + BlockSize = f.read + (k + 1) - 1 /\ r.read + k - 1 = at
      BY <1>1, <3>a, <3>b
    <3>2. at < (blocks - 1) * BlockSize
      <4>1. PICK p \in Int : p = (blocks - 1) * BlockSize
        BY <1>1
      <4>2. Count(f) = p + f.write - f.read
        BY <1>2, <4>1
      <4>3. f.write \in Nat /\ f.write <= BlockSize /\ BlockSize \in Nat
        BY <1>1
      <4>4. k <= p
        BY <3>a, <3>b, <4>2, <4>3
      <4>5. at < p
        BY <3>a, <4>4
      <4>6. QED
        BY <4>1, <4>5
    <3> HIDE DEF at
    <3>3. (at + BlockSize) \div BlockSize = at \div BlockSize + 1
          /\ (at + BlockSize) % BlockSize = at % BlockSize
      BY <1>1, <3>1, NextBlock
    <3>4. at \div BlockSize \in Nat /\ at \div BlockSize < blocks - 1
      <4>1. blocks - 1 \in Nat
        BY <1>1
      <4>2. QED
        BY <1>1, <3>1, <3>2, <4>1, Divided, InBlocks
    <3>5. rest[at \div BlockSize + 1] = f.chain[at \div BlockSize + 1 + 1]
      BY <1>1, <2>2, <3>4
    <3>6. Content(r, at) = Content(f, at + BlockSize)
      BY <2>1, <3>3, <3>5 DEF Content
    <3>7. QED
      BY <1>2, <1>4, <3>1, <3>6
  <2>5. QED
    BY <1>4, <2>3, <2>4 DEF Holds
<1>7. QED
  BY <1>1, <1>4, <1>5, <1>6
-----------------------------------------------------------------------------
\* A set of numbers that is not empty has a least one.
LEMMA LeastNumber ==
    ASSUME NEW T \in SUBSET Nat, T # {}
    PROVE  \E m \in T : \A n \in T : m <= n
<1> DEFINE U == {1..n : n \in T}
<1>1. IsWellFoundedOn(StrictSubsetOrdering(Nat), FiniteSubsetsOf(Nat))
  BY FS_StrictSubsetOrderingWellFounded
<1>2. U \subseteq FiniteSubsetsOf(Nat) /\ U # {}
  <2>1. ASSUME NEW n \in T
        PROVE  1..n \in FiniteSubsetsOf(Nat)
    <3>1. IsFiniteSet(1..n)
      BY FS_Interval
    <3>2. 1..n \in SUBSET Nat
      OBVIOUS
    <3>3. QED
      BY <3>1, <3>2 DEF FiniteSubsetsOf
  <2>2. QED
    BY <2>1
<1>3. PICK x \in U : \A y \in U : ~ (<<y, x>> \in StrictSubsetOrdering(Nat))
  <2> HIDE DEF U
  <2>1. QED
    BY <1>1, <1>2, WFMin
<1>4. PICK m \in T : x = 1..m
  OBVIOUS
<1>5. ASSUME NEW n \in T, n < m
      PROVE  FALSE
  <2>1. 1..n \in SUBSET Nat /\ 1..m \in SUBSET Nat /\ 1..n \subseteq 1..m
    BY <1>5
  <2>2. m \in 1..m /\ m \notin 1..n
    BY <1>5
  <2>3. <<1..n, 1..m>> \in StrictSubsetOrdering(Nat)
    BY <2>1, <2>2 DEF StrictSubsetOrdering
  <2>4. QED
    BY <2>3, <1>3, <1>4
<1>6. QED
  BY <1>5

\* The numbers are in every set that has zero and, with a number, the next.
LEMMA Induction ==
    ASSUME NEW S, 0 \in S, \A n \in Nat : n \in S => n + 1 \in S
    PROVE  Nat \subseteq S
<1> SUFFICES ASSUME Nat \ S # {} PROVE FALSE
  OBVIOUS
<1>1. PICK m \in Nat \ S : \A n \in Nat \ S : m <= n
  BY LeastNumber
<1>2. m # 0 /\ m - 1 \in Nat
  BY <1>1
<1>3. m - 1 \in S
  BY <1>1, <1>2
<1> QED BY <1>1, <1>2, <1>3

\* What a walk meets is what a queue holds.
LEMMA WalkMeets ==
    ASSUME NEW f, NEW s, Holds(f, s)
    PROVE  Elements(f) = s
<1>1. s \in Seq(Item) /\ Len(s) = Count(f) /\ \A k \in 1..Len(s) : Content(f, f.read + k - 1) = s[k]
  BY DEF Holds
<1>2. s = [k \in 1..Len(s) |-> s[k]]
  BY <1>1
<1>3. QED
  BY <1>1, <1>2 DEF Elements

LEMMA NewFifo ==
    ASSUME FifoAssumption
    PROVE  IsFifo(EmptyFifo) /\ Holds(EmptyFifo, <<>>)
<1>1. BlockSize \in Nat \ {0} /\ <<>> \in Seq(Block) /\ <<>> \in Seq(Item)
  BY DEF FifoAssumption
<1>2. Count(EmptyFifo) = 0
  BY DEF Count, EmptyFifo
<1>3. QED
  BY <1>1, <1>2 DEF IsFifo, Holds, EmptyFifo

\* Queue n of a copy has one element more than the one before.
Grown(s, n, g) == g = [i \in 0..n |-> IF i = 0 THEN EmptyFifo ELSE PutIn(g[i - 1], s[i])]

LEMMA GrownExists ==
    ASSUME NEW s, NEW n \in Nat
    PROVE  \E g : Grown(s, n, g)
<1> DEFINE S == {m \in Nat : \E g : Grown(s, m, g)}
<1>1. 0 \in S
  <2>1. Grown(s, 0, [i \in 0..0 |-> EmptyFifo])
    BY DEF Grown
  <2>2. QED
    BY <2>1
<1>2. ASSUME NEW m \in Nat, m \in S
      PROVE  m + 1 \in S
  <2>1. PICK g : Grown(s, m, g)
    BY <1>2
  <2> DEFINE h == [i \in 0..(m + 1) |-> IF i = m + 1 THEN PutIn(g[m], s[m + 1]) ELSE g[i]]
  <2>2. ASSUME NEW i \in 0..(m + 1)
        PROVE  h[i] = IF i = 0 THEN EmptyFifo ELSE PutIn(h[i - 1], s[i])
    <3>1. CASE i = m + 1
      BY <1>2, <3>1
    <3>2. CASE i # m + 1
      <4>1. i \in 0..m /\ h[i] = g[i] /\ (i # 0 => i - 1 \in 0..(m + 1) /\ h[i - 1] = g[i - 1])
        BY <1>2, <3>2
      <4>2. g[i] = IF i = 0 THEN EmptyFifo ELSE PutIn(g[i - 1], s[i])
        BY <2>1, <4>1 DEF Grown
      <4>3. QED
        BY <4>1, <4>2
    <3>3. QED
      BY <3>1, <3>2
  <2>3. h = [i \in 0..(m + 1) |-> h[i]]
    OBVIOUS
  <2> HIDE DEF h
  <2>4. Grown(s, m + 1, h)
    BY <2>2, <2>3 DEF Grown
  <2>5. QED
    BY <1>2, <2>4
<1>3. Nat \subseteq S
  <2> HIDE DEF S
  <2>1. \A m \in Nat : m \in S => m + 1 \in S
    BY <1>2
  <2>2. QED
    BY <1>1, <2>1, Induction
<1>4. QED
  BY <1>3

\* A copy has the elements of the queue.
LEMMA CopyHolds ==
    ASSUME FifoAssumption, NEW s \in Seq(Item)
    PROVE  IsFifo(PutAll(s)) /\ Holds(PutAll(s), s)
<1> DEFINE g == CHOOSE g : Grown(s, Len(s), g)
<1>1. Len(s) \in Nat
  OBVIOUS
<1>2. Grown(s, Len(s), g)
  BY <1>1, GrownExists
<1>3. PutAll(s) = g[Len(s)]
  BY DEF PutAll, Grown
<1> HIDE DEF g
<1> DEFINE S == {n \in Nat : n <= Len(s) => IsFifo(g[n]) /\ Holds(g[n], SubSeq(s, 1, n))}
<1>4. 0 \in S
  <2>1. g[0] = EmptyFifo /\ SubSeq(s, 1, 0) = <<>>
    BY <1>1, <1>2 DEF Grown
  <2>2. QED
    BY <2>1, NewFifo
<1>5. ASSUME NEW n \in Nat, n \in S
      PROVE  n + 1 \in S
  <2> SUFFICES ASSUME n + 1 <= Len(s)
               PROVE  IsFifo(g[n + 1]) /\ Holds(g[n + 1], SubSeq(s, 1, n + 1))
    OBVIOUS
  <2>1. IsFifo(g[n]) /\ Holds(g[n], SubSeq(s, 1, n))
    BY <1>1, <1>5
  <2>2. g[n + 1] = PutIn(g[n], s[n + 1])
    <3>1. n + 1 \in 0..Len(s) /\ n + 1 # 0 /\ n + 1 - 1 = n
      BY <1>1
    <3>2. QED
      BY <1>2, <3>1 DEF Grown
  <2>3. s[n + 1] \in Item /\ Append(SubSeq(s, 1, n), s[n + 1]) = SubSeq(s, 1, n + 1)
    BY <1>1
  <2>4. QED
    BY <2>1, <2>2, <2>3, PutAppends
<1>6. Nat \subseteq S
  <2> HIDE DEF S
  <2>1. \A n \in Nat : n \in S => n + 1 \in S
    BY <1>5
  <2>2. QED
    BY <1>4, <2>1, Induction
<1>7. IsFifo(g[Len(s)]) /\ Holds(g[Len(s)], SubSeq(s, 1, Len(s)))
  BY <1>1, <1>6
<1>8. SubSeq(s, 1, Len(s)) = s
  BY <1>1
<1>9. QED
  BY <1>3, <1>7, <1>8
-----------------------------------------------------------------------------
LEMMA InitFifo == ASSUME FifoAssumption PROVE FifoInit => FifoInv
BY NewFifo DEF FifoInit, FifoInv

\* The queues but q and other stay, and the program goes on.
LEMMA TwoQueues ==
    ASSUME FifoInv, NEW q \in Queue, NEW other \in Queue,
           NEW f, NEW s, NEW g, NEW t,
           IsFifo(f), Holds(f, s), IsFifo(g), Holds(g, t),
           fifo' = [fifo EXCEPT ![q] = f, ![other] = g],
           held' = [held EXCEPT ![q] = s, ![other] = t],
           queueCrashed' = FALSE
    PROVE  FifoInv'
<1>1. /\ fifo' = [x \in Queue |-> fifo'[x]] /\ held' = [x \in Queue |-> held'[x]]
      /\ \A x \in Queue : \/ fifo'[x] = f /\ held'[x] = s
                          \/ fifo'[x] = g /\ held'[x] = t
                          \/ fifo'[x] = fifo[x] /\ held'[x] = held[x]
  BY DEF FifoInv
<1>2. QED
  BY <1>1 DEF FifoInv

LEMMA OneQueue ==
    ASSUME FifoInv, NEW q \in Queue, NEW f, NEW s, IsFifo(f), Holds(f, s),
           fifo' = [fifo EXCEPT ![q] = f], held' = [held EXCEPT ![q] = s], queueCrashed' = FALSE
    PROVE  FifoInv'
<1>1. /\ fifo' = [x \in Queue |-> fifo'[x]] /\ held' = [x \in Queue |-> held'[x]]
      /\ \A x \in Queue : \/ fifo'[x] = f /\ held'[x] = s
                          \/ fifo'[x] = fifo[x] /\ held'[x] = held[x]
  BY DEF FifoInv
<1>2. QED
  BY <1>1 DEF FifoInv

\* Every call keeps the invariant.
LEMMA NextFifo == ASSUME FifoAssumption PROVE FifoInv /\ [FifoNext]_fifoVars => FifoInv'
<1> SUFFICES ASSUME FifoInv, [FifoNext]_fifoVars
             PROVE  FifoInv'
  OBVIOUS
<1>1. CASE UNCHANGED fifoVars
  BY <1>1 DEF fifoVars, FifoInv
<1>2. ASSUME FifoNext
      PROVE  FifoInv'
  <2>1. PICK q \in Queue :
          \/ \E v \in Item : Put(q, v)
          \/ GetFrom(q) \/ GetCrashes(q) \/ WalkCrashes(q) \/ ClearFifo(q)
          \/ \E other \in Queue : Copy(q, other) \/ TakeContentFrom(q, other) \/ Swap(q, other)
    BY <1>2 DEF FifoNext
  <2>2. /\ ~queueCrashed /\ \A x \in Queue : IsFifo(fifo[x]) /\ Holds(fifo[x], held[x])
        /\ \A x \in Queue : held[x] \in Seq(Item)
    BY <1>2 DEF FifoNext, FifoInv, Holds
  <2>3. ASSUME NEW v \in Item, Put(q, v)
        PROVE  FifoInv'
    <3>1. IsFifo(PutIn(fifo[q], v)) /\ Holds(PutIn(fifo[q], v), Append(held[q], v))
      BY <2>2, PutAppends
    <3>2. /\ fifo' = [fifo EXCEPT ![q] = PutIn(fifo[q], v)] /\ queueCrashed' = FALSE
          /\ held' = [held EXCEPT ![q] = Append(held[q], v)]
      BY <2>2, <2>3 DEF Put, FifoInv
    <3>3. QED
      BY <3>1, <3>2, OneQueue
  <2>4. CASE GetFrom(q)
    <3>1. IsFifo(DropFrom(fifo[q])) /\ Holds(DropFrom(fifo[q]), Tail(held[q]))
      BY <2>2, <2>4, DropTakes DEF GetFrom
    <3>2. /\ fifo' = [fifo EXCEPT ![q] = DropFrom(fifo[q])] /\ queueCrashed' = FALSE
          /\ held' = [held EXCEPT ![q] = Tail(held[q])]
      BY <2>2, <2>4 DEF GetFrom, FifoInv
    <3>3. QED
      BY <3>1, <3>2, OneQueue
  <2>5. CASE GetCrashes(q)
    <3>1. fifo[q].read = 0 /\ fifo[q].write \in {0, BlockSize} /\ ~(fifo[q].read >= fifo[q].write)
      BY <2>2, <2>5 DEF GetCrashes, IsFifo, IsEmpty
    <3>2. AtBoundary(fifo[q])
      BY <3>1 DEF AtBoundary, FifoAssumption
    <3>3. QED
      BY <2>5, <3>2 DEF GetCrashes, Crash, FifoInv, AtBoundary
  <2>6. CASE WalkCrashes(q)
    BY <2>6 DEF WalkCrashes, Crash, FifoInv, AtBoundary
  <2>7. CASE ClearFifo(q)
    <3>1. queueCrashed' = FALSE
      BY <2>2, <2>7 DEF ClearFifo, FifoInv
    <3>2. QED
      BY <2>7, <3>1, NewFifo, OneQueue DEF ClearFifo
  <2>8. ASSUME NEW other \in Queue, Copy(q, other)
        PROVE  FifoInv'
    <3>1. Elements(fifo[other]) = held[other]
      BY <2>2, WalkMeets
    <3>2. IsFifo(PutAll(held[other])) /\ Holds(PutAll(held[other]), held[other])
      BY <2>2, CopyHolds
    <3>3. /\ fifo' = [fifo EXCEPT ![q] = PutAll(held[other])] /\ queueCrashed' = FALSE
          /\ held' = [held EXCEPT ![q] = held[other]]
      BY <2>2, <2>8, <3>1 DEF Copy, FifoInv
    <3>4. QED
      BY <3>2, <3>3, OneQueue
  <2>9. ASSUME NEW other \in Queue, TakeContentFrom(q, other)
        PROVE  FifoInv'
    <3>1. /\ fifo' = [fifo EXCEPT ![q] = fifo[other], ![other] = EmptyFifo] /\ queueCrashed' = FALSE
          /\ held' = [held EXCEPT ![q] = held[other], ![other] = <<>>]
      BY <2>2, <2>9 DEF TakeContentFrom, Taken, FifoInv
    <3>2. IsFifo(fifo[other]) /\ Holds(fifo[other], held[other])
      BY <2>2
    <3>3. QED
      BY <3>1, <3>2, NewFifo, TwoQueues
  <2>10. ASSUME NEW other \in Queue, Swap(q, other)
         PROVE  FifoInv'
    <3>1. /\ fifo' = [fifo EXCEPT ![q] = fifo[other], ![other] = fifo[q]] /\ queueCrashed' = FALSE
          /\ held' = [held EXCEPT ![q] = held[other], ![other] = held[q]]
      BY <2>2, <2>10 DEF Swap, FifoInv
    <3>2. IsFifo(fifo[other]) /\ Holds(fifo[other], held[other])
          /\ IsFifo(fifo[q]) /\ Holds(fifo[q], held[q])
      BY <2>2
    <3>3. QED
      BY <3>1, <3>2, TwoQueues
  <2>11. QED
    BY <2>1, <2>3, <2>4, <2>5, <2>6, <2>7, <2>8, <2>9, <2>10
<1>3. QED
  BY <1>1, <1>2

\* No block of a chain but the last is without elements.
LEMMA BlocksAreUsed ==
    ASSUME NEW size \in Nat \ {0}, NEW n \in Nat
    PROVE  n * size >= n
OBVIOUS

\* What a queue of the invariant says of itself.
LEMMA FifoTells ==
    ASSUME FifoAssumption, NEW f, NEW s, IsFifo(f), Holds(f, s)
    PROVE  /\ Elements(f) = s
           /\ IsEmpty(f) <=> s = <<>> /\ ~(f.chain = <<>> /\ AtBoundary(f))
           /\ f.chain # <<>> => f.read < BlockSize /\ Len(f.chain) <= Len(s) + 1
           /\ AtBoundary(f) =>
                 f.write = BlockSize
                 /\ (f.chain # <<>> => f.chain[Len(f.chain)][BlockSize - 1] # Unset)
<1> DEFINE blocks == Len(f.chain)
<1>1. /\ f.chain \in Seq(Block) /\ blocks \in Nat /\ BlockSize \in Nat \ {0}
      /\ f.read \in 0..(BlockSize - 1) /\ f.write \in 0..BlockSize
      /\ s \in Seq(Item) /\ Len(s) = Count(f) /\ Unset \notin Item
      /\ \A k \in 1..Len(s) : Content(f, f.read + k - 1) = s[k]
  BY DEF IsFifo, Holds, FifoAssumption
<1>2. Elements(f) = s
  BY WalkMeets
<1>3. CASE f.chain = <<>>
  <2>1. blocks = 0 /\ f.read = 0 /\ f.write \in {0, BlockSize} /\ Len(s) = 0
    BY <1>1, <1>3 DEF IsFifo, Count
  <2>2. QED
    BY <1>1, <1>2, <1>3, <2>1 DEF IsEmpty, AtBoundary
<1>4. CASE f.chain # <<>>
  <2>1. /\ blocks > 0 /\ f.write > 0
        /\ Len(s) = (blocks - 1) * BlockSize + f.write - f.read
    BY <1>1, <1>4 DEF IsFifo, Count
  <2>2. s = <<>> <=> Len(s) = 0
    BY <1>1
  <2>3. CASE blocks = 1
    <3>1. Len(s) = f.write - f.read
      BY <1>1, <2>1, <2>3
    <3>2. IsEmpty(f) <=> s = <<>> /\ ~(f.chain = <<>> /\ AtBoundary(f))
      BY <1>1, <1>4, <2>2, <2>3, <3>1 DEF IsEmpty
    <3>3. AtBoundary(f) => f.write = BlockSize /\ f.chain[1][BlockSize - 1] # Unset
      <4> SUFFICES ASSUME AtBoundary(f)
                   PROVE  f.write = BlockSize /\ f.chain[1][BlockSize - 1] # Unset
        OBVIOUS
      <4>1. f.write = BlockSize /\ Len(s) \in 1..Len(s)
        BY <1>1, <3>1 DEF AtBoundary
      <4>2. f.read + Len(s) - 1 = 0 * BlockSize + (BlockSize - 1)
        BY <1>1, <3>1, <4>1
      <4>3. (0 * BlockSize + (BlockSize - 1)) \div BlockSize = 0
            /\ (0 * BlockSize + (BlockSize - 1)) % BlockSize = BlockSize - 1
        BY <1>1, Position
      <4>4. Content(f, f.read + Len(s) - 1) = f.chain[0 + 1][BlockSize - 1]
        BY <4>2, <4>3 DEF Content
      <4>5. s[Len(s)] \in Item
        BY <1>1, <4>1
      <4>6. QED
        BY <1>1, <4>1, <4>4, <4>5
    <3>4. QED
      BY <1>1, <1>2, <2>3, <3>1, <3>2, <3>3
  <2>4. CASE blocks > 1
    <3>1. (blocks - 1) * BlockSize = (blocks - 2) * BlockSize + BlockSize
      BY <1>1, <2>4
    <3>2. (blocks - 2) * BlockSize >= blocks - 2 /\ blocks - 2 \in Nat
      <4>1. blocks - 2 \in Nat
        BY <1>1, <2>4
      <4> HIDE DEF blocks
      <4>2. QED
        BY <1>1, <4>1, BlocksAreUsed
    <3>3. (blocks - 2) * BlockSize \in Nat
      BY <1>1, <3>2
    <3> HIDE DEF blocks
    <3>4. Len(s) >= blocks
      BY <1>1, <2>1, <3>1, <3>2, <3>3
    <3>5. ~IsEmpty(f) /\ s # <<>>
      BY <1>1, <2>2, <2>4, <3>4 DEF IsEmpty, blocks
    <3>6. AtBoundary(f) => f.write = BlockSize /\ f.chain[blocks][BlockSize - 1] # Unset
      <4> SUFFICES ASSUME AtBoundary(f)
                   PROVE  f.write = BlockSize /\ f.chain[blocks][BlockSize - 1] # Unset
        OBVIOUS
      <4>1. f.write = BlockSize /\ Len(s) \in 1..Len(s) /\ blocks - 1 \in Nat
        BY <1>1, <2>4, <3>4 DEF AtBoundary
      <4>2. f.read + Len(s) - 1 = (blocks - 1) * BlockSize + (BlockSize - 1)
        BY <1>1, <2>1, <3>1, <3>3, <4>1
      <4>3. ((blocks - 1) * BlockSize + (BlockSize - 1)) \div BlockSize = blocks - 1
            /\ ((blocks - 1) * BlockSize + (BlockSize - 1)) % BlockSize = BlockSize - 1
        <5>1. BlockSize - 1 \in 0..(BlockSize - 1)
          BY <1>1
        <5>2. QED
          BY <1>1, <4>1, <5>1, Position
      <4>4. Content(f, f.read + Len(s) - 1) = f.chain[blocks - 1 + 1][BlockSize - 1]
        BY <4>2, <4>3 DEF Content
      <4>5. s[Len(s)] \in Item
        BY <1>1, <4>1
      <4>6. QED
        BY <1>1, <4>1, <4>4, <4>5
    <3>7. QED
      BY <1>1, <1>2, <1>4, <3>4, <3>5, <3>6 DEF blocks
  <2>5. blocks = 1 \/ blocks > 1
    <3>1. blocks \in Nat /\ blocks > 0
      BY <1>1, <2>1
    <3> HIDE DEF blocks
    <3>2. QED
      BY <3>1
  <2>6. QED
    BY <2>3, <2>4, <2>5
<1>5. QED
  BY <1>3, <1>4

(***************************************************************************)
(* The inductive invariant: each queue of a program has a chain of blocks  *)
(* that is well formed and holds the elements it should.                   *)
(***************************************************************************)
THEOREM FifoInvariance == ASSUME FifoAssumption PROVE FifoSpec => []FifoInv
<1>1. FifoInit => FifoInv
  BY InitFifo
<1>2. FifoInv /\ [FifoNext]_fifoVars => FifoInv'
  BY NextFifo
<1>3. QED
  BY <1>1, <1>2, PTL DEF FifoSpec

(***************************************************************************)
(* Whatever is put, got, copied, taken and swapped, the blocks of a queue  *)
(* hold exactly its elements in order, for blocks of any size and any      *)
(* number of queues and elements.                                          *)
(***************************************************************************)
THEOREM QueuesHoldTheirElements == ASSUME FifoAssumption PROVE FifoSpec => []HoldsItsElements
<1>1. FifoInv => HoldsItsElements
  <2> SUFFICES ASSUME FifoInv
               PROVE  HoldsItsElements
    OBVIOUS
  <2>1. \A q \in Queue : IsFifo(fifo[q]) /\ Holds(fifo[q], held[q])
    BY DEF FifoInv
  <2>2. ASSUME NEW q \in Queue
        PROVE  LET f == fifo[q] IN
               /\ Elements(f) = held[q]
               /\ IsEmpty(f) <=> held[q] = <<>> /\ ~(f.chain = <<>> /\ AtBoundary(f))
               /\ f.chain # <<>> => f.read < BlockSize /\ Len(f.chain) <= Len(held[q]) + 1
               /\ AtBoundary(f) =>
                     f.write = BlockSize
                     /\ (f.chain # <<>> => f.chain[Len(f.chain)][BlockSize - 1] # Unset)
    BY <2>1, FifoTells
  <2>3. queueCrashed => \E q \in Queue : AtBoundary(fifo[q])
    BY DEF FifoInv
  <2>4. QED
    BY <2>2, <2>3 DEF HoldsItsElements
<1>2. QED
  BY <1>1, FifoInvariance, PTL
-----------------------------------------------------------------------------
\* When an odd multiple of d is one of n, d is: true of the powers of 2.
OddsGoRound(n) ==
    \A d \in Nat, e \in Nat : (d * (2 * e + 1)) % n = 0 => d % n = 0

LEMMA Multiple ==
    ASSUME NEW n \in Nat \ {0}, NEW d \in Nat
    PROVE  d % n = 0 <=> \E q \in Nat : d = q * n
<1>1. ASSUME d % n = 0
      PROVE  \E q \in Nat : d = q * n
  <2>1. d \div n \in Nat /\ d = (d \div n) * n + 0
    BY <1>1, Divided
  <2>2. QED
    BY <2>1
<1>2. ASSUME NEW q \in Nat, d = q * n
      PROVE  d % n = 0
  <2>1. d = q * n + 0 /\ 0 \in 0..(n - 1)
    BY <1>2
  <2>2. QED
    BY <2>1, Position
<1>3. QED
  BY <1>1, <1>2

LEMMA Parity ==
    ASSUME NEW d \in Nat
    PROVE  \E e \in Nat : d = 2 * e \/ d = 2 * e + 1
<1>1. d \div 2 \in Nat /\ (d = 2 * (d \div 2) \/ d = 2 * (d \div 2) + 1)
  OBVIOUS
<1>2. QED
  BY <1>1

\* An even product with an odd number has an even factor.
LEMMA EvenFactor ==
    ASSUME NEW d \in Nat, NEW e \in Nat, NEW m \in Nat, d * (2 * e + 1) = 2 * m
    PROVE  \E h \in Nat : d = 2 * h
<1>1. PICK h \in Nat : d = 2 * h \/ d = 2 * h + 1
  BY Parity
<1>2. ASSUME d = 2 * h + 1
      PROVE  FALSE
  <2>1. d * (2 * e + 1) = 2 * (h * (2 * e + 1) + e) + 1
    BY <1>2
  <2>2. h * (2 * e + 1) + e \in Int
    OBVIOUS
  <2> DEFINE x == h * (2 * e + 1) + e
  <2>3. x \in Int /\ 2 * x + 1 = 2 * m
    BY <2>1, <2>2
  <2> HIDE DEF x
  <2>4. QED
    BY <2>3
<1>3. QED
  BY <1>1, <1>2

LEMMA OddsGoRoundTwice ==
    ASSUME NEW n \in Nat \ {0}, OddsGoRound(n)
    PROVE  OddsGoRound(2 * n)
<1> SUFFICES ASSUME NEW d \in Nat, NEW e \in Nat, (d * (2 * e + 1)) % (2 * n) = 0
             PROVE  d % (2 * n) = 0
  BY DEF OddsGoRound
<1> DEFINE s == 2 * e + 1
<1>1. s \in Nat /\ 2 * n \in Nat \ {0} /\ d * s \in Nat
  OBVIOUS
<1>2. PICK q \in Nat : d * s = q * (2 * n)
  <2>1. (d * s) % (2 * n) = 0
    OBVIOUS
  <2> HIDE DEF s
  <2>2. QED
    BY <1>1, <2>1, Multiple
<1>3. PICK h \in Nat : d = 2 * h
  <2>1. q * n \in Nat /\ q * (2 * n) = 2 * (q * n)
    OBVIOUS
  <2>2. d * (2 * e + 1) = 2 * (q * n)
    BY <1>2, <2>1
  <2>3. QED
    BY <2>1, <2>2, EvenFactor
<1> HIDE DEF s
<1>4. h * s = q * n
  <2>1. (2 * h) * s = 2 * (h * s) /\ q * (2 * n) = 2 * (q * n) /\ h * s \in Nat /\ q * n \in Nat
    BY <1>1
  <2>2. 2 * (h * s) = 2 * (q * n)
    BY <1>2, <1>3, <2>1
  <2>3. QED
    BY <2>1, <2>2
<1>5. (h * s) % n = 0
  BY <1>1, <1>4, Multiple
<1>6. h % n = 0
  BY <1>5 DEF OddsGoRound, s
<1>7. PICK p \in Nat : h = p * n
  BY <1>6, Multiple
<1>8. d = p * (2 * n)
  BY <1>3, <1>7
<1>9. QED
  BY <1>1, <1>8, Multiple

LEMMA OddsGoRoundFour == OddsGoRound(4)
<1>1. OddsGoRound(1)
  BY DEF OddsGoRound
<1>2. OddsGoRound(2 * 1) /\ 2 * 1 = 2
  BY <1>1, OddsGoRoundTwice
<1>3. OddsGoRound(2 * 2) /\ 2 * 2 = 4
  BY <1>2, OddsGoRoundTwice
<1>4. QED
  BY <1>3
-----------------------------------------------------------------------------
\* p is 4, 8, 16 and so on, n times.
Doubled(n, p) == p = [i \in 0..n |-> IF i = 0 THEN 4 ELSE 2 * p[i - 1]]

LEMMA DoubledExists ==
    ASSUME NEW n \in Nat
    PROVE  \E p : Doubled(n, p)
<1> DEFINE S == {m \in Nat : \E p : Doubled(m, p)}
<1>1. 0 \in S
  <2>1. Doubled(0, [i \in 0..0 |-> 4])
    BY DEF Doubled
  <2>2. QED
    BY <2>1
<1>2. ASSUME NEW m \in Nat, m \in S
      PROVE  m + 1 \in S
  <2>1. PICK p : Doubled(m, p)
    BY <1>2
  <2> DEFINE h == [i \in 0..(m + 1) |-> IF i = m + 1 THEN 2 * p[m] ELSE p[i]]
  <2>2. ASSUME NEW i \in 0..(m + 1)
        PROVE  h[i] = IF i = 0 THEN 4 ELSE 2 * h[i - 1]
    <3>1. CASE i = m + 1
      BY <1>2, <3>1
    <3>2. CASE i # m + 1
      <4>1. i \in 0..m /\ h[i] = p[i] /\ (i # 0 => i - 1 \in 0..(m + 1) /\ h[i - 1] = p[i - 1])
        BY <1>2, <3>2
      <4>2. p[i] = IF i = 0 THEN 4 ELSE 2 * p[i - 1]
        BY <2>1, <4>1 DEF Doubled
      <4>3. QED
        BY <4>1, <4>2
    <3>3. QED
      BY <3>1, <3>2
  <2>3. h = [i \in 0..(m + 1) |-> h[i]]
    OBVIOUS
  <2> HIDE DEF h
  <2>4. Doubled(m + 1, h)
    BY <2>2, <2>3 DEF Doubled
  <2>5. QED
    BY <1>2, <2>4
<1>3. Nat \subseteq S
  <2> HIDE DEF S
  <2>1. \A m \in Nat : m \in S => m + 1 \in S
    BY <1>2
  <2>2. QED
    BY <1>1, <2>1, Induction
<1>4. QED
  BY <1>3

LEMMA PowersOf2Are ==
    ASSUME NEW n \in Nat
    PROVE  \E p : Doubled(n, p) /\ PowersOf2(n) = {p[i] : i \in 0..n}
<1> DEFINE p == CHOOSE p : Doubled(n, p)
<1>1. Doubled(n, p)
  BY DoubledExists
<1>2. PowersOf2(n) = {p[i] : i \in 0..n}
  BY DEF PowersOf2, Doubled
<1>3. QED
  BY <1>1, <1>2

\* Every power is a number an odd step goes round, and so is its double.
LEMMA Powers ==
    ASSUME NEW n \in Nat, NEW p, Doubled(n, p), NEW m \in Nat, NEW q, Doubled(m, q), n <= m
    PROVE  \A i \in 0..n :
              /\ p[i] \in Nat /\ p[i] >= 4 /\ p[i] > i /\ p[i] = q[i]
              /\ OddsGoRound(p[i])
<1> DEFINE S == {i \in Nat : i <= n => /\ p[i] \in Nat /\ p[i] >= 4 /\ p[i] > i /\ p[i] = q[i]
                                       /\ OddsGoRound(p[i])}
<1>1. 0 \in S
  <2>1. p[0] = 4 /\ q[0] = 4
    BY DEF Doubled
  <2>2. QED
    BY <2>1, OddsGoRoundFour
<1>2. ASSUME NEW i \in Nat, i \in S
      PROVE  i + 1 \in S
  <2> SUFFICES ASSUME i + 1 <= n
               PROVE  /\ p[i + 1] \in Nat /\ p[i + 1] >= 4 /\ p[i + 1] > i + 1
                      /\ p[i + 1] = q[i + 1]
                      /\ OddsGoRound(p[i + 1])
    OBVIOUS
  <2>1. p[i] \in Nat /\ p[i] >= 4 /\ p[i] > i /\ p[i] = q[i] /\ OddsGoRound(p[i])
    BY <1>2
  <2>2. i + 1 \in 0..n /\ i + 1 \in 0..m /\ i + 1 # 0 /\ i + 1 - 1 = i
    OBVIOUS
  <2>3. p[i + 1] = 2 * p[i] /\ q[i + 1] = 2 * q[i]
    BY <2>2 DEF Doubled
  <2>4. OddsGoRound(2 * p[i])
    <3>1. p[i] \in Nat \ {0}
      BY <2>1
    <3>2. QED
      BY <2>1, <3>1, OddsGoRoundTwice
  <2>5. QED
    BY <2>1, <2>3, <2>4
<1>3. Nat \subseteq S
  <2> HIDE DEF S
  <2>1. \A i \in Nat : i \in S => i + 1 \in S
    BY <1>2
  <2>2. QED
    BY <1>1, <2>1, Induction
<1>4. QED
  BY <1>3

LEMMA PowerGoesRound ==
    ASSUME NEW n \in Nat, NEW m \in PowersOf2(n)
    PROVE  m \in Nat /\ m >= 4 /\ OddsGoRound(m)
<1>1. PICK p : Doubled(n, p) /\ PowersOf2(n) = {p[i] : i \in 0..n}
  BY PowersOf2Are
<1>2. PICK i \in 0..n : m = p[i]
  BY <1>1
<1>3. QED
  BY <1>1, <1>2, Powers

\* A power is one among those of its own number of doublings.
LEMMA PowerOfItself ==
    ASSUME NEW n \in Nat, NEW m \in PowersOf2(n), n <= m
    PROVE  m \in PowersOf2(m)
<1>1. PICK p : Doubled(n, p) /\ PowersOf2(n) = {p[i] : i \in 0..n}
  BY PowersOf2Are
<1>2. PICK i \in 0..n : m = p[i]
  BY <1>1
<1>3. m \in Nat
  BY PowerGoesRound
<1>4. PICK q : Doubled(m, q) /\ PowersOf2(m) = {q[j] : j \in 0..m}
  BY <1>3, PowersOf2Are
<1>5. p[i] = q[i]
  BY <1>1, <1>2, <1>3, <1>4, Powers
<1>6. QED
  BY <1>2, <1>3, <1>4, <1>5

LEMMA TwiceAPower ==
    ASSUME NEW n \in Nat, n \in PowersOf2(n)
    PROVE  2 * n \in PowersOf2(2 * n)
<1>1. PICK p : Doubled(n, p) /\ PowersOf2(n) = {p[i] : i \in 0..n}
  BY PowersOf2Are
<1>2. PICK i \in 0..n : n = p[i]
  BY <1>1
<1>3. PICK q : Doubled(2 * n, q) /\ PowersOf2(2 * n) = {q[j] : j \in 0..(2 * n)}
  BY PowersOf2Are
<1>4. p[i] = q[i] /\ n >= 4
  BY <1>1, <1>2, <1>3, Powers
<1>5. i + 1 \in 0..(2 * n) /\ i + 1 # 0 /\ i + 1 - 1 = i
  BY <1>2, <1>4
<1>6. q[i + 1] = 2 * q[i]
  BY <1>3, <1>5 DEF Doubled
<1>7. QED
  BY <1>2, <1>3, <1>4, <1>5, <1>6

LEMMA LeastOfSet ==
    ASSUME NEW T \in SUBSET Nat, T # {}
    PROVE  Min(T) \in T /\ \A x \in T : Min(T) <= x
BY LeastNumber DEF Min

\* Buckets are made for a power of 2 that is not less than asked.
LEMMA FirstPower ==
    ASSUME NEW n \in Nat
    PROVE  FirstPowerOf2(n) \in Nat /\ FirstPowerOf2(n) \in PowersOf2(FirstPowerOf2(n))
<1> DEFINE T == PowersOf2(n) \ 0..(n - 1)
<1>1. PICK p : Doubled(n, p) /\ PowersOf2(n) = {p[i] : i \in 0..n}
  BY PowersOf2Are
<1>2. p[n] \in Nat /\ p[n] > n
  BY <1>1, Powers
<1>3. p[n] \in T
  BY <1>1, <1>2
<1>4. T \in SUBSET Nat
  BY PowerGoesRound
<1>5. FirstPowerOf2(n) = Min(T)
  BY DEF FirstPowerOf2
<1> HIDE DEF T
<1>6. FirstPowerOf2(n) \in T
  BY <1>3, <1>4, <1>5, LeastOfSet
<1>7. FirstPowerOf2(n) \in PowersOf2(n) /\ FirstPowerOf2(n) \in Nat /\ n <= FirstPowerOf2(n)
  BY <1>4, <1>6 DEF T
<1>8. QED
  BY <1>7, PowerOfItself
-----------------------------------------------------------------------------
LEMMA NumBucketsIs ==
    ASSUME NEW n \in Nat \ {0}, NEW b, DOMAIN b = 0..(n - 1)
    PROVE  NumBuckets(b) = n
BY FS_Interval DEF NumBuckets

LEMMA TableSize ==
    ASSUME NEW b, IsTable(b)
    PROVE  /\ NumBuckets(b) \in Nat /\ NumBuckets(b) >= 4 /\ OddsGoRound(NumBuckets(b))
           /\ DOMAIN b = 0..(NumBuckets(b) - 1)
<1> DEFINE n == NumBuckets(b)
<1>1. DOMAIN b = 0..(n - 1) /\ n \in PowersOf2(n)
  BY DEF IsTable
<1>2. n \in Nat
  BY DEF IsTable
<1>3. QED
  BY <1>1, <1>2, PowerGoesRound

LEMMA StepIsOdd ==
    ASSUME HashAssumption, NEW k \in Key
    PROVE  \E e \in Nat : Step(k) = 2 * e + 1
<1> DEFINE s == Hash(k) \div 32768
<1>1. s \in Nat
  BY DEF HashAssumption
<1> HIDE DEF s
<1>2. s + 1 - (s % 2) = 2 * (s \div 2) + 1 /\ s \div 2 \in Nat
  BY <1>1
<1>3. QED
  BY <1>2 DEF Step, s

LEMMA PlaceType ==
    ASSUME HashAssumption, NEW b, IsTable(b), NEW k \in Key, NEW turn \in Nat
    PROVE  Place(b, k, turn) \in DOMAIN b
<1>1. NumBuckets(b) \in Nat \ {0} /\ DOMAIN b = 0..(NumBuckets(b) - 1)
  BY TableSize
<1>2. PICK e \in Nat : Step(k) = 2 * e + 1
  BY StepIsOdd
<1>3. Hash(k) \in Nat /\ turn * Step(k) \in Nat
  BY <1>2 DEF HashAssumption
<1>4. Hash(k) + turn * Step(k) \in Nat
  BY <1>3
<1>5. QED
  BY <1>1, <1>4, Divided DEF Place

\* Equal remainders are a multiple apart.
LEMMA SameRemainder ==
    ASSUME NEW n \in Nat \ {0}, NEW a \in Nat, NEW c \in Nat, a % n = (a + c) % n
    PROVE  c % n = 0
<1> DEFINE q1 == a \div n
           q2 == (a + c) \div n
           r == a % n
<1>1. q1 \in Nat /\ r \in Int /\ a = q1 * n + r
  <2>1. /\ a \div n \in Nat /\ a % n \in 0..(n - 1)
        /\ a = (a \div n) * n + (a % n)
    BY Divided
  <2>2. QED
    BY <2>1
<1>2. q2 \in Nat /\ a + c = q2 * n + r
  <2>1. a + c \in Nat
    OBVIOUS
  <2>2. QED
    BY <2>1, Divided
<1> HIDE DEF q1, q2, r
<1>3. c = (q2 - q1) * n
  BY <1>1, <1>2
<1>4. q2 - q1 \in Nat
  <2>1. ASSUME q2 - q1 < 0
        PROVE  FALSE
    <3>1. PICK z \in Nat : q1 = q2 + z + 1
      <4>1. q1 - q2 - 1 \in Nat /\ q1 = q2 + (q1 - q2 - 1) + 1
        BY <1>1, <1>2, <2>1
      <4>2. QED
        BY <4>1
    <3>2. c + (z * n + n) = 0
      BY <1>1, <1>2, <1>3, <3>1
    <3>3. z * n \in Nat
      OBVIOUS
    <3>4. QED
      BY <3>2, <3>3
  <2>2. QED
    BY <1>1, <1>2, <2>1
<1>5. QED
  BY <1>3, <1>4, Multiple

\* An odd step does not come back to a bucket before it has met all.
LEMMA PlacesDiffer ==
    ASSUME HashAssumption, NEW b, IsTable(b), NEW k \in Key,
           NEW t \in 0..(NumBuckets(b) - 1), NEW u \in 0..(NumBuckets(b) - 1), t < u
    PROVE  Place(b, k, t) # Place(b, k, u)
<1> SUFFICES ASSUME Place(b, k, t) = Place(b, k, u)
             PROVE  FALSE
  OBVIOUS
<1> DEFINE n == NumBuckets(b)
           h == Hash(k)
           s == Step(k)
           d == u - t
<1>1. n \in Nat \ {0} /\ OddsGoRound(n) /\ d \in Nat /\ d < n /\ d # 0
  BY TableSize
<1>2. PICK e \in Nat : s = 2 * e + 1
  BY StepIsOdd
<1>3. h \in Nat /\ s \in Nat
  BY <1>2 DEF HashAssumption
<1>4. (h + t * s) % n = (h + u * s) % n
  BY DEF Place
<1> HIDE DEF n, h, s
<1>5. h + t * s \in Nat /\ d * s \in Nat /\ h + u * s = (h + t * s) + d * s
  <2>1. u * s = t * s + d * s /\ t * s \in Nat /\ u * s \in Nat /\ d * s \in Nat
    BY <1>1, <1>3
  <2> HIDE DEF d
  <2>2. QED
    BY <1>3, <2>1
<1> HIDE DEF d
<1>6. (d * s) % n = 0
  BY <1>1, <1>4, <1>5, SameRemainder
<1>7. d % n = 0
  BY <1>1, <1>2, <1>6 DEF OddsGoRound
<1>8. d = 0 * n + d /\ d \in 0..(n - 1) /\ 0 \in Nat
  BY <1>1
<1>9. d % n = d
  BY <1>1, <1>8, Position
<1>10. QED
  BY <1>1, <1>7, <1>9

\* The places of a key are all the buckets.
LEMMA PlacesCover ==
    ASSUME HashAssumption, NEW b, IsTable(b), NEW k \in Key, NEW i \in DOMAIN b
    PROVE  \E t \in 0..(NumBuckets(b) - 1) : Place(b, k, t) = i
<1> DEFINE D == DOMAIN b
           f == [t \in D |-> Place(b, k, t)]
<1>1. D = 0..(NumBuckets(b) - 1) /\ NumBuckets(b) \in Nat
  BY TableSize
<1>2. IsFiniteSet(D)
  BY <1>1, FS_Interval
<1>3. f \in [D -> D]
  <2>1. \A t \in D : Place(b, k, t) \in D
    <3>1. D \subseteq Nat
      BY <1>1
    <3>2. QED
      BY <3>1, PlaceType
  <2>2. QED
    BY <2>1
<1>4. \A t, u \in D : f[t] = f[u] => t = u
  <2>1. \A t, u \in D : t < u => f[t] # f[u]
    BY <1>1, PlacesDiffer
  <2>2. QED
    BY <1>1, <2>1
<1> HIDE DEF f, D
<1>5. f \in Injection(D, D)
  BY <1>3, <1>4 DEF Injection, IsInjective
<1>6. f \in Surjection(D, D)
  BY <1>2, <1>5, FS_Injection
<1>7. PICK t \in D : f[t] = i
  BY <1>6 DEF Surjection, D
<1>8. QED
  BY <1>1, <1>7 DEF f, D
-----------------------------------------------------------------------------
\* The entries of the time are as many as the keys, and a bucket is free.
LEMMA WalkedSize ==
    ASSUME HashAssumption, NEW b, NEW stamp, NEW d, IsTableOf(b, stamp, d)
    PROVE  /\ IsFiniteSet(Walked(b, stamp)) /\ Cardinality(Walked(b, stamp)) = Cardinality(DOMAIN d)
           /\ {b[i].key : i \in Walked(b, stamp)} = DOMAIN d
           /\ \E i \in DOMAIN b : b[i].stamp # stamp
<1> DEFINE W == Walked(b, stamp)
           f == [i \in W |-> b[i].key]
<1>1. /\ NumBuckets(b) \in Nat /\ DOMAIN b = 0..(NumBuckets(b) - 1) /\ NumBuckets(b) >= 4
      /\ Cardinality(DOMAIN d) < NumBuckets(b) /\ DOMAIN d \subseteq Key
  BY TableSize DEF IsTableOf, IsDict
<1>2. IsFiniteSet(DOMAIN b) /\ Cardinality(DOMAIN b) = NumBuckets(b)
  BY <1>1, FS_Interval DEF NumBuckets
<1>3. W \subseteq DOMAIN b /\ IsFiniteSet(W)
  BY <1>2, FS_Subset DEF Walked
<1>4. \A i \in W : b[i].key \in DOMAIN d /\ \A j \in W : b[i].key = b[j].key => i = j
  BY DEF IsTableOf
<1>5. ASSUME NEW k \in DOMAIN d
      PROVE  \E i \in W : b[i].key = k
  <2>1. PICK turn \in 0..(NumBuckets(b) - 1) : Reached(b, stamp, k, d[k], turn)
    BY <1>5 DEF IsTableOf
  <2>2. b[Place(b, k, turn)] = [key |-> k, datum |-> d[k], stamp |-> stamp]
    BY <2>1 DEF Reached
  <2>3. Place(b, k, turn) \in DOMAIN b
    <3>1. IsTable(b) /\ k \in Key /\ turn \in Nat
      BY <1>1 DEF IsTableOf
    <3>2. QED
      BY <3>1, PlaceType
  <2>4. QED
    BY <2>2, <2>3 DEF Walked
<1>6. f \in [W -> DOMAIN d] /\ f \in Injection(W, DOMAIN d) /\ f \in Surjection(W, DOMAIN d)
  <2>1. f \in [W -> DOMAIN d]
    BY <1>4
  <2>2. \A i, j \in W : f[i] = f[j] => i = j
    BY <1>4
  <2>3. \A k \in DOMAIN d : \E i \in W : f[i] = k
    BY <1>5
  <2> HIDE DEF f, W
  <2>4. QED
    BY <2>1, <2>2, <2>3 DEF Injection, IsInjective, Surjection
<1> HIDE DEF f
<1>7. Cardinality(DOMAIN d) = Cardinality(W)
  BY <1>3, <1>6, FS_Surjection
<1>8. {b[i].key : i \in W} = DOMAIN d
  BY <1>4, <1>5
<1>9. \E i \in DOMAIN b : b[i].stamp # stamp
  <2> SUFFICES ASSUME \A i \in DOMAIN b : b[i].stamp = stamp
               PROVE  FALSE
    OBVIOUS
  <2>1. W = DOMAIN b
    BY DEF Walked
  <2>2. QED
    BY <1>1, <1>2, <1>7, <2>1
<1>10. QED
  BY <1>3, <1>7, <1>8, <1>9

\* A search for k stops at its bucket t, and at none before.
StopsAt(b, stamp, k, t) ==
    /\ t \in 0..(NumBuckets(b) - 1) /\ Stops(b, stamp, k) = Place(b, k, t)
    /\ b[Place(b, k, t)].stamp # stamp \/ b[Place(b, k, t)].key = k
    /\ \A u \in 0..(t - 1) : b[Place(b, k, u)].stamp = stamp /\ b[Place(b, k, u)].key # k

\* A search ends.
LEMMA SearchStops ==
    ASSUME HashAssumption, NEW b, NEW stamp, NEW d, IsTableOf(b, stamp, d), NEW k \in Key
    PROVE  \E t : StopsAt(b, stamp, k, t) /\ Stops(b, stamp, k) \in DOMAIN b
<1> DEFINE D == 0..(NumBuckets(b) - 1)
           T == {turn \in D : b[Place(b, k, turn)].stamp # stamp \/ b[Place(b, k, turn)].key = k}
<1>1. IsTable(b) /\ NumBuckets(b) \in Nat
  BY TableSize DEF IsTableOf
<1>2. PICK i \in DOMAIN b : b[i].stamp # stamp
  BY WalkedSize
<1>3. PICK turn \in D : Place(b, k, turn) = i
  BY <1>1, PlacesCover
<1>4. T \in SUBSET Nat /\ T # {}
  BY <1>1, <1>2, <1>3
<1>5. Stops(b, stamp, k) = Place(b, k, Min(T))
  BY DEF Stops
<1> DEFINE t == Min(T)
<1>6. t \in T /\ \A x \in T : t <= x
  <2> HIDE DEF T
  <2>1. QED
    BY <1>4, LeastOfSet
<1> HIDE DEF t
<1>7. ASSUME NEW u \in 0..(t - 1)
      PROVE  b[Place(b, k, u)].stamp = stamp /\ b[Place(b, k, u)].key # k
  <2>1. u \in D /\ ~(t <= u)
    BY <1>1, <1>6
  <2>2. QED
    BY <1>6, <2>1
<1>8. StopsAt(b, stamp, k, t)
  BY <1>5, <1>6, <1>7 DEF StopsAt, t
<1>9. Place(b, k, t) \in DOMAIN b
  BY <1>1, <1>6, PlaceType
<1>10. QED
  BY <1>5, <1>8, <1>9 DEF t

\* It ends at the entry of the key when there is one, else at a free bucket.
LEMMA SearchFinds ==
    ASSUME HashAssumption, NEW b, NEW stamp, NEW d, IsTableOf(b, stamp, d), NEW k \in Key
    PROVE  IF k \in DOMAIN d
           THEN b[Stops(b, stamp, k)] = [key |-> k, datum |-> d[k], stamp |-> stamp]
           ELSE b[Stops(b, stamp, k)].stamp # stamp
<1>1. PICK t : StopsAt(b, stamp, k, t) /\ Stops(b, stamp, k) \in DOMAIN b
  BY SearchStops
<1>2. /\ t \in 0..(NumBuckets(b) - 1) /\ Stops(b, stamp, k) = Place(b, k, t)
      /\ b[Place(b, k, t)].stamp # stamp \/ b[Place(b, k, t)].key = k
      /\ \A u \in 0..(t - 1) : b[Place(b, k, u)].stamp = stamp /\ b[Place(b, k, u)].key # k
  BY <1>1 DEF StopsAt
<1>3. NumBuckets(b) \in Nat
  BY TableSize DEF IsTableOf
<1>4. CASE k \in DOMAIN d
  <2>1. PICK turn \in 0..(NumBuckets(b) - 1) : Reached(b, stamp, k, d[k], turn)
    BY <1>4 DEF IsTableOf
  <2>2. /\ b[Place(b, k, turn)] = [key |-> k, datum |-> d[k], stamp |-> stamp]
        /\ \A u \in 0..(turn - 1) : b[Place(b, k, u)].stamp = stamp /\ b[Place(b, k, u)].key # k
    BY <2>1 DEF Reached
  <2>3. ~(t < turn)
    BY <1>2, <1>3, <2>2
  <2>4. ~(turn < t)
    <3>1. b[Place(b, k, turn)].key = k
      BY <2>2
    <3>2. QED
      BY <1>2, <1>3, <3>1
  <2>5. t = turn
    BY <1>2, <1>3, <2>3, <2>4
  <2>6. QED
    BY <1>2, <1>4, <2>2, <2>5
<1>5. CASE k \notin DOMAIN d
  <2>1. ASSUME b[Stops(b, stamp, k)].stamp = stamp
        PROVE  FALSE
    <3>1. Stops(b, stamp, k) \in Walked(b, stamp)
      BY <1>1, <2>1 DEF Walked
    <3>2. b[Stops(b, stamp, k)].key = k
      BY <1>2, <2>1
    <3>3. QED
      BY <1>5, <3>1, <3>2 DEF IsTableOf
  <2>2. QED
    BY <1>5, <2>1
<1>6. QED
  BY <1>4, <1>5
-----------------------------------------------------------------------------
LEMMA SamePlaces ==
    ASSUME NEW b, NEW c, DOMAIN c = DOMAIN b
    PROVE  NumBuckets(c) = NumBuckets(b) /\ \A k, turn : Place(c, k, turn) = Place(b, k, turn)
BY DEF Place, NumBuckets

LEMMA ExtendedDict ==
    ASSUME NEW d, IsDict(d), NEW k \in Key, NEW x \in Datum
    PROVE  /\ IsDict(Extended(d, k, x)) /\ DOMAIN Extended(d, k, x) = DOMAIN d \cup {k}
           /\ Extended(d, k, x)[k] = x
           /\ \A y \in DOMAIN d : y # k => Extended(d, k, x)[y] = d[y]
           /\ Cardinality(DOMAIN Extended(d, k, x))
                = IF k \in DOMAIN d THEN Cardinality(DOMAIN d) ELSE Cardinality(DOMAIN d) + 1
<1>1. d \in [DOMAIN d -> Datum] /\ DOMAIN d \subseteq Key /\ IsFiniteSet(DOMAIN d)
  BY DEF IsDict
<1> DEFINE e == Extended(d, k, x)
<1>2. /\ DOMAIN e = DOMAIN d \cup {k} /\ e[k] = x
      /\ \A y \in DOMAIN d : y # k => e[y] = d[y]
      /\ e \in [DOMAIN d \cup {k} -> Datum]
  BY <1>1 DEF Extended
<1>3. IsFiniteSet(DOMAIN d \cup {k})
      /\ Cardinality(DOMAIN d \cup {k})
           = IF k \in DOMAIN d THEN Cardinality(DOMAIN d) ELSE Cardinality(DOMAIN d) + 1
  BY <1>1, FS_AddElement
<1> HIDE DEF e
<1>4. IsDict(e)
  BY <1>1, <1>2, <1>3 DEF IsDict
<1>5. QED
  BY <1>2, <1>3, <1>4 DEF e

\* A new key takes the free bucket at which its search stops.
LEMMA NewEntry ==
    ASSUME HashAssumption, NEW b, NEW stamp, NEW d, IsTableOf(b, stamp, d),
           NEW k \in Key, NEW x \in Datum, k \notin DOMAIN d,
           Cardinality(DOMAIN d) + 1 < NumBuckets(b)
    PROVE  LET c == [b EXCEPT ![Stops(b, stamp, k)] = [key |-> k, datum |-> x, stamp |-> stamp]]
           IN IsTableOf(c, stamp, Extended(d, k, x)) /\ NumBuckets(c) = NumBuckets(b)
<1> DEFINE at == Stops(b, stamp, k)
           new == [key |-> k, datum |-> x, stamp |-> stamp]
           c == [b EXCEPT ![at] = new]
           e == Extended(d, k, x)
           n == NumBuckets(b)
<1>1. /\ IsTable(b) /\ IsDict(d) /\ stamp \in 1..MaxStamp /\ MaxStamp \in Nat
      /\ \A i \in DOMAIN b : b[i].stamp <= stamp
      /\ \A i \in Walked(b, stamp) :
            /\ b[i].key \in DOMAIN d
            /\ \A j \in Walked(b, stamp) : b[i].key = b[j].key => i = j
      /\ \A y \in DOMAIN d : \E turn \in 0..(n - 1) : Reached(b, stamp, y, d[y], turn)
  BY DEF IsTableOf, HashAssumption
<1>2. /\ n \in Nat /\ n \in PowersOf2(n) /\ DOMAIN b = 0..(n - 1)
      /\ b \in [0..(n - 1) -> Entry]
  BY <1>1 DEF IsTable
<1>3. /\ IsDict(e) /\ DOMAIN e = DOMAIN d \cup {k} /\ e[k] = x
      /\ \A y \in DOMAIN d : y # k => e[y] = d[y]
      /\ Cardinality(DOMAIN e) = Cardinality(DOMAIN d) + 1
  <2>1. /\ IsDict(e) /\ DOMAIN e = DOMAIN d \cup {k} /\ e[k] = x
        /\ \A y \in DOMAIN d : y # k => e[y] = d[y]
        /\ Cardinality(DOMAIN e)
             = IF k \in DOMAIN d THEN Cardinality(DOMAIN d) ELSE Cardinality(DOMAIN d) + 1
    <3>1. IsDict(d)
      BY <1>1
    <3>2. QED
      BY <3>1, ExtendedDict
  <2> HIDE DEF e
  <2>2. QED
    BY <2>1
<1>4. at \in DOMAIN b /\ b[at].stamp # stamp
  BY SearchStops, SearchFinds
<1>5. PICK t : StopsAt(b, stamp, k, t)
  BY SearchStops
<1> HIDE DEF e
<1>6. new \in Entry /\ new.stamp = stamp /\ new.key = k
  BY <1>1 DEF Entry
<1> HIDE DEF new, n, at
<1>7. /\ DOMAIN c = DOMAIN b /\ c[at] = new /\ \A i \in DOMAIN b : i # at => c[i] = b[i]
      /\ c \in [0..(n - 1) -> Entry]
  BY <1>2, <1>4, <1>6
<1> HIDE DEF c
<1>8. NumBuckets(c) = n /\ \A y, turn : Place(c, y, turn) = Place(b, y, turn)
  BY <1>7, SamePlaces DEF n
<1>9. IsTable(c)
  BY <1>2, <1>7, <1>8 DEF IsTable
<1>10. \A i \in DOMAIN c : c[i].stamp <= stamp
  BY <1>1, <1>6, <1>7
<1>11. Walked(c, stamp) = Walked(b, stamp) \cup {at} /\ at \notin Walked(b, stamp)
  BY <1>4, <1>6, <1>7 DEF Walked
<1>12. ASSUME NEW i \in Walked(c, stamp)
       PROVE  /\ c[i].key \in DOMAIN e
              /\ \A j \in Walked(c, stamp) : c[i].key = c[j].key => i = j
  <2>1. \A j \in Walked(b, stamp) : c[j] = b[j] /\ j # at /\ c[j].key \in DOMAIN d
    BY <1>1, <1>7, <1>11 DEF Walked
  <2>2. c[at].key = k
    BY <1>6, <1>7
  <2>3. QED
    BY <1>1, <1>3, <1>11, <2>1, <2>2
<1>13. ASSUME NEW y \in DOMAIN e
       PROVE  \E turn \in 0..(NumBuckets(c) - 1) : Reached(c, stamp, y, e[y], turn)
  <2>1. CASE y = k
    <3>1. /\ t \in 0..(n - 1) /\ at = Place(b, k, t)
          /\ \A u \in 0..(t - 1) : b[Place(b, k, u)].stamp = stamp /\ b[Place(b, k, u)].key # k
      BY <1>5 DEF StopsAt, n, at
    <3>2. \A u \in 0..(t - 1) : Place(b, k, u) \in DOMAIN b /\ Place(b, k, u) # at
      <4>1. \A u \in 0..(t - 1) : u \in Nat
        BY <1>2, <3>1
      <4>2. QED
        BY <1>1, <1>4, <3>1, <4>1, PlaceType
    <3>3. Reached(c, stamp, k, e[k], t)
      BY <1>3, <1>7, <1>8, <3>1, <3>2 DEF Reached, new
    <3>4. QED
      BY <1>8, <2>1, <3>1, <3>3
  <2>2. CASE y # k
    <3>1. y \in DOMAIN d /\ e[y] = d[y] /\ y \in Key
      BY <1>1, <1>3, <2>2 DEF IsDict
    <3>2. PICK turn \in 0..(n - 1) : Reached(b, stamp, y, d[y], turn)
      BY <1>1, <3>1
    <3>3. /\ b[Place(b, y, turn)] = [key |-> y, datum |-> d[y], stamp |-> stamp]
          /\ \A u \in 0..(turn - 1) : b[Place(b, y, u)].stamp = stamp /\ b[Place(b, y, u)].key # y
      BY <3>2 DEF Reached
    <3>4. \A u \in 0..turn : Place(b, y, u) \in DOMAIN b
      <4>1. \A u \in 0..turn : u \in Nat
        BY <1>2
      <4>2. QED
        BY <1>1, <3>1, <4>1, PlaceType
    <3>5. \A u \in 0..turn : b[Place(b, y, u)].stamp = stamp
      <4>1. \A u \in 0..turn : u = turn \/ u \in 0..(turn - 1)
        BY <1>2
      <4>2. QED
        BY <3>3, <4>1
    <3>6. \A u \in 0..turn : c[Place(b, y, u)] = b[Place(b, y, u)]
      BY <1>4, <1>7, <3>4, <3>5
    <3>7. turn \in 0..turn /\ \A u \in 0..(turn - 1) : u \in 0..turn
      BY <1>2
    <3>8. Reached(c, stamp, y, e[y], turn)
      BY <1>8, <3>1, <3>3, <3>6, <3>7 DEF Reached
    <3>9. QED
      BY <1>8, <3>8
  <2>3. QED
    BY <2>1, <2>2
<1>14. Cardinality(DOMAIN e) < NumBuckets(c)
  BY <1>3, <1>8 DEF n
<1>15. IsTableOf(c, stamp, e)
  BY <1>1, <1>3, <1>9, <1>10, <1>12, <1>13, <1>14 DEF IsTableOf
<1>16. QED
  BY <1>8, <1>15 DEF c, e, n, at, new

\* A key in the table keeps its entry, with another datum.
LEMMA ChangedEntry ==
    ASSUME HashAssumption, NEW b, NEW stamp, NEW d, IsTableOf(b, stamp, d),
           NEW k \in DOMAIN d, NEW x \in Datum
    PROVE  IsTableOf([b EXCEPT ![Stops(b, stamp, k)].datum = x], stamp, Extended(d, k, x))
<1> DEFINE at == Stops(b, stamp, k)
           c == [b EXCEPT ![at].datum = x]
           e == Extended(d, k, x)
           n == NumBuckets(b)
<1>1. /\ IsTable(b) /\ IsDict(d) /\ stamp \in 1..MaxStamp /\ Cardinality(DOMAIN d) < n
      /\ \A i \in DOMAIN b : b[i].stamp <= stamp
      /\ \A i \in Walked(b, stamp) :
            /\ b[i].key \in DOMAIN d
            /\ \A j \in Walked(b, stamp) : b[i].key = b[j].key => i = j
      /\ \A y \in DOMAIN d : \E turn \in 0..(n - 1) : Reached(b, stamp, y, d[y], turn)
  BY DEF IsTableOf
<1>2. /\ n \in Nat /\ n \in PowersOf2(n) /\ DOMAIN b = 0..(n - 1)
      /\ b \in [0..(n - 1) -> Entry] /\ k \in Key /\ DOMAIN d \subseteq Key
  BY <1>1 DEF IsTable, IsDict
<1>3. /\ IsDict(e) /\ DOMAIN e = DOMAIN d \cup {k} /\ e[k] = x
      /\ \A y \in DOMAIN d : y # k => e[y] = d[y]
      /\ Cardinality(DOMAIN e)
           = IF k \in DOMAIN d THEN Cardinality(DOMAIN d) ELSE Cardinality(DOMAIN d) + 1
  <2>1. IsDict(d) /\ k \in Key
    BY <1>1, <1>2
  <2>2. QED
    BY <2>1, ExtendedDict
<1> HIDE DEF e
<1>4. DOMAIN e = DOMAIN d /\ Cardinality(DOMAIN e) = Cardinality(DOMAIN d)
  BY <1>3
<1>5. at \in DOMAIN b /\ b[at] = [key |-> k, datum |-> d[k], stamp |-> stamp]
  BY <1>2, SearchStops, SearchFinds
<1> HIDE DEF at, n
<1>6. /\ DOMAIN c = DOMAIN b /\ c \in [0..(n - 1) -> Entry]
      /\ c[at] = [key |-> k, datum |-> x, stamp |-> stamp]
      /\ \A i \in DOMAIN b : i # at => c[i] = b[i]
  <2>1. c[at] = [key |-> k, datum |-> x, stamp |-> stamp]
    BY <1>5
  <2>2. [key |-> k, datum |-> x, stamp |-> stamp] \in Entry
    BY <1>1, <1>2 DEF Entry, HashAssumption
  <2>3. /\ DOMAIN c = DOMAIN b /\ \A i \in DOMAIN b : i # at => c[i] = b[i]
        /\ c = [i \in DOMAIN b |-> c[i]]
    OBVIOUS
  <2> HIDE DEF c
  <2>4. \A i \in DOMAIN b : c[i] \in Entry
    BY <1>2, <2>1, <2>2, <2>3
  <2>5. QED
    BY <1>2, <2>1, <2>3, <2>4
<1> HIDE DEF c
<1>7. \A i \in DOMAIN b : c[i].key = b[i].key /\ c[i].stamp = b[i].stamp
  BY <1>5, <1>6
<1>8. NumBuckets(c) = n /\ \A y, turn : Place(c, y, turn) = Place(b, y, turn)
  BY <1>6, SamePlaces DEF n
<1>9. IsTable(c)
  BY <1>2, <1>6, <1>8 DEF IsTable
<1>10. \A i \in DOMAIN c : c[i].stamp <= stamp
  BY <1>1, <1>6, <1>7
<1>11. Walked(c, stamp) = Walked(b, stamp)
  BY <1>6, <1>7 DEF Walked
<1>12. ASSUME NEW i \in Walked(c, stamp)
       PROVE  /\ c[i].key \in DOMAIN e
              /\ \A j \in Walked(c, stamp) : c[i].key = c[j].key => i = j
  <2>1. \A j \in Walked(b, stamp) : c[j].key = b[j].key
    BY <1>7 DEF Walked
  <2>2. QED
    BY <1>1, <1>4, <1>11, <2>1
<1>13. ASSUME NEW y \in DOMAIN e
       PROVE  \E turn \in 0..(NumBuckets(c) - 1) : Reached(c, stamp, y, e[y], turn)
  <2>1. PICK turn \in 0..(n - 1) : Reached(b, stamp, y, d[y], turn)
    BY <1>1, <1>4
  <2>2. /\ b[Place(b, y, turn)] = [key |-> y, datum |-> d[y], stamp |-> stamp]
        /\ \A u \in 0..(turn - 1) : b[Place(b, y, u)].stamp = stamp /\ b[Place(b, y, u)].key # y
    BY <2>1 DEF Reached
  <2>3. \A u \in Nat : Place(b, y, u) \in DOMAIN b
    BY <1>1, <1>2, <1>4, PlaceType
  <2>4. turn \in Nat /\ \A u \in 0..(turn - 1) : u \in Nat
    BY <1>2
  <2>5. Place(b, y, turn) = at <=> y = k
    <3>1. at \in Walked(b, stamp) /\ Place(b, y, turn) \in Walked(b, stamp)
      BY <1>5, <2>2, <2>3, <2>4 DEF Walked
    <3>2. b[at].key = k /\ b[Place(b, y, turn)].key = y
      BY <1>5, <2>2
    <3>3. QED
      BY <1>1, <3>1, <3>2
  <2>6. c[Place(b, y, turn)] = [key |-> y, datum |-> e[y], stamp |-> stamp]
    BY <1>3, <1>4, <1>6, <2>2, <2>3, <2>4, <2>5
  <2>7. \A u \in 0..(turn - 1) : c[Place(b, y, u)].stamp = stamp /\ c[Place(b, y, u)].key # y
    BY <1>7, <2>2, <2>3, <2>4
  <2>8. Reached(c, stamp, y, e[y], turn)
    BY <1>8, <2>6, <2>7 DEF Reached
  <2>9. QED
    BY <1>8, <2>8
<1>14. Cardinality(DOMAIN e) < NumBuckets(c)
  BY <1>1, <1>4, <1>8
<1>15. IsTableOf(c, stamp, e)
  BY <1>1, <1>3, <1>9, <1>10, <1>12, <1>13, <1>14 DEF IsTableOf
<1>16. QED
  BY <1>15 DEF c, e, at

\* The dictionary of a table that was cleared.
NoKeys == [k \in {} |-> DefaultDatum]

LEMMA EmptyDict ==
    IsDict(NoKeys) /\ DOMAIN NoKeys = {} /\ Cardinality(DOMAIN NoKeys) = 0
<1>1. DOMAIN NoKeys = {} /\ NoKeys \in [{} -> Datum]
  BY DEF NoKeys
<1>2. QED
  BY <1>1, FS_EmptySet DEF IsDict

\* A table none of whose entries is of the time is that of no keys.
LEMMA NothingOfTheTime ==
    ASSUME HashAssumption, NEW b, IsTable(b), NEW stamp \in 1..MaxStamp,
           \A i \in DOMAIN b : b[i].stamp < stamp
    PROVE  IsTableOf(b, stamp, NoKeys)
<1>1. NumBuckets(b) \in Nat /\ NumBuckets(b) >= 4 /\ b \in [DOMAIN b -> Entry] /\ MaxStamp \in Nat
  BY TableSize DEF IsTable, HashAssumption
<1>2. \A i \in DOMAIN b : b[i].stamp \in Nat /\ b[i].stamp <= stamp /\ b[i].stamp # stamp
  BY <1>1 DEF Entry
<1>3. Walked(b, stamp) = {}
  BY <1>2 DEF Walked
<1>4. QED
  BY <1>1, <1>2, <1>3, EmptyDict DEF IsTableOf

LEMMA NewTable ==
    ASSUME HashAssumption, NEW n \in Nat, n \in PowersOf2(n)
    PROVE  IsTableOf(Buckets(n), 1, NoKeys) /\ NumBuckets(Buckets(n)) = n
<1>1. n >= 4 /\ MaxStamp \in Nat \ {0}
  BY PowerGoesRound DEF HashAssumption
<1>2. DOMAIN Buckets(n) = 0..(n - 1) /\ n \in Nat \ {0}
  BY <1>1 DEF Buckets
<1>3. NumBuckets(Buckets(n)) = n
  BY <1>2, NumBucketsIs
<1>4. Buckets(n) \in [0..(n - 1) -> Entry] /\ \A i \in 0..(n - 1) : Buckets(n)[i].stamp = 0
  BY <1>1 DEF Buckets, Entry, HashAssumption
<1>5. IsTable(Buckets(n))
  BY <1>3, <1>4 DEF IsTable
<1>6. QED
  BY <1>1, <1>2, <1>3, <1>4, <1>5, NothingOfTheTime
-----------------------------------------------------------------------------
\* g[i] is the table of n buckets to which the first i buckets of old were moved.
Moving(old, stamp, n, m, g) ==
    g = [i \in 0..m |-> IF i = 0 THEN Buckets(n)
                        ELSE IF old[i - 1].stamp # stamp THEN g[i - 1]
                        ELSE MovedTo(g[i - 1], old[i - 1])]

LEMMA MovingExists ==
    ASSUME NEW old, NEW stamp, NEW n, NEW m \in Nat
    PROVE  \E g : Moving(old, stamp, n, m, g)
<1> DEFINE S == {r \in Nat : \E g : Moving(old, stamp, n, r, g)}
<1>1. 0 \in S
  <2>1. Moving(old, stamp, n, 0, [i \in 0..0 |-> Buckets(n)])
    BY DEF Moving
  <2>2. QED
    BY <2>1
<1>2. ASSUME NEW r \in Nat, r \in S
      PROVE  r + 1 \in S
  <2>1. PICK g : Moving(old, stamp, n, r, g)
    BY <1>2
  <2> DEFINE h == [i \in 0..(r + 1) |->
                     IF i = r + 1 THEN IF old[r].stamp # stamp THEN g[r] ELSE MovedTo(g[r], old[r])
                     ELSE g[i]]
  <2>2. ASSUME NEW i \in 0..(r + 1)
        PROVE  h[i] = IF i = 0 THEN Buckets(n)
                      ELSE IF old[i - 1].stamp # stamp THEN h[i - 1]
                      ELSE MovedTo(h[i - 1], old[i - 1])
    <3>1. CASE i = r + 1
      BY <1>2, <3>1
    <3>2. CASE i # r + 1
      <4>1. i \in 0..r /\ h[i] = g[i] /\ (i # 0 => i - 1 \in 0..(r + 1) /\ h[i - 1] = g[i - 1])
        BY <1>2, <3>2
      <4>2. g[i] = IF i = 0 THEN Buckets(n)
                   ELSE IF old[i - 1].stamp # stamp THEN g[i - 1]
                   ELSE MovedTo(g[i - 1], old[i - 1])
        BY <2>1, <4>1 DEF Moving
      <4>3. QED
        BY <4>1, <4>2
    <3>3. QED
      BY <3>1, <3>2
  <2>3. h = [i \in 0..(r + 1) |-> h[i]]
    OBVIOUS
  <2> HIDE DEF h
  <2>4. Moving(old, stamp, n, r + 1, h)
    BY <2>2, <2>3 DEF Moving
  <2>5. QED
    BY <1>2, <2>4
<1>3. Nat \subseteq S
  <2> HIDE DEF S
  <2>1. \A r \in Nat : r \in S => r + 1 \in S
    BY <1>2
  <2>2. QED
    BY <1>1, <2>1, Induction
<1>4. QED
  BY <1>3

\* The keys of the time in the first i buckets, with their data.
DictBefore(old, stamp, d, i) ==
    [k \in {old[j].key : j \in {j \in 0..(i - 1) : old[j].stamp = stamp}} |-> d[k]]

\* An entry of the time is that of its key.
LEMMA EntryOfTime ==
    ASSUME HashAssumption, NEW b, NEW stamp, NEW d, IsTableOf(b, stamp, d),
           NEW i \in Walked(b, stamp)
    PROVE  b[i].key \in DOMAIN d /\ b[i] = [key |-> b[i].key, datum |-> d[b[i].key], stamp |-> stamp]
<1> DEFINE k == b[i].key
           s == Stops(b, stamp, k)
<1>1. k \in DOMAIN d /\ k \in Key
  BY DEF IsTableOf, IsDict
<1>2. b[s] = [key |-> k, datum |-> d[k], stamp |-> stamp] /\ s \in DOMAIN b
  BY <1>1, SearchStops, SearchFinds
<1> HIDE DEF s
<1>3. s \in Walked(b, stamp) /\ b[s].key = k
  BY <1>2 DEF Walked
<1>4. s = i
  BY <1>3 DEF IsTableOf
<1>5. QED
  BY <1>1, <1>2, <1>4

\* Moved to other buckets, a table is that of the same dictionary.
LEMMA RehashKeeps ==
    ASSUME HashAssumption, NEW old, NEW stamp, NEW d, IsTableOf(old, stamp, d),
           NEW n \in Nat, n \in PowersOf2(n), Cardinality(DOMAIN d) < n
    PROVE  IsTableOf(Rehashed(old, stamp, n), 1, d) /\ NumBuckets(Rehashed(old, stamp, n)) = n
<1> DEFINE m == NumBuckets(old)
           g == CHOOSE g : Moving(old, stamp, n, m, g)
           reached(i) == DictBefore(old, stamp, d, i)
<1>1. /\ m \in Nat /\ DOMAIN old = 0..(m - 1) /\ old \in [DOMAIN old -> Entry] /\ IsDict(d)
  BY TableSize DEF IsTableOf, IsTable
<1>2. Moving(old, stamp, n, m, g)
  BY <1>1, MovingExists
<1>3. Rehashed(old, stamp, n) = g[m]
  BY DEF Rehashed, Moving
<1>4. \A i \in Walked(old, stamp) : \A j \in Walked(old, stamp) : old[i].key = old[j].key => i = j
  BY DEF IsTableOf
<1>5. IsFiniteSet(DOMAIN d) /\ DOMAIN d \subseteq Key /\ d \in [DOMAIN d -> Datum]
      /\ Cardinality(DOMAIN d) \in Nat
  BY <1>1, FS_CardinalityType DEF IsDict
<1> HIDE DEF g, m
<1> DEFINE S == {i \in Nat : i <= m => IsTableOf(g[i], 1, reached(i)) /\ NumBuckets(g[i]) = n}
<1>6. 0 \in S
  <2>1. g[0] = Buckets(n)
    BY <1>1, <1>2 DEF Moving
  <2>2. reached(0) = NoKeys
    BY DEF DictBefore, NoKeys
  <2>3. QED
    BY <2>1, <2>2, NewTable
<1>7. ASSUME NEW i \in Nat, i \in S
      PROVE  i + 1 \in S
  <2> SUFFICES ASSUME i + 1 <= m
               PROVE  IsTableOf(g[i + 1], 1, reached(i + 1)) /\ NumBuckets(g[i + 1]) = n
    OBVIOUS
  <2>1. IsTableOf(g[i], 1, reached(i)) /\ NumBuckets(g[i]) = n
    BY <1>1, <1>7
  <2>2. i \in DOMAIN old /\ i + 1 \in 0..m /\ i + 1 # 0 /\ i + 1 - 1 = i
    BY <1>1
  <2>3. g[i + 1] = IF old[i].stamp # stamp THEN g[i] ELSE MovedTo(g[i], old[i])
    <3>1. \A j \in 0..m : g[j] = IF j = 0 THEN Buckets(n)
                                ELSE IF old[j - 1].stamp # stamp THEN g[j - 1]
                                ELSE MovedTo(g[j - 1], old[j - 1])
      BY <1>2 DEF Moving
    <3>2. g[i + 1] = IF old[i + 1 - 1].stamp # stamp THEN g[i + 1 - 1]
                     ELSE MovedTo(g[i + 1 - 1], old[i + 1 - 1])
      BY <2>2, <3>1
    <3>3. QED
      BY <2>2, <3>2
  <2>4. \A j : j \in 0..(i + 1 - 1) <=> j \in 0..(i - 1) \/ j = i
    OBVIOUS
  <2>5. CASE old[i].stamp # stamp
    <3>1. {j \in 0..(i + 1 - 1) : old[j].stamp = stamp} = {j \in 0..(i - 1) : old[j].stamp = stamp}
      BY <2>4, <2>5
    <3>2. reached(i + 1) = reached(i)
      BY <3>1 DEF DictBefore
    <3>3. QED
      BY <2>1, <2>3, <2>5, <3>2
  <2>6. CASE old[i].stamp = stamp
    <3> DEFINE k == old[i].key
    <3>1. i \in Walked(old, stamp)
      BY <2>2, <2>6 DEF Walked
    <3>2. k \in DOMAIN d /\ old[i] = [key |-> k, datum |-> d[k], stamp |-> stamp]
      BY <3>1, EntryOfTime
    <3>3. k \in Key /\ d[k] \in Datum
      BY <1>5, <3>2
    <3>4. k \notin DOMAIN reached(i)
      <4>1. ASSUME NEW j \in 0..(i - 1), old[j].stamp = stamp, old[j].key = k
            PROVE  FALSE
        <5>1. j \in Walked(old, stamp) /\ j # i
          BY <1>1, <2>2, <4>1 DEF Walked
        <5>2. QED
          BY <1>4, <3>1, <4>1, <5>1
      <4>2. QED
        BY <4>1 DEF DictBefore
    <3>5. reached(i + 1) = Extended(reached(i), k, d[k])
      <4> DEFINE J == {j \in 0..(i - 1) : old[j].stamp = stamp}
                 K == {old[j].key : j \in J}
      <4>1. {old[j].key : j \in {j \in 0..(i + 1 - 1) : old[j].stamp = stamp}} = K \cup {k}
        <5>1. {j \in 0..(i + 1 - 1) : old[j].stamp = stamp} = J \cup {i}
          BY <2>4, <2>6
        <5>2. QED
          BY <5>1
      <4>2. reached(i) = [x \in K |-> d[x]]
        BY DEF DictBefore
      <4>3. reached(i + 1) = [x \in K \cup {k} |-> d[x]]
        BY <4>1 DEF DictBefore
      <4> HIDE DEF K, k, reached
      <4>4. QED
        BY <4>2, <4>3 DEF Extended
    <3>6. Cardinality(DOMAIN reached(i)) + 1 < n
      <4>1. IsDict(reached(i))
        BY <2>1 DEF IsTableOf
      <4>2. DOMAIN reached(i) \cup {k} \subseteq DOMAIN d
        <5>1. ASSUME NEW j \in 0..(i - 1), old[j].stamp = stamp
              PROVE  old[j].key \in DOMAIN d
          <6>1. j \in Walked(old, stamp)
            BY <1>1, <2>2, <5>1 DEF Walked
          <6>2. QED
            BY <6>1, EntryOfTime
        <5>2. QED
          BY <3>2, <5>1 DEF DictBefore
      <4>3. IsFiniteSet(DOMAIN reached(i))
        BY <4>1 DEF IsDict
      <4> HIDE DEF reached, k
      <4>4. Cardinality(DOMAIN reached(i) \cup {k}) = Cardinality(DOMAIN reached(i)) + 1
        BY <3>4, <4>3, FS_AddElement
      <4>5. Cardinality(DOMAIN reached(i) \cup {k}) <= Cardinality(DOMAIN d)
        BY <1>5, <4>2, FS_Subset
      <4>6. Cardinality(DOMAIN reached(i)) \in Nat
        BY <4>3, FS_CardinalityType
      <4>7. QED
        BY <1>5, <4>4, <4>5, <4>6
    <3>7. MovedTo(g[i], old[i])
            = [g[i] EXCEPT ![Stops(g[i], 1, k)] = [key |-> k, datum |-> d[k], stamp |-> 1]]
      <4>1. [old[i] EXCEPT !.stamp = 1] = [key |-> k, datum |-> d[k], stamp |-> 1]
        BY <3>2
      <4>2. QED
        BY <4>1 DEF MovedTo
    <3> HIDE DEF k, reached
    <3>8. LET c == [g[i] EXCEPT ![Stops(g[i], 1, k)] = [key |-> k, datum |-> d[k], stamp |-> 1]]
          IN IsTableOf(c, 1, Extended(reached(i), k, d[k])) /\ NumBuckets(c) = NumBuckets(g[i])
      BY <2>1, <3>3, <3>4, <3>6, NewEntry
    <3>9. QED
      BY <2>1, <2>3, <2>6, <3>5, <3>7, <3>8
  <2>7. QED
    BY <2>5, <2>6
<1>8. Nat \subseteq S
  <2> HIDE DEF S
  <2>1. \A i \in Nat : i \in S => i + 1 \in S
    BY <1>7
  <2>2. QED
    BY <1>6, <2>1, Induction
<1>9. IsTableOf(g[m], 1, reached(m)) /\ NumBuckets(g[m]) = n
  BY <1>1, <1>8
<1>10. reached(m) = d
  <2>1. {j \in 0..(m - 1) : old[j].stamp = stamp} = Walked(old, stamp)
    BY <1>1 DEF Walked
  <2>2. {old[j].key : j \in Walked(old, stamp)} = DOMAIN d
    BY WalkedSize
  <2>3. d = [k \in DOMAIN d |-> d[k]]
    BY <1>5
  <2>4. QED
    BY <2>1, <2>2, <2>3 DEF DictBefore
<1>11. QED
  BY <1>3, <1>9, <1>10
-----------------------------------------------------------------------------
\* A table that may take one more entry without growing keeps a bucket free.
LEMMA ThresholdLeavesOne ==
    ASSUME HashAssumption, NEW n \in Nat
    PROVE  RehashThreshold(n) \in Nat /\ RehashThreshold(n) <= n
<1> DEFINE a == LoadNum * n + LoadDen - 1
<1>1. LoadNum \in Nat /\ LoadDen \in Nat \ {0} /\ LoadDen - LoadNum \in Nat
  BY DEF HashAssumption
<1>2. LoadNum * n \in Nat /\ (LoadDen - LoadNum) * n \in Nat
  BY <1>1
<1>3. a \in Nat
  <2> HIDE DEF a
  <2>1. QED
    BY <1>1, <1>2 DEF a
<1>4. a < (n + 1) * LoadDen
  <2>1. (n + 1) * LoadDen = LoadNum * n + (LoadDen - LoadNum) * n + LoadDen
    BY <1>1
  <2>2. QED
    BY <1>1, <1>2, <2>1
<1> HIDE DEF a
<1>5. a \div LoadDen < n + 1 /\ a \div LoadDen \in Nat
  <2>1. n + 1 \in Nat
    OBVIOUS
  <2>2. a \div LoadDen < n + 1
    BY <1>1, <1>3, <1>4, <2>1, InBlocks
  <2>3. a \div LoadDen \in Nat
    BY <1>1, <1>3, Divided
  <2>4. QED
    BY <2>2, <2>3
<1>6. QED
  BY <1>5 DEF RehashThreshold, a

LEMMA InitTable == ASSUME HashAssumption PROVE HashInit => TableInv
<1> SUFFICES ASSUME HashInit
             PROVE  TableInv
  OBVIOUS
<1>1. PICK n \in {1, 8} : buckets = Buckets(FirstPowerOf2(n))
  BY DEF HashInit
<1>2. dict = NoKeys /\ theSize = 0 /\ currentStamp = 1
  BY DEF HashInit, NoKeys
<1>3. FirstPowerOf2(n) \in Nat /\ FirstPowerOf2(n) \in PowersOf2(FirstPowerOf2(n))
  BY <1>1, FirstPower
<1>4. QED
  BY <1>1, <1>2, <1>3, NewTable, EmptyDict DEF TableInv

LEMMA AssignTable ==
    ASSUME HashAssumption, TableInv, NEW k \in Key, NEW d \in Datum, Assign(k, d)
    PROVE  TableInv'
<1> DEFINE at == Stops(buckets, currentStamp, k)
           n == NumBuckets(buckets)
<1>1. IsTableOf(buckets, currentStamp, dict) /\ theSize = Cardinality(DOMAIN dict)
  BY DEF TableInv
<1>2. /\ n \in Nat /\ n \in PowersOf2(n) /\ n >= 4
      /\ IsDict(dict) /\ Cardinality(DOMAIN dict) < n
  BY <1>1, TableSize DEF IsTableOf, IsTable
<1>3. Cardinality(DOMAIN dict) \in Nat
  BY <1>2, FS_CardinalityType DEF IsDict
<1>4. dict' = Extended(dict, k, d)
  BY DEF Assign
<1>5. Cardinality(DOMAIN Extended(dict, k, d))
        = IF k \in DOMAIN dict THEN Cardinality(DOMAIN dict) ELSE Cardinality(DOMAIN dict) + 1
  BY <1>2, ExtendedDict
<1>6. IF k \in DOMAIN dict
      THEN buckets[at] = [key |-> k, datum |-> dict[k], stamp |-> currentStamp]
      ELSE buckets[at].stamp # currentStamp
  BY <1>1, SearchFinds
<1>7. CASE k \in DOMAIN dict
  <2>1. buckets[at].stamp = currentStamp
    BY <1>6, <1>7
  <2>2. /\ buckets' = [buckets EXCEPT ![at].datum = d]
        /\ theSize' = theSize /\ currentStamp' = currentStamp
    BY <2>1 DEF Assign
  <2>3. IsTableOf([buckets EXCEPT ![at].datum = d], currentStamp, Extended(dict, k, d))
    BY <1>1, <1>7, ChangedEntry
  <2> HIDE DEF at
  <2>4. QED
    BY <1>1, <1>4, <1>5, <1>7, <2>2, <2>3 DEF TableInv
<1>8. CASE k \notin DOMAIN dict
  <2>1. buckets[at].stamp # currentStamp
    BY <1>6, <1>8
  <2>2. CASE ~Grows
    <3>1. Cardinality(DOMAIN dict) + 1 < n
      <4>1. ~(Cardinality(DOMAIN dict) + 1 >= RehashThreshold(n))
        BY <1>1, <2>2 DEF Grows
      <4>2. RehashThreshold(n) \in Nat /\ RehashThreshold(n) <= n
        BY <1>2, ThresholdLeavesOne
      <4> HIDE DEF n
      <4>3. QED
        BY <1>2, <1>3, <4>1, <4>2
    <3>2. /\ buckets' = [buckets EXCEPT ![at] = [key |-> k, datum |-> d, stamp |-> currentStamp]]
          /\ theSize' = theSize + 1 /\ currentStamp' = currentStamp
      BY <2>1, <2>2 DEF Assign
    <3>3. IsTableOf([buckets EXCEPT ![at] = [key |-> k, datum |-> d, stamp |-> currentStamp]],
                    currentStamp, Extended(dict, k, d))
      BY <1>1, <1>8, <3>1, NewEntry
    <3> HIDE DEF at
    <3>4. QED
      BY <1>1, <1>4, <1>5, <1>8, <3>2, <3>3 DEF TableInv
  <2>3. CASE Grows
    <3> DEFINE table == Rehashed(buckets, currentStamp, 2 * n)
    <3>1. 2 * n \in Nat /\ 2 * n \in PowersOf2(2 * n) /\ Cardinality(DOMAIN dict) + 1 < 2 * n
      <4>1. 2 * n \in PowersOf2(2 * n)
        BY <1>2, TwiceAPower
      <4> HIDE DEF n
      <4>2. QED
        BY <1>2, <1>3, <4>1
    <3>2. IsTableOf(table, 1, dict) /\ NumBuckets(table) = 2 * n
      <4>1. Cardinality(DOMAIN dict) < 2 * n
        <5> HIDE DEF n
        <5>1. QED
          BY <1>2, <1>3
      <4> DEFINE m == 2 * n
      <4>2. m \in Nat /\ m \in PowersOf2(m) /\ Cardinality(DOMAIN dict) < m
        BY <3>1, <4>1
      <4> HIDE DEF m
      <4>3. IsTableOf(Rehashed(buckets, currentStamp, m), 1, dict)
            /\ NumBuckets(Rehashed(buckets, currentStamp, m)) = m
        BY <1>1, <4>2, RehashKeeps
      <4>4. QED
        BY <4>3 DEF m
    <3>3. /\ buckets' = [table EXCEPT ![Stops(table, 1, k)] = [key |-> k, datum |-> d, stamp |-> 1]]
          /\ theSize' = theSize + 1 /\ currentStamp' = 1
      BY <2>1, <2>3 DEF Assign
    <3> HIDE DEF table, n
    <3>4. IsTableOf([table EXCEPT ![Stops(table, 1, k)] = [key |-> k, datum |-> d, stamp |-> 1]],
                    1, Extended(dict, k, d))
      BY <1>8, <3>1, <3>2, NewEntry
    <3>5. QED
      BY <1>1, <1>4, <1>5, <1>8, <3>3, <3>4 DEF TableInv
  <2>4. QED
    BY <2>2, <2>3
<1>9. QED
  BY <1>7, <1>8

LEMMA ClearTable ==
    ASSUME HashAssumption, TableInv, Clear
    PROVE  TableInv'
<1>1. /\ IsTable(buckets) /\ currentStamp \in 1..MaxStamp /\ MaxStamp \in Nat \ {0}
      /\ \A i \in DOMAIN buckets : buckets[i].stamp <= currentStamp
  BY DEF TableInv, IsTableOf, HashAssumption
<1>2. theSize' = 0 /\ dict' = NoKeys
  BY DEF Clear, NoKeys
<1>3. /\ NumBuckets(buckets) \in Nat /\ NumBuckets(buckets) \in PowersOf2(NumBuckets(buckets))
      /\ DOMAIN buckets = 0..(NumBuckets(buckets) - 1) /\ buckets \in [DOMAIN buckets -> Entry]
      /\ \A i \in DOMAIN buckets : buckets[i].stamp \in Nat
  BY <1>1 DEF IsTable, Entry
<1>4. CASE currentStamp >= MaxStamp
  <2>1. buckets' = ResetStamps(buckets) /\ currentStamp' = 1
    BY <1>4 DEF Clear
  <2>2. /\ DOMAIN ResetStamps(buckets) = DOMAIN buckets
        /\ \A i \in DOMAIN buckets : ResetStamps(buckets)[i].stamp = 0
        /\ ResetStamps(buckets) \in [DOMAIN buckets -> Entry]
    <3>1. \A e \in Entry : [e EXCEPT !.stamp = 0] \in Entry /\ [e EXCEPT !.stamp = 0].stamp = 0
      BY <1>1 DEF Entry
    <3>2. \A i \in DOMAIN buckets : buckets[i] \in Entry
      BY <1>3
    <3>3. QED
      BY <3>1, <3>2 DEF ResetStamps
  <2>3. NumBuckets(ResetStamps(buckets)) = NumBuckets(buckets)
    BY <2>2 DEF NumBuckets
  <2>4. IsTable(ResetStamps(buckets))
    BY <1>3, <2>2, <2>3 DEF IsTable
  <2>5. IsTableOf(ResetStamps(buckets), 1, NoKeys)
    BY <1>1, <2>2, <2>4, NothingOfTheTime
  <2>6. QED
    BY <1>2, <2>1, <2>5, EmptyDict DEF TableInv
<1>5. CASE currentStamp < MaxStamp
  <2>1. buckets' = buckets /\ currentStamp' = currentStamp + 1
    BY <1>1, <1>5 DEF Clear
  <2>2. /\ currentStamp + 1 \in 1..MaxStamp
        /\ \A i \in DOMAIN buckets : buckets[i].stamp < currentStamp + 1
    BY <1>1, <1>3, <1>5
  <2>3. IsTableOf(buckets, currentStamp + 1, NoKeys)
    BY <1>1, <2>2, NothingOfTheTime
  <2>4. QED
    BY <1>2, <2>1, <2>3, EmptyDict DEF TableInv
<1>6. QED
  BY <1>1, <1>4, <1>5

LEMMA ResizeTable ==
    ASSUME HashAssumption, TableInv, NEW n \in Nat, Resize(n)
    PROVE  TableInv'
<1> DEFINE size == FirstPowerOf2(n)
<1>1. size \in Nat /\ size \in PowersOf2(size)
  BY FirstPower
<1>2. /\ size > theSize /\ buckets' = Rehashed(buckets, currentStamp, size)
      /\ currentStamp' = 1 /\ theSize' = theSize /\ dict' = dict
  BY DEF Resize
<1> HIDE DEF size
<1>3. IsTableOf(buckets, currentStamp, dict) /\ theSize = Cardinality(DOMAIN dict)
  BY DEF TableInv
<1>4. Cardinality(DOMAIN dict) < size
  <2>1. Cardinality(DOMAIN dict) \in Nat
    BY <1>3, FS_CardinalityType DEF IsTableOf, IsDict
  <2>2. QED
    BY <1>1, <1>2, <1>3, <2>1
<1>5. IsTableOf(Rehashed(buckets, currentStamp, size), 1, dict)
  BY <1>1, <1>3, <1>4, RehashKeeps
<1>6. QED
  BY <1>2, <1>3, <1>5 DEF TableInv

LEMMA NextTable == ASSUME HashAssumption PROVE TableInv /\ [HashNext]_hashVars => TableInv'
<1> SUFFICES ASSUME TableInv, [HashNext]_hashVars
             PROVE  TableInv'
  OBVIOUS
<1>1. CASE UNCHANGED hashVars
  BY <1>1 DEF hashVars, TableInv
<1>2. ASSUME NEW k \in Key, NEW d \in Datum, Assign(k, d)
      PROVE  TableInv'
  BY <1>2, AssignTable
<1>3. CASE Clear
  BY <1>3, ClearTable
<1>4. ASSUME NEW n \in {4, 5}, Resize(n)
      PROVE  TableInv'
  <2>1. n \in Nat
    OBVIOUS
  <2>2. QED
    BY <1>4, <2>1, ResizeTable
<1>5. QED
  BY <1>1, <1>2, <1>3, <1>4 DEF HashNext

(***************************************************************************)
(* The inductive invariant: the buckets are a table of the dictionary, in  *)
(* which the search for each of its keys meets only other keys of the time *)
(* before it meets that key, and one bucket at least is free.              *)
(***************************************************************************)
THEOREM TableInvariance == ASSUME HashAssumption PROVE HashSpec => []TableInv
<1>1. HashInit => TableInv
  BY InitTable
<1>2. TableInv /\ [HashNext]_hashVars => TableInv'
  BY NextTable
<1>3. QED
  BY <1>1, <1>2, PTL DEF HashSpec

(***************************************************************************)
(* The table is the dictionary of what was assigned since the last clear,  *)
(* for any keys, any hash function, any largest stamp and any load factor  *)
(* up to nine tenths: every search ends, over collisions and growth.       *)
(***************************************************************************)
THEOREM TableIsDictionary == ASSUME HashAssumption PROVE HashSpec => []IsDictionary
<1>1. TableInv => IsDictionary
  <2> SUFFICES ASSUME TableInv
               PROVE  IsDictionary
    OBVIOUS
  <2> DEFINE W == Walked(buckets, currentStamp)
  <2>1. IsTableOf(buckets, currentStamp, dict) /\ theSize = Cardinality(DOMAIN dict)
    BY DEF TableInv
  <2>2. Cardinality(W) = theSize /\ {buckets[i].key : i \in W} = DOMAIN dict
    BY <2>1, WalkedSize
  <2>3. theSize < NumBuckets(buckets)
    BY <2>1 DEF IsTableOf
  <2>4. {<<buckets[i].key, buckets[i].datum>> : i \in W} = {<<k, dict[k]>> : k \in DOMAIN dict}
    <3>1. \A i \in W : buckets[i].datum = dict[buckets[i].key]
      <4>1. TAKE i \in W
      <4> DEFINE k == buckets[i].key
      <4>2. buckets[i] = [key |-> k, datum |-> dict[k], stamp |-> currentStamp]
        BY <2>1, EntryOfTime
      <4> HIDE DEF k
      <4>3. buckets[i].datum = dict[k]
        BY <4>2
      <4>4. QED
        BY <4>3 DEF k
    <3> HIDE DEF W
    <3>2. QED
      BY <2>2, <3>1
  <2>5. ASSUME NEW k \in Key
        PROVE  Find(k) = IF k \in DOMAIN dict THEN {dict[k]} ELSE {}
    <3>1. IF k \in DOMAIN dict
          THEN buckets[Stops(buckets, currentStamp, k)]
                 = [key |-> k, datum |-> dict[k], stamp |-> currentStamp]
          ELSE buckets[Stops(buckets, currentStamp, k)].stamp # currentStamp
      BY <2>1, SearchFinds
    <3>2. QED
      BY <3>1 DEF Find
  <2>6. QED
    BY <2>1, <2>2, <2>3, <2>4, <2>5 DEF IsDictionary
<1>2. QED
  BY <1>1, TableInvariance, PTL
-----------------------------------------------------------------------------
(***************************************************************************)
(* The window over a sequence                                              *)
(***************************************************************************)
LEMMA InitWindow == WindowInit => WindowInv
<1> SUFFICES ASSUME WindowInit
             PROVE  WindowInv
  OBVIOUS
<1>1. /\ before \in Nat /\ after \in Nat /\ before + after > 0
      /\ numInserts = 0 /\ numShifts = 0 /\ end = FALSE /\ pc = "idle"
      /\ delivered = 0 /\ length \in Lengths(before, after) /\ out = NoWindow
      /\ vec = [j \in Slots |-> 0]
  BY ContextAssumption DEF WindowInit, Empty
<1>2. length \in Nat
  BY <1>1 DEF Lengths
<1>3. TypeOK
  BY <1>1 DEF TypeOK
<1>4. Progress
  BY <1>1, <1>2 DEF Progress, Current
<1>5. Contents
  BY <1>1 DEF Contents
<1>6. QED
  BY <1>1, <1>3, <1>4, <1>5 DEF WindowInv, RightWindow

\* get begins.
LEMMA GetWindow ==
    ASSUME WindowInv, Get
    PROVE  WindowInv'
<1>1. /\ UNCHANGED <<before, after, vec, numInserts, numShifts, end, length,
                     delivered, out>>
      /\ pc = "idle" /\ pc' = "loop" /\ ~end
  BY DEF Get, ctxtVars
<1>2. TypeOK' /\ Progress'
  BY <1>1 DEF WindowInv, TypeOK, Progress, Current, Lengths, Slots, Size
<1>3. Contents' /\ RightWindow'
  BY <1>1 DEF WindowInv, Contents, RightWindow, Filling, Current, Nearest, Window,
              Slots, Size
<1>4. QED
  BY <1>2, <1>3 DEF WindowInv

\* What insert does to each slot.
LEMMA InsertedSlot ==
    ASSUME WindowInv, NEW x \in Nat
    PROVE  /\ Inserted(x) \in [Slots -> Nat]
           /\ \A j \in Slots :
                 Inserted(x)[j] =
                   IF before + numInserts < Size
                   THEN IF j = before + numInserts \/ (numInserts = 0 /\ j < before)
                        THEN x ELSE vec[j]
                   ELSE IF j = Size - 1 THEN x ELSE vec[j + 1]
<1>1. \A j \in Slots : j # Size - 1 => j + 1 \in Slots
  BY DEF WindowInv, TypeOK, Slots, Size
<1>2. QED
  BY <1>1 DEF WindowInv, TypeOK, Inserted, Moved

LEMMA ReadElementWindow ==
    ASSUME WindowInv, ReadElement
    PROVE  WindowInv'
<1>1. /\ UNCHANGED <<before, after, numShifts, end, length, delivered, out>>
      /\ pc = "loop" /\ numInserts < length
      /\ numInserts' = numInserts + 1
      /\ vec' = Inserted(numInserts + 1)
      /\ pc' = IF Ready(end, numShifts, numInserts + 1) THEN "answer" ELSE "loop"
  BY DEF ReadElement, Insert
<1>2. /\ before \in Nat /\ after \in Nat /\ before + after > 0
      /\ numInserts \in Nat /\ length \in Nat /\ numShifts = 0 /\ ~end
      /\ delivered = IF numInserts > after THEN numInserts - after ELSE 0
  BY <1>1 DEF WindowInv, TypeOK, Progress, Lengths, Current
<1>3. /\ vec' \in [Slots -> Nat] /\ Slots' = Slots
      /\ \A j \in Slots :
            vec'[j] = IF before + numInserts < Size
                      THEN IF j = before + numInserts \/ (numInserts = 0 /\ j < before)
                           THEN numInserts + 1 ELSE vec[j]
                      ELSE IF j = Size - 1 THEN numInserts + 1 ELSE vec[j + 1]
  <2>1. numInserts + 1 \in Nat
    BY <1>2
  <2>2. Slots' = Slots
    BY <1>1 DEF Slots, Size
  <2>3. QED
    BY <1>1, <2>1, <2>2, InsertedSlot
<1>4. pc' = IF numInserts + 1 > after THEN "answer" ELSE "loop"
  BY <1>1, <1>2 DEF Ready
<1>5. TypeOK'
  BY <1>1, <1>2, <1>3, <1>4 DEF WindowInv, TypeOK, Lengths
<1>6. Progress'
  BY <1>1, <1>2, <1>4 DEF WindowInv, Progress, Current
<1>7. Contents'
  <2> DEFINE around == IF numInserts + 1 <= after THEN 1 ELSE numInserts + 1 - after
             hollow(j) == numInserts + 1 <= after /\ j >= before + numInserts + 1
  <2>1. \A i \in Slots :
           vec[i] = IF numInserts = 0 \/ (numInserts <= after /\ i >= before + numInserts)
                    THEN 0
                    ELSE Nearest(length, (IF numInserts <= after
                                          THEN 1 ELSE numInserts - after) - before + i)
    BY <1>2 DEF WindowInv, Contents, Filling, Current
  <2>2. ASSUME NEW j \in Slots
        PROVE  vec'[j] = IF hollow(j) THEN 0 ELSE Nearest(length, around - before + j)
    <3>1. j \in Int /\ 0 <= j /\ j <= before + after
      BY <1>2 DEF Slots, Size
    <3>2. CASE numInserts <= after
      <4>1. vec'[j] = IF j = before + numInserts \/ (numInserts = 0 /\ j < before)
                      THEN numInserts + 1 ELSE vec[j]
        BY <1>2, <1>3, <3>2 DEF Size
      <4>2. around = 1
        BY <1>2, <3>2
      <4>3. CASE j = before + numInserts
        BY <1>1, <1>2, <3>1, <3>2, <4>1, <4>2, <4>3 DEF Nearest
      <4>4. CASE j # before + numInserts /\ numInserts = 0
        BY <1>1, <1>2, <2>1, <3>1, <3>2, <4>1, <4>2, <4>4 DEF Nearest
      <4>5. CASE j # before + numInserts /\ numInserts > 0
        BY <1>1, <1>2, <2>1, <3>1, <3>2, <4>1, <4>2, <4>5 DEF Nearest
      <4>6. QED
        BY <1>2, <4>3, <4>4, <4>5
    <3>3. CASE numInserts > after
      <4>1. vec'[j] = IF j = before + after THEN numInserts + 1 ELSE vec[j + 1]
        BY <1>2, <1>3, <3>3 DEF Size
      <4>2. CASE j = before + after
        BY <1>1, <1>2, <3>1, <3>3, <4>1, <4>2 DEF Nearest
      <4>3. CASE j # before + after
        <5>1. j + 1 \in Slots
          BY <1>2, <3>1, <4>3 DEF Slots, Size
        <5>2. vec[j + 1] = Nearest(length, numInserts - after - before + (j + 1))
          BY <1>2, <2>1, <3>3, <5>1
        <5>3. QED
          BY <1>2, <3>1, <3>3, <4>1, <4>3, <5>2 DEF Nearest
      <4>4. QED
        BY <4>2, <4>3
    <3>4. QED
      BY <1>2, <3>2, <3>3
  <2>3. QED
    BY <1>1, <1>2, <1>3, <2>2 DEF Contents, Filling, Current
<1>8. RightWindow'
  BY <1>1 DEF WindowInv, RightWindow, Window, Nearest
<1>9. QED
  BY <1>5, <1>6, <1>7, <1>8 DEF WindowInv

\* What a shift that moves the window does to each slot.
LEMMA ShiftedSlot ==
    ASSUME WindowInv, Shift(FALSE)
    PROVE  /\ vec' \in [Slots -> Nat]
           /\ \A j \in Slots :
                 vec'[j] = IF j = before + after THEN vec[j] ELSE vec[j + 1]
<1>1. /\ before \in Nat /\ after \in Nat /\ vec \in [Slots -> Nat]
      /\ vec' = Moved(vec[Size - 1])
  BY DEF WindowInv, TypeOK, Shift
<1>2. Size - 1 = before + after /\ before + after \in Slots
  BY <1>1 DEF Size, Slots
<1>3. \A j \in Slots : j # before + after => j + 1 \in Slots
  BY <1>1 DEF Slots, Size
<1>4. QED
  BY <1>1, <1>2, <1>3 DEF Moved

\* get after the end of the input: the window moves over its last element.
LEMMA GetShiftedWindow ==
    ASSUME WindowInv, GetShifted
    PROVE  WindowInv'
<1>1. /\ UNCHANGED <<before, after, numInserts, end, length, delivered, out>>
      /\ pc = "idle" /\ pc' = "answer" /\ end
      /\ numShifts' = numShifts + 1
      /\ Shift(FALSE)
  BY DEF GetShifted, Shift
<1>2. /\ before \in Nat /\ after \in Nat /\ before + after > 0
      /\ numInserts \in Nat /\ length \in Nat /\ numShifts \in Nat
      /\ numInserts = length /\ numShifts > 0 /\ numShifts <= after
      /\ numShifts <= length
      /\ length <= after \/ length > before + after \/ PartlyFilled
      /\ delivered = Current
      /\ Current = IF length <= after THEN numShifts ELSE length - after + numShifts
  BY <1>1 DEF WindowInv, TypeOK, Progress, Lengths, Current
<1>3. /\ vec' \in [Slots -> Nat] /\ Slots' = Slots
      /\ \A j \in Slots : vec'[j] = IF j = before + after THEN vec[j] ELSE vec[j + 1]
  BY <1>1, ShiftedSlot DEF Slots, Size
<1>4. TypeOK'
  BY <1>1, <1>2, <1>3 DEF WindowInv, TypeOK, Lengths
<1>5. Current' = Current + 1
  BY <1>1, <1>2 DEF Current
<1>6. Progress'
  BY <1>1, <1>2, <1>5 DEF Progress
<1>7. Contents'
  <2>1. \A i \in Slots : vec[i] = Nearest(length, Current - before + i)
    BY <1>1, <1>2 DEF WindowInv, Contents, Filling
  <2>2. ASSUME NEW j \in Slots
        PROVE  vec'[j] = Nearest(length, Current + 1 - before + j)
    <3>1. j \in Int /\ 0 <= j /\ j <= before + after
      BY <1>2 DEF Slots, Size
    <3>2. CASE j = before + after
      <4>1. vec'[j] = Nearest(length, Current - before + j)
        BY <1>3, <2>1, <3>2
      <4>2. Current \in Int /\ Current - before + j >= length
        BY <1>2, <3>2
      <4>3. QED
        BY <1>2, <3>1, <4>1, <4>2 DEF Nearest
    <3>3. CASE j # before + after
      <4>1. j + 1 \in Slots
        BY <1>2, <3>1, <3>3 DEF Slots, Size
      <4>2. vec'[j] = Nearest(length, Current - before + (j + 1))
        BY <1>3, <2>1, <3>3, <4>1
      <4>3. Current - before + (j + 1) = Current + 1 - before + j
        BY <1>2, <3>1
      <4>4. QED
        BY <4>2, <4>3
    <3>4. QED
      BY <3>2, <3>3
  <2>3. QED
    BY <1>1, <1>2, <1>3, <1>5, <2>2 DEF Contents, Filling
<1>8. RightWindow'
  BY <1>1 DEF WindowInv, RightWindow, Window
<1>9. QED
  BY <1>4, <1>6, <1>7, <1>8 DEF WindowInv

\* get meets the end of the input: the vector is filled, or the window moves.
LEMMA ReadEndWindow ==
    ASSUME ~PartlyFilled, WindowInv, ReadEnd
    PROVE  WindowInv'
<1>1. /\ UNCHANGED <<before, after, numInserts, length, delivered, out>>
      /\ pc = "loop" /\ pc' = "answer" /\ end' = TRUE
      /\ numInserts = length
      /\ numShifts' = numShifts + 1
      /\ Shift(FillsAfter(numInserts))
  BY DEF ReadEnd, Shift
<1>2. /\ before \in Nat /\ after \in Nat /\ before + after > 0
      /\ length \in Nat /\ ~end /\ numShifts = 0
      /\ length <= after \/ length > before + after
      /\ delivered = IF length > after THEN length - after ELSE 0
      /\ vec \in [Slots -> Nat]
  BY <1>1 DEF WindowInv, TypeOK, Progress, Lengths, Current
<1>3. Slots' = Slots
  BY <1>1 DEF Slots, Size
<1>4. Current' = IF length <= after THEN 1 ELSE length - after + 1
  BY <1>1, <1>2 DEF Current
<1>5. Progress'
  BY <1>1, <1>2, <1>4 DEF Progress
<1>6. \A i \in Slots :
         vec[i] = IF length = 0 \/ (length <= after /\ i >= before + length)
                  THEN 0
                  ELSE Nearest(length, (IF length <= after
                                        THEN 1 ELSE length - after) - before + i)
  BY <1>1, <1>2 DEF WindowInv, Contents, Filling, Current
<1>7. /\ vec' \in [Slots -> Nat]
      /\ \A j \in Slots :
            vec'[j] = IF length = 0 THEN 0 ELSE Nearest(length, Current' - before + j)
  <2>1. CASE FillsAfter(numInserts)
    <3>1. 0 < length /\ length <= after /\ Current' = 1
      BY <1>1, <1>2, <1>4, <2>1 DEF FillsAfter, Size
    <3>2. vec' = [j \in Slots |-> IF j >= before + length THEN vec[before + length - 1]
                                 ELSE vec[j]]
      BY <1>1, <2>1 DEF Shift
    <3>3. before + length - 1 \in Slots
      BY <1>2, <3>1 DEF Slots, Size
    <3>4. vec[before + length - 1] = length
      BY <1>2, <1>6, <3>1, <3>3 DEF Nearest
    <3>5. ASSUME NEW j \in Slots
          PROVE  vec'[j] = Nearest(length, 1 - before + j)
      <4>1. j \in Int
        BY DEF Slots
      <4>2. CASE j >= before + length
        BY <1>2, <3>1, <3>2, <3>4, <4>1, <4>2 DEF Nearest
      <4>3. CASE ~(j >= before + length)
        BY <1>2, <1>6, <3>1, <3>2, <4>1, <4>3
      <4>4. QED
        BY <4>2, <4>3
    <3>6. QED
      BY <1>2, <3>1, <3>2, <3>3, <3>5
  <2>2. CASE ~FillsAfter(numInserts)
    <3>1. length = 0 \/ length > before + after
      BY <1>1, <1>2, <2>2 DEF FillsAfter, Size
    <3>2. /\ vec' \in [Slots -> Nat]
          /\ \A j \in Slots :
                vec'[j] = IF j = before + after THEN vec[j] ELSE vec[j + 1]
      BY <1>1, <2>2, ShiftedSlot DEF Shift
    <3>3. ASSUME NEW j \in Slots
          PROVE  vec'[j] = IF length = 0 THEN 0
                           ELSE Nearest(length, Current' - before + j)
      <4>1. j \in Int /\ 0 <= j /\ j <= before + after
        BY <1>2 DEF Slots, Size
      <4>2. j # before + after => j + 1 \in Slots
        BY <1>2, <4>1 DEF Slots, Size
      <4>3. CASE length = 0
        BY <1>6, <3>2, <4>2, <4>3
      <4>4. CASE length > before + after /\ j = before + after
        BY <1>2, <1>4, <1>6, <3>2, <4>1, <4>4 DEF Nearest
      <4>5. CASE length > before + after /\ j # before + after
        <5>1. vec'[j] = Nearest(length, length - after - before + (j + 1))
          BY <1>2, <1>6, <3>2, <4>2, <4>5
        <5>2. length - after - before + (j + 1) = Current' - before + j
          BY <1>2, <1>4, <4>1, <4>5
        <5>3. QED
          BY <1>2, <4>5, <5>1, <5>2
      <4>6. QED
        BY <3>1, <4>3, <4>4, <4>5
    <3>4. QED
      BY <3>2, <3>3
  <2>3. QED
    BY <2>1, <2>2
<1>8. TypeOK'
  BY <1>1, <1>2, <1>3, <1>7 DEF WindowInv, TypeOK, Lengths
<1>9. Contents'
  BY <1>1, <1>3, <1>7 DEF Contents, Filling
<1>10. RightWindow'
  BY <1>1 DEF WindowInv, RightWindow, Window
<1>11. QED
  BY <1>5, <1>8, <1>9, <1>10 DEF WindowInv

\* get returns a window: the one around the current element.
LEMMA ReturnWindowWindow ==
    ASSUME WindowInv, ReturnWindow
    PROVE  WindowInv'
<1>1. /\ UNCHANGED <<before, after, vec, numInserts, numShifts, end, length>>
      /\ pc = "answer" /\ pc' = "idle"
      /\ Ready(end, numShifts, numInserts)
      /\ delivered' = delivered + 1
      /\ out' = [i \in (-before)..after |-> vec[before + i]]
  BY DEF ReturnWindow, ctxtVars
<1>2. /\ before \in Nat /\ after \in Nat /\ before + after > 0
      /\ numInserts \in Nat /\ length \in Nat /\ numShifts \in Nat
      /\ numInserts <= length /\ end \in BOOLEAN
      /\ ~end => numInserts > after /\ numShifts = 0
      /\ end => /\ numInserts = length /\ 0 < numShifts
                /\ numShifts <= after /\ numShifts <= length
      /\ delivered + 1 = Current
      /\ delivered \in Nat
  BY <1>1 DEF WindowInv, TypeOK, Progress, Lengths, Current, Ready
<1>3. Current \in 1..length /\ Current' = Current /\ Slots' = Slots
  BY <1>1, <1>2 DEF Current, Slots, Size
<1>4. \A j \in Slots : vec[j] = Nearest(length, Current - before + j)
  BY <1>2 DEF WindowInv, Contents, Filling
<1>5. TypeOK'
  BY <1>1, <1>2, <1>3 DEF WindowInv, TypeOK, Lengths
<1>6. Progress'
  BY <1>1, <1>2, <1>3 DEF Progress
<1>7. Contents'
  BY <1>1, <1>3 DEF WindowInv, Contents, Filling
<1>8. out' = Window(Current)
  <2>1. ASSUME NEW i \in (-before)..after
        PROVE  vec[before + i] = Nearest(length, Current + i)
    <3>1. before + i \in Slots
      BY <1>2 DEF Slots, Size
    <3>2. Current - before + (before + i) = Current + i
      BY <1>2, <1>3
    <3>3. QED
      BY <1>4, <3>1, <3>2
  <2>2. QED
    BY <1>1, <2>1 DEF Window
<1>9. RightWindow'
  BY <1>1, <1>2, <1>3, <1>8 DEF RightWindow, Window
<1>10. QED
  BY <1>5, <1>6, <1>7, <1>9 DEF WindowInv

\* The context starts again, at the end of a sequence or in the middle.
LEMMA ResetWindow ==
    ASSUME WindowInv, ReturnEnd \/ Reset
    PROVE  WindowInv'
<1>1. /\ UNCHANGED <<before, after>> /\ pc' = "idle" /\ out' = NoWindow
      /\ numInserts' = 0 /\ numShifts' = 0 /\ end' = FALSE /\ delivered' = 0
      /\ vec' = [j \in Slots |-> 0]
      /\ length' \in Lengths(before, after)
  BY DEF ReturnEnd, Reset, ResetContext, Empty
<1>2. before \in Nat /\ after \in Nat /\ before + after > 0
  BY DEF WindowInv, TypeOK
<1>3. length' \in Nat /\ Slots' = Slots
  BY <1>1 DEF Lengths, Slots, Size
<1>4. TypeOK'
  BY <1>1, <1>2, <1>3 DEF TypeOK, Lengths
<1>5. Progress'
  BY <1>1, <1>2, <1>3 DEF Progress, Current
<1>6. Contents'
  BY <1>1, <1>3 DEF Contents
<1>7. QED
  BY <1>1, <1>4, <1>5, <1>6 DEF WindowInv, RightWindow

LEMMA NextWindow == ~PartlyFilled /\ WindowInv /\ [WindowNext]_windowVars => WindowInv'
<1> SUFFICES ASSUME ~PartlyFilled, WindowInv, [WindowNext]_windowVars
             PROVE  WindowInv'
  OBVIOUS
<1>1. CASE UNCHANGED windowVars
  <2>1. UNCHANGED <<before, after, vec, numInserts, numShifts, end, length, pc,
                    delivered, out>>
    BY <1>1 DEF windowVars, ctxtVars
  <2>2. TypeOK' /\ Progress'
    BY <2>1 DEF WindowInv, TypeOK, Progress, Current, Lengths, Slots, Size
  <2>3. Contents' /\ RightWindow'
    BY <2>1 DEF WindowInv, Contents, RightWindow, Filling, Current, Window, Slots, Size
  <2>4. QED
    BY <2>2, <2>3 DEF WindowInv
<1>2. QED
  BY <1>1, GetWindow, GetShiftedWindow, ReadElementWindow, ReadEndWindow,
     ReturnWindowWindow, ResetWindow
     DEF WindowNext

(***************************************************************************)
(* get returns the windows of the sequence, in order and around the right  *)
(* elements, when no sequence is longer than after and too short to fill   *)
(* the vector.                                                             *)
(***************************************************************************)
THEOREM WindowsAreRight == ASSUME ~PartlyFilled PROVE WindowSpec => []RightWindow
<1>1. WindowInit => WindowInv
  BY InitWindow
<1>2. WindowInv /\ [WindowNext]_windowVars => WindowInv'
  BY NextWindow
<1>3. WindowInv => RightWindow
  BY DEF WindowInv
<1>4. QED
  BY <1>1, <1>2, <1>3, PTL DEF WindowSpec

(***************************************************************************)
(* Under the same condition get announces the end of a sequence when it    *)
(* has returned one window for each of its elements.                       *)
(***************************************************************************)
THEOREM EveryElementIsCurrent == ASSUME ~PartlyFilled PROVE WindowSpec => []EveryElement
<1>1. WindowInit => WindowInv
  BY InitWindow
<1>2. WindowInv /\ [WindowNext]_windowVars => WindowInv'
  BY NextWindow
<1>3. WindowInv => EveryElement
  BY DEF WindowInv, TypeOK, Progress, Current, Lengths, Ready, EveryElement
<1>4. QED
  BY <1>1, <1>2, <1>3, PTL DEF WindowSpec

(***************************************************************************)
(* The inductive invariant holds of every behaviour, under the same        *)
(* condition.                                                              *)
(***************************************************************************)
THEOREM WindowInvariance == ASSUME ~PartlyFilled PROVE WindowSpec => []WindowInv
<1>1. WindowInit => WindowInv
  BY InitWindow
<1>2. WindowInv /\ [WindowNext]_windowVars => WindowInv'
  BY NextWindow
<1>3. QED
  BY <1>1, <1>2, PTL DEF WindowSpec
-----------------------------------------------------------------------------
(***************************************************************************)
(* Who deletes what.  What is allocated is what is in the window; with the *)
(* closed form of vec, delete_contents finds each element once.            *)
(***************************************************************************)
Held == {vec[j] : j \in Slots} \ {0}

OwnedInv == WindowInv /\ live = Held

\* What is known of a window that is not being filled.
LEMMA FullWindow ==
    ASSUME WindowInv, ~Filling
    PROVE  /\ before \in Nat /\ after \in Nat /\ before + after > 0
           /\ length \in Nat /\ Current \in Int
           /\ Size - 1 = before + after /\ Slots = 0..(before + after)
           /\ \/ \A j \in Slots : vec[j] = 0
              \/ /\ length > 0
                 /\ \A j \in Slots : vec[j] = Nearest(length, Current - before + j)
<1>1. /\ before \in Nat /\ after \in Nat /\ before + after > 0
      /\ length \in Nat /\ numInserts \in Nat /\ numShifts \in Nat
      /\ numInserts <= length
  BY DEF WindowInv, TypeOK, Progress, Lengths
<1>2. Size - 1 = before + after /\ Slots = 0..(before + after) /\ Current \in Int
  BY <1>1 DEF Size, Slots, Current
<1>3. CASE numInserts = 0
  BY <1>1, <1>2, <1>3 DEF WindowInv, Contents
<1>4. CASE numInserts # 0
  BY <1>1, <1>2, <1>4 DEF WindowInv, Contents
<1>5. QED
  BY <1>1, <1>2, <1>3, <1>4

\* When the window moves, only the element at its start may leave it.
LEMMA MovedHolds ==
    ASSUME WindowInv, ~Filling, NEW x \in Nat
    PROVE  {Moved(x)[j] : j \in Slots} \ {0} = ({x} \cup (Held \ Dropped(vec))) \ {0}
<1>1. /\ before \in Nat /\ after \in Nat /\ before + after > 0
      /\ length \in Nat /\ Current \in Int
      /\ Size - 1 = before + after /\ Slots = 0..(before + after)
      /\ \/ \A j \in Slots : vec[j] = 0
         \/ /\ length > 0
            /\ \A j \in Slots : vec[j] = Nearest(length, Current - before + j)
  BY FullWindow
<1> DEFINE later == {vec[j] : j \in 1..(before + after)}
<1>2. {Moved(x)[j] : j \in Slots} = later \cup {x}
  <2>1. \A j \in Slots : Moved(x)[j] = IF j = before + after THEN x ELSE vec[j + 1]
    BY <1>1 DEF Moved
  <2>2. ASSUME NEW j \in Slots
        PROVE  Moved(x)[j] \in later \cup {x}
    <3>1. j # before + after => j + 1 \in 1..(before + after)
      BY <1>1
    <3>2. QED
      BY <2>1, <3>1
  <2>3. ASSUME NEW j \in 1..(before + after)
        PROVE  vec[j] \in {Moved(x)[i] : i \in Slots}
    <3>1. j - 1 \in Slots /\ j - 1 # before + after /\ (j - 1) + 1 = j
      BY <1>1
    <3>2. Moved(x)[j - 1] = vec[j]
      BY <2>1, <3>1
    <3>3. QED
      BY <3>1, <3>2
  <2>4. x \in {Moved(x)[i] : i \in Slots}
    <3>1. before + after \in Slots
      BY <1>1
    <3>2. QED
      BY <2>1, <3>1
  <2>5. QED
    BY <2>2, <2>3, <2>4
<1>3. {vec[j] : j \in Slots} = {vec[0]} \cup later
  <2>1. 0 \in Slots /\ \A j \in Slots : j = 0 \/ j \in 1..(before + after)
    BY <1>1
  <2>2. \A j \in 1..(before + after) : j \in Slots
    BY <1>1
  <2>3. QED
    BY <2>1, <2>2
<1>4. vec[0] = vec[1] => vec[0] \in later
  BY <1>1
<1>5. vec[0] # vec[1] => vec[0] \notin later
  <2>1. SUFFICES ASSUME vec[0] # vec[1], NEW j \in 1..(before + after)
                 PROVE  vec[j] # vec[0]
    OBVIOUS
  <2>2. 0 \in Slots /\ 1 \in Slots /\ j \in Slots
    BY <1>1
  <2>3. /\ length > 0
        /\ vec[0] = Nearest(length, Current - before + 0)
        /\ vec[1] = Nearest(length, Current - before + 1)
        /\ vec[j] = Nearest(length, Current - before + j)
    BY <1>1, <2>1, <2>2
  <2>4. QED
    BY <1>1, <2>1, <2>3 DEF Nearest
<1>6. QED
  BY <1>2, <1>3, <1>4, <1>5 DEF Held, Dropped

\* The empty slots of a window that is being filled take the element.
LEMMA FilledHolds ==
    ASSUME WindowInv, Filling, NEW x \in Nat \ {0}
    PROVE  /\ before + numInserts < Size
           /\ {Inserted(x)[j] : j \in Slots} \ {0} = {x} \cup Held
<1>1. /\ before \in Nat /\ after \in Nat /\ numInserts \in Nat /\ length \in Nat
      /\ Slots = 0..(before + after) /\ Size - 1 = before + after
      /\ numInserts <= after
  BY DEF WindowInv, TypeOK, Lengths, Filling, Slots, Size
<1>2. before + numInserts < Size /\ before + numInserts \in Slots
  BY <1>1 DEF Size
<1>3. \A j \in Slots : Inserted(x)[j] = IF j = before + numInserts
                                           \/ (numInserts = 0 /\ j < before)
                                        THEN x ELSE vec[j]
  BY <1>2 DEF Inserted
<1>4. \A j \in Slots : j = before + numInserts \/ (numInserts = 0 /\ j < before)
                       => vec[j] = 0
  BY <1>1 DEF WindowInv, Contents
<1>5. QED
  BY <1>2, <1>3, <1>4 DEF Held

\* Nothing is allocated at the start.
LEMMA InitOwned == WindowInit => OwnedInv
<1>1. ASSUME WindowInit
      PROVE  live = Held
  BY <1>1 DEF WindowInit, Empty, Held
<1>2. QED
  BY <1>1, InitWindow DEF OwnedInv

\* What an insertion adds and drops is what vec gains and loses.
LEMMA ReadElementOwned ==
    ASSUME OwnedInv, ReadElement
    PROVE  live' = Held'
<1>1. /\ WindowInv /\ live = Held /\ ~end
      /\ Slots' = Slots /\ vec' = Inserted(numInserts + 1)
      /\ live' = {numInserts + 1} \cup
                 (live \ IF before + numInserts < Size THEN {} ELSE Dropped(vec))
  BY DEF OwnedInv, ReadElement, Insert, WindowInv, Progress, Slots, Size
<1>2. /\ numInserts \in Nat /\ numInserts + 1 \in Nat \ {0}
      /\ before \in Nat /\ after \in Nat
  BY <1>1 DEF WindowInv, TypeOK
<1>3. CASE Filling
  <2>1. PICK x \in Nat \ {0} : x = numInserts + 1
    BY <1>2
  <2>2. /\ before + numInserts < Size
        /\ {Inserted(x)[j] : j \in Slots} \ {0} = {x} \cup Held
    BY <1>1, <1>3, FilledHolds
  <2>3. live' = {x} \cup live
    BY <1>1, <2>1, <2>2
  <2>4. Held' = {Inserted(x)[j] : j \in Slots} \ {0}
    BY <1>1, <2>1 DEF Held
  <2>5. QED
    BY <1>1, <2>2, <2>3, <2>4
<1>4. CASE ~Filling
  <2>1. ~(before + numInserts < Size)
    BY <1>1, <1>2, <1>4 DEF Filling, Size
  <2>2. vec' = Moved(numInserts + 1)
    BY <1>1, <2>1 DEF Inserted
  <2>3. Held' = ({numInserts + 1} \cup (Held \ Dropped(vec))) \ {0}
    BY <1>1, <1>2, <1>4, <2>2, MovedHolds DEF Held
  <2>4. 0 \notin Held /\ numInserts + 1 # 0
    BY <1>2 DEF Held
  <2>5. QED
    BY <1>1, <2>1, <2>3, <2>4
<1>5. QED
  BY <1>3, <1>4

\* A shift that moves the window repeats the last element.
LEMMA ShiftOwned ==
    ASSUME OwnedInv, ~Filling, Shift(FALSE), Slots' = Slots
    PROVE  live' = Held'
<1>1. /\ WindowInv /\ live = Held
      /\ vec' = Moved(vec[Size - 1]) /\ live' = live \ Dropped(vec)
  BY DEF OwnedInv, Shift
<1>2. /\ before \in Nat /\ after \in Nat /\ before + after > 0
      /\ length \in Nat /\ Current \in Int
      /\ Size - 1 = before + after /\ Slots = 0..(before + after)
      /\ \/ \A j \in Slots : vec[j] = 0
         \/ /\ length > 0
            /\ \A j \in Slots : vec[j] = Nearest(length, Current - before + j)
  BY <1>1, FullWindow
<1>3. 0 \in Slots /\ 1 \in Slots /\ Size - 1 \in Slots
  BY <1>2
<1>4. vec[Size - 1] \in Nat
  BY <1>1, <1>3 DEF WindowInv, TypeOK
<1>5. vec[Size - 1] \notin Dropped(vec)
  <2>1. CASE \A j \in Slots : vec[j] = 0
    BY <1>3, <2>1 DEF Dropped
  <2>2. CASE /\ length > 0
             /\ \A j \in Slots : vec[j] = Nearest(length, Current - before + j)
    <3>1. /\ vec[0] = Nearest(length, Current - before + 0)
          /\ vec[1] = Nearest(length, Current - before + 1)
          /\ vec[Size - 1] = Nearest(length, Current - before + (Size - 1))
      BY <1>3, <2>2
    <3>2. vec[0] # vec[1] => vec[Size - 1] # vec[0]
      BY <1>2, <2>2, <3>1 DEF Nearest
    <3>3. QED
      BY <3>2 DEF Dropped
  <2>3. QED
    BY <1>2, <2>1, <2>2
<1>6. Held' = ({vec[Size - 1]} \cup (Held \ Dropped(vec))) \ {0}
  BY <1>1, <1>4, MovedHolds DEF Held
<1>7. vec[Size - 1] \in Held \cup {0}
  BY <1>3 DEF Held
<1>8. 0 \notin Held
  BY DEF Held
<1>9. QED
  BY <1>1, <1>5, <1>6, <1>7, <1>8

\* At the end of a sequence the window shifts or is emptied, and so is live.
LEMMA ReadEndOwned ==
    ASSUME ~PartlyFilled, OwnedInv, ReadEnd
    PROVE  live' = Held'
<1>1. /\ WindowInv /\ live = Held /\ ~end /\ numInserts = length
      /\ Slots' = Slots /\ Shift(FillsAfter(length))
  BY DEF OwnedInv, ReadEnd, WindowInv, Progress, Slots, Size, Shift
<1>2. /\ before \in Nat /\ after \in Nat /\ length \in Nat
      /\ length <= after \/ length > before + after
      /\ Slots = 0..(before + after) /\ Size = before + after + 1
  BY <1>1 DEF WindowInv, TypeOK, Lengths, Slots, Size
<1>3. CASE length > before + after
  <2>1. ~Filling /\ FillsAfter(length) = FALSE
    BY <1>1, <1>2, <1>3 DEF Filling, FillsAfter
  <2>2. QED
    BY <1>1, <2>1, ShiftOwned
<1>4. CASE length = 0
  <2>1. \A j \in Slots : vec[j] = 0
    BY <1>1, <1>4 DEF WindowInv, Contents
  <2>2. vec' = Moved(vec[Size - 1]) /\ live' = live \ Dropped(vec)
    BY <1>1, <1>4 DEF Shift, FillsAfter
  <2>3. live = {}
    BY <1>1, <2>1 DEF Held
  <2>4. \A j \in Slots : vec'[j] = 0
    <3>1. Size - 1 \in Slots /\ \A j \in Slots : j # Size - 1 => j + 1 \in Slots
      BY <1>2
    <3>2. QED
      BY <2>1, <2>2, <3>1 DEF Moved
  <2>5. QED
    BY <1>1, <2>2, <2>3, <2>4 DEF Held
<1>5. CASE length > 0 /\ length <= after
  <2>1. FillsAfter(length) /\ Filling
    BY <1>1, <1>2, <1>5 DEF Filling, FillsAfter
  <2>2. /\ vec' = [j \in Slots |-> IF j >= before + length THEN vec[before + length - 1]
                                  ELSE vec[j]]
        /\ live' = live
    BY <1>1, <2>1 DEF Shift
  <2>3. /\ before + length - 1 \in Slots
        /\ ~(before + length - 1 >= before + length)
    BY <1>2, <1>5
  <2>4. \A j \in Slots : j >= before + length => vec[j] = 0
    BY <1>1, <2>1 DEF WindowInv, Contents
  <2>5. QED
    BY <1>1, <2>2, <2>3, <2>4 DEF Held
<1>6. QED
  BY <1>2, <1>3, <1>4, <1>5

\* The smallest and the largest element of a set, when they are known.
LEMMA KnownMin ==
    ASSUME NEW S \in SUBSET Int, NEW m \in S, \A x \in S : m <= x
    PROVE  Min(S) = m
<1>1. \A y \in S : (\A x \in S : y <= x) => y = m
  OBVIOUS
<1>2. QED
  BY <1>1 DEF Min

LEMMA KnownMax ==
    ASSUME NEW S \in SUBSET Int, NEW m \in S, \A x \in S : m >= x
    PROVE  Max(S) = m
<1>1. \A y \in S : (\A x \in S : y >= x) => y = m
  OBVIOUS
<1>2. QED
  BY <1>1 DEF Max

\* Where delete_contents begins and ends, if that is known.
LEMMA KnownToDelete ==
    ASSUME WindowInv, numInserts # 0,
           NEW f \in Slots, NEW l \in Slots, f <= l,
           f = Size - 1 \/ vec[f] # vec[f + 1],
           \A j \in Slots : j < f => vec[j] = vec[j + 1],
           l = f \/ vec[l] # vec[l - 1],
           \A j \in Slots : j > l => vec[j] = vec[j - 1]
    PROVE  ToDelete = f..l
<1>1. /\ Size \in Nat /\ Slots = 0..Size - 1
  BY DEF WindowInv, TypeOK, Size, Slots
<1>2. FirstKept = f
  <2> DEFINE S == {j \in Slots : j = Size - 1 \/ vec[j] # vec[j + 1]}
  <2>1. S \in SUBSET Int /\ f \in S
    BY <1>1
  <2>2. \A x \in S : f <= x
    BY <1>1
  <2>3. Min(S) = f
    BY <2>1, <2>2, KnownMin
  <2>4. QED
    BY <2>3 DEF FirstKept
<1>3. LastKept = l
  <2> DEFINE S == {j \in f..Size - 1 : j = f \/ vec[j] # vec[j - 1]}
  <2>1. S \in SUBSET Int /\ l \in S
    BY <1>1
  <2>2. \A x \in S : l >= x
    BY <1>1
  <2>3. Max(S) = l
    BY <2>1, <2>2, KnownMax
  <2>4. QED
    BY <1>2, <2>3 DEF LastKept
<1>4. QED
  BY <1>2, <1>3 DEF ToDelete

\* delete_contents finds every element of the window once.
LEMMA DeletedOnce ==
    ASSUME WindowInv
    PROVE  /\ \A i, j \in ToDelete : vec[i] = vec[j] /\ vec[i] # 0 => i = j
           /\ {vec[j] : j \in ToDelete} \ {0} = Held
<1>1. /\ before \in Nat /\ after \in Nat /\ before + after > 0
      /\ numInserts \in Nat /\ length \in Nat /\ numInserts <= length
      /\ Slots = 0..(before + after) /\ Size - 1 = before + after
  BY DEF WindowInv, TypeOK, Progress, Lengths, Slots, Size
<1>2. CASE numInserts = 0
  BY <1>2 DEF WindowInv, Contents, ToDelete, Held
<1>3. CASE numInserts # 0 /\ Filling
  <2>1. numInserts <= after /\ length > 0
    BY <1>1, <1>3 DEF Filling
  <2>2. \A j \in Slots : vec[j] = IF j >= before + numInserts THEN 0
                                  ELSE IF j < before THEN 1 ELSE j - before + 1
    BY <1>1, <1>3, <2>1 DEF WindowInv, Contents, Nearest
  <2>3. ToDelete = before..(before + numInserts)
    <3>1. before \in Slots /\ before + numInserts \in Slots /\ before + 1 \in Slots
          /\ before + numInserts - 1 \in Slots
      BY <1>1, <1>3, <2>1
    <3>2. vec[before] # vec[before + 1]
      BY <1>1, <1>3, <2>2, <3>1
    <3>3. vec[before + numInserts] # vec[before + numInserts - 1]
      BY <1>1, <1>3, <2>2, <3>1
    <3>4. ASSUME NEW j \in Slots, j < before
          PROVE  vec[j] = vec[j + 1]
      <4>1. j + 1 \in Slots
        BY <1>1, <3>4
      <4>2. QED
        BY <1>1, <1>3, <2>2, <3>4, <4>1
    <3>5. ASSUME NEW j \in Slots, j > before + numInserts
          PROVE  vec[j] = vec[j - 1]
      <4>1. j - 1 \in Slots
        BY <1>1, <3>5
      <4>2. QED
        BY <1>1, <2>2, <3>5, <4>1
    <3> DEFINE l == before + numInserts
    <3>6. /\ l \in Slots /\ before <= l /\ vec[l] # vec[l - 1]
          /\ \A j \in Slots : j > l => vec[j] = vec[j - 1]
      BY <1>1, <3>1, <3>3, <3>5
    <3> HIDE DEF l
    <3>7. ToDelete = before..l
      BY <1>3, <3>1, <3>2, <3>4, <3>6, KnownToDelete
    <3>8. QED
      BY <3>7 DEF l
  <2>4. \A j \in ToDelete : j \in Slots /\ j >= before
    BY <1>1, <2>1, <2>3
  <2>5. \A j \in Slots : vec[j] # 0 => \E i \in ToDelete : vec[i] = vec[j]
    <3>1. SUFFICES ASSUME NEW j \in Slots, vec[j] # 0
                   PROVE  \E i \in ToDelete : vec[i] = vec[j]
      OBVIOUS
    <3>2. CASE j < before
      <4>1. before \in ToDelete /\ before \in Slots
        BY <1>1, <2>3
      <4>2. vec[j] = vec[before]
        BY <1>1, <1>3, <2>2, <3>2, <4>1
      <4>3. QED
        BY <4>1, <4>2
    <3>3. CASE ~(j < before)
      <4>1. j \in ToDelete
        BY <1>1, <2>2, <2>3, <3>1, <3>3
      <4>2. QED
        BY <4>1
    <3>4. QED
      BY <3>2, <3>3
  <2>6. \A i, j \in ToDelete : vec[i] = vec[j] /\ vec[i] # 0 => i = j
    BY <1>1, <2>2, <2>4
  <2>7. QED
    BY <2>4, <2>5, <2>6 DEF Held
<1>4. CASE numInserts # 0 /\ ~Filling
  <2> DEFINE b == Current - before
             top == before + after
  <2>1. length > 0 /\ b \in Int /\ top \in Nat /\ top > 0
    BY <1>1, <1>4, FullWindow
  <2>2. \A j \in Slots : vec[j] = Nearest(length, b + j)
    BY <1>4 DEF WindowInv, Contents
  <2> HIDE DEF b
  <2>3. CASE length = 1 \/ b + top <= 1 \/ b >= length
    <3>1. \E v \in 1..length : \A j \in Slots : vec[j] = v
      <4>1. CASE length = 1 \/ b + top <= 1
        <5>1. \A j \in Slots : vec[j] = 1
          BY <1>1, <2>1, <2>2, <4>1 DEF Nearest
        <5>2. 1 \in 1..length
          BY <2>1, <1>1
        <5>3. QED
          BY <5>1, <5>2
      <4>2. CASE b >= length
        <5>1. \A j \in Slots : vec[j] = length
          BY <1>1, <2>1, <2>2, <4>2 DEF Nearest
        <5>2. length \in 1..length
          BY <2>1, <1>1
        <5>3. QED
          BY <5>1, <5>2
      <4>3. QED
        BY <2>3, <4>1, <4>2
    <3>2. PICK v \in 1..length : \A j \in Slots : vec[j] = v
      BY <3>1
    <3>3. top \in Slots /\ top = Size - 1 /\ top <= top
      BY <1>1, <2>1
    <3>4. \A j \in Slots : j < top => vec[j] = vec[j + 1]
      <4>1. \A j \in Slots : j < top => j + 1 \in Slots
        BY <1>1
      <4>2. QED
        BY <3>2, <4>1
    <3>5. \A j \in Slots : ~(j > top)
      BY <1>1
    <3>6. ToDelete = top..top
      BY <1>4, <3>3, <3>4, <3>5, KnownToDelete
    <3>7. ToDelete = {top}
      BY <2>1, <3>6
    <3>8. QED
      BY <3>2, <3>3, <3>7 DEF Held
  <2>4. CASE length > 1 /\ b + top > 1 /\ b < length
    <3> DEFINE f == IF b < 1 THEN 1 - b ELSE 0
               l == IF length - b < top THEN length - b ELSE top
    <3>1. /\ f \in Nat /\ l \in Nat /\ f < l /\ l <= top
          /\ f \in Slots /\ l \in Slots /\ f + 1 \in Slots /\ l - 1 \in Slots
      BY <1>1, <2>1, <2>4
    <3>2. \A j \in f..l : j \in Slots /\ vec[j] = b + j /\ b + j >= 1
      BY <1>1, <2>1, <2>2, <2>4, <3>1 DEF Nearest
    <3>3. \A j \in Slots : j < f => vec[j] = 1 /\ vec[f] = 1
      BY <1>1, <2>1, <2>2, <2>4, <3>1 DEF Nearest
    <3>4. \A j \in Slots : j > l => vec[j] = length /\ vec[l] = length
      BY <1>1, <2>1, <2>2, <2>4, <3>1 DEF Nearest
    <3>5. vec[f] # vec[f + 1] /\ vec[l] # vec[l - 1]
      <4>1. f \in f..l /\ f + 1 \in f..l /\ l \in f..l /\ l - 1 \in f..l
        BY <3>1
      <4>2. vec[f] = b + f /\ vec[f + 1] = b + (f + 1) /\ vec[l] = b + l
            /\ vec[l - 1] = b + (l - 1)
        BY <3>2, <4>1
      <4>3. QED
        BY <2>1, <3>1, <4>2
    <3> HIDE DEF f, l
    <3>6. \A j \in Slots : j < f => vec[j] = vec[j + 1]
      <4>1. ASSUME NEW j \in Slots, j < f
            PROVE  vec[j] = vec[j + 1]
        <5>1. j + 1 \in Slots /\ (j + 1 < f \/ j + 1 = f)
          BY <1>1, <3>1, <4>1
        <5>2. QED
          BY <3>3, <4>1, <5>1
      <4>2. QED
        BY <4>1
    <3>7. \A j \in Slots : j > l => vec[j] = vec[j - 1]
      <4>1. ASSUME NEW j \in Slots, j > l
            PROVE  vec[j] = vec[j - 1]
        <5>1. j - 1 \in Slots /\ (j - 1 > l \/ j - 1 = l)
          BY <1>1, <3>1, <4>1
        <5>2. QED
          BY <3>4, <4>1, <5>1
      <4>2. QED
        BY <4>1
    <3>8. ToDelete = f..l
      BY <1>4, <3>1, <3>5, <3>6, <3>7, KnownToDelete
    <3>9. \A i, j \in ToDelete : vec[i] = vec[j] => i = j
      BY <2>1, <3>1, <3>2, <3>8
    <3>10. \A j \in Slots : \E i \in ToDelete : vec[i] = vec[j]
      <4>1. f \in ToDelete /\ l \in ToDelete
        BY <3>1, <3>8
      <4>2. \A j \in Slots : j < f \/ j > l \/ j \in ToDelete
        BY <1>1, <3>1, <3>8
      <4>3. QED
        BY <3>3, <3>4, <4>1, <4>2
    <3>11. \A i, j \in ToDelete : vec[i] = vec[j] /\ vec[i] # 0 => i = j
      BY <3>9
    <3>12. {vec[j] : j \in ToDelete} = {vec[j] : j \in Slots}
      <4>1. ToDelete \subseteq Slots
        BY <1>1, <3>1, <3>8
      <4>2. QED
        BY <3>10, <4>1
    <3>13. QED
      BY <3>11, <3>12 DEF Held
  <2>5. QED
    BY <1>1, <2>1, <2>3, <2>4
<1>5. QED
  BY <1>2, <1>3, <1>4

\* Every step preserves the ownership of the elements.
LEMMA NextOwned == ~PartlyFilled /\ OwnedInv /\ [WindowNext]_windowVars => OwnedInv'
<1> SUFFICES ASSUME ~PartlyFilled, OwnedInv, [WindowNext]_windowVars
             PROVE  live' = Held'
  BY NextWindow DEF OwnedInv
<1>1. CASE ReadElement
  BY <1>1, ReadElementOwned
<1>2. CASE ReadEnd
  BY <1>2, ReadEndOwned
<1>3. CASE GetShifted
  BY <1>3, ShiftOwned DEF GetShifted, Filling, Slots, Size
<1>4. CASE ReturnEnd \/ Reset
  <2>1. live' = live \ {vec[j] : j \in ToDelete} /\ vec' = [j \in Slots |-> 0]
        /\ Slots' = Slots
    BY <1>4 DEF ReturnEnd, Reset, ResetContext, Empty, Slots, Size
  <2>2. live = Held /\ {vec[j] : j \in ToDelete} \ {0} = Held
    BY DeletedOnce DEF OwnedInv
  <2>3. Held' = {}
    BY <2>1 DEF Held
  <2>4. QED
    BY <2>1, <2>2, <2>3
<1>5. CASE Get \/ ReturnWindow \/ UNCHANGED windowVars
  BY <1>5 DEF Get, ReturnWindow, windowVars, ctxtVars, OwnedInv, Held, Slots, Size
<1>6. QED
  BY <1>1, <1>2, <1>3, <1>4, <1>5 DEF WindowNext

(***************************************************************************)
(* The context owns the elements it was given, under the same condition:   *)
(* what is allocated is in the window, and delete_contents, whenever a     *)
(* reset calls it, deletes each element once.                              *)
(***************************************************************************)
THEOREM ElementsAreOwned == ASSUME ~PartlyFilled PROVE WindowSpec => []Owned
<1>1. WindowInit => OwnedInv
  BY InitOwned
<1>2. OwnedInv /\ [WindowNext]_windowVars => OwnedInv'
  BY NextOwned
<1>3. OwnedInv => Owned
  BY DeletedOnce DEF OwnedInv, Owned, Held
<1>4. QED
  BY <1>1, <1>2, <1>3, PTL DEF WindowSpec
=============================================================================
