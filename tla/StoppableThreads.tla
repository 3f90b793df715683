-------------------------- MODULE StoppableThreads --------------------------
(***************************************************************************)
(* Threads that a program starts, stops, waits for and deletes (Threadable *)
(* of basics/thread_utils/c_src/threadable.h), and the handler of ctrl+c,  *)
(* which stops the threads in its list (SigIntHandler of                   *)
(* sig_int_handler.cc).                                                    *)
(*                                                                         *)
(* The owner is the thread of the Lua program, which calls the methods of  *)
(* all objects.  A handler runs over the owner or over the thread of an    *)
(* object, which goes no further until it returns; a second ctrl+c starts  *)
(* a handler over another of them.  running and the list are read and      *)
(* written by all without a lock: each access is a step.                   *)
(*                                                                         *)
(* The use of memory that was freed (an iterator at an erased node, an     *)
(* entry of a deleted object) or of the list in the middle of an edit may  *)
(* crash the program or go unnoticed.                                      *)
(***************************************************************************)
EXTENDS Integers

CONSTANTS Object,                   \* the Threadable objects
          MaxStarts, MaxSignals     \* bounds: starts and ctrl+c

Carrier == Object \cup {"owner"}    \* the threads a handler may run over

ASSUME ThreadsAssumption == "owner" \notin Object

VARIABLES
    running, joined,    \* fields of each object
    deleted,            \* whether its destructor returned
    thread,             \* what execute of the object is about to do
    objects,            \* how often it is in SigIntHandler::objects
    torn,               \* two edits of that list overlapped and broke it
    owner,              \* what the owner is about to do
    self,               \* the object of the method it is in
    caller,             \* the method, or the script, that it returns to
    handler,            \* what the handler over each carrier is about to do
    target,             \* the object it is stopping, or nobody
    left,               \* how often each object is in the entries it has left
    overtaken,          \* objects started while a handler was about to remove them
    crashed,
    starts, signals

objectVars  == <<running, joined, deleted, thread>>
ownerVars   == <<owner, self, caller, starts>>
handlerVars == <<handler, target, left>>

threadsVars == <<objectVars, objects, torn, ownerVars, handlerVars, overtaken, crashed, signals>>

ThreadsInit ==
    /\ running = [a \in Object |-> FALSE] /\ joined = [a \in Object |-> TRUE]
    /\ deleted = [a \in Object |-> FALSE] /\ thread = [a \in Object |-> "none"]
    /\ objects = [a \in Object |-> 0] /\ torn = FALSE
    /\ owner = "script" /\ self \in Object /\ caller = "script"
    /\ handler = [w \in Carrier |-> "idle"] /\ target = [w \in Carrier |-> "nobody"]
    /\ left = [w \in Carrier |-> objects]
    /\ overtaken = {} /\ crashed = FALSE
    /\ starts = 0 /\ signals = 0
-----------------------------------------------------------------------------
(***************************************************************************)
(* The list.  An edit lasts from its first access to its last; when two    *)
(* overlap, the list may be whole afterwards or broken, and what a handler *)
(* then finds in it is any entries.                                        *)
(***************************************************************************)
MayCrash(bad) == crashed' \in {FALSE, bad}

OwnerEdits == owner \in {"add", "removing"}

\* An edit by the owner, or by the handler over a carrier, ends.
EditBeside(others) ==
    IF others THEN torn' \in {torn, TRUE} ELSE UNCHANGED torn

Removed(a) == [objects EXCEPT ![a] = 0]

Found == IF torn THEN [Object -> 0..1] ELSE {objects}
-----------------------------------------------------------------------------
(***************************************************************************)
(* The methods, called by the script one at a time.                        *)
(***************************************************************************)
Owner(from, to) ==
    /\ ~crashed /\ handler["owner"] = "idle"
    /\ owner = from /\ owner' = to
    /\ UNCHANGED <<deleted, target, handler, signals>>

\* The script calls a method of an object it has not deleted.
Call(a, to) ==
    /\ Owner("script", to)
    /\ ~deleted[a] /\ self' = a
    /\ UNCHANGED <<running, joined, thread, objects, torn, left, overtaken, crashed>>

StartThread(a) ==
    /\ ~running[a] /\ starts < MaxStarts
    /\ Call(a, IF joined[a] THEN "begin" ELSE "wait")
    /\ caller' = IF joined[a] THEN caller ELSE "start"
    /\ starts' = starts + 1

StopThread(a) == Call(a, "stop") /\ UNCHANGED <<caller, starts>>

WaitThread(a) == Call(a, "wait") /\ UNCHANGED <<caller, starts>>

Destructor(a) == Call(a, "stop") /\ caller' = "destructor" /\ UNCHANGED starts

Script == \E a \in Object : StartThread(a) \/ StopThread(a) \/ WaitThread(a) \/ Destructor(a)

Begin ==
    /\ Owner("begin", "create")
    /\ joined' = [joined EXCEPT ![self] = FALSE]
    /\ running' = [running EXCEPT ![self] = TRUE]
    /\ overtaken' = IF \E w \in Carrier : handler[w] = "remove" /\ target[w] = self
                    THEN overtaken \cup {self} ELSE overtaken \ {self}
    /\ UNCHANGED <<thread, objects, torn, self, caller, starts, left, crashed>>

Create ==
    /\ Owner("create", "add")
    /\ thread' = [thread EXCEPT ![self] = "test"]
    /\ UNCHANGED <<running, joined, objects, torn, self, caller, starts, left, overtaken, crashed>>

\* Mutant: only the first start adds the object to the list.
AddedOnce(entries) == IF starts = 1 THEN [entries EXCEPT ![self] = @ + 1] ELSE entries

Added(entries) == [entries EXCEPT ![self] = @ + 1]

\* push_back: a handler that is on its way through the list comes to it too.
AddThread ==
    /\ Owner("add", "script")
    /\ objects' = Added(objects)
    /\ left' = [w \in Carrier |-> IF handler[w] = "idle" THEN left[w] ELSE Added(left[w])]
    /\ EditBeside(\E w \in Carrier : handler[w] = "remove") /\ MayCrash(torn')
    /\ UNCHANGED <<running, joined, thread, self, caller, starts, overtaken>>

\* Mutant: the destructor does not wait for the thread that it stopped.
AfterStopDelete == IF caller = "destructor" THEN "delete" ELSE "script"

\* What the destructor does after stopThread, and after waitThread.
AfterStop == IF caller = "destructor" THEN "wait" ELSE "script"

AfterWait ==
    CASE caller = "script" -> "script" [] caller = "start" -> "begin"
      [] caller = "destructor" -> "delete"

TestStop ==
    /\ Owner("stop", IF running[self] THEN "stopping" ELSE AfterStop)
    /\ UNCHANGED <<running, joined, thread, objects, torn, self, caller, starts, left,
                   overtaken, crashed>>

ClearRunning ==
    /\ Owner("stopping", "removing")
    /\ running' = [running EXCEPT ![self] = FALSE]
    /\ UNCHANGED <<joined, thread, objects, torn, self, caller, starts, left, overtaken, crashed>>

RemoveThread ==
    /\ Owner("removing", AfterStop)
    /\ objects' = Removed(self)
    /\ EditBeside(\E w \in Carrier : handler[w] = "remove") /\ MayCrash(torn')
    /\ UNCHANGED <<running, joined, thread, self, caller, starts, left, overtaken>>

TestWait ==
    /\ Owner("wait", IF ~running[self] /\ ~joined[self] THEN "join" ELSE AfterWait)
    /\ UNCHANGED <<running, joined, thread, objects, torn, self, caller, starts, left,
                   overtaken, crashed>>

Join ==
    /\ thread[self] = "exited"
    /\ Owner("join", AfterWait)
    /\ joined' = [joined EXCEPT ![self] = TRUE]
    /\ caller' = IF caller = "start" THEN "script" ELSE caller
    /\ UNCHANGED <<running, thread, objects, torn, self, starts, left, overtaken, crashed>>

Delete ==
    /\ ~crashed /\ handler["owner"] = "idle"
    /\ owner = "delete" /\ owner' = "script" /\ caller' = "script"
    /\ deleted' = [deleted EXCEPT ![self] = TRUE]
    /\ UNCHANGED <<running, joined, thread, objects, torn, self, starts, handlerVars, overtaken,
                   crashed, signals>>

OwnerStep ==
    \/ Begin \/ Create \/ AddThread
    \/ TestStop \/ ClearRunning \/ RemoveThread \/ TestWait \/ Join \/ Delete
-----------------------------------------------------------------------------
(***************************************************************************)
(* execute: while (running && threadProcedure()); running = false.         *)
(***************************************************************************)
Thread(a, from, to) ==
    /\ ~crashed /\ handler[a] = "idle"
    /\ thread[a] = from /\ thread' = [thread EXCEPT ![a] = to]
    /\ UNCHANGED <<joined, deleted, objects, torn, ownerVars, handlerVars, overtaken, crashed,
                   signals>>

\* Mutant: only the procedure can end the loop.
GoesOnAlways(a) == TRUE

GoesOn(a) == running[a]

TestRunning(a) ==
    Thread(a, "test", IF GoesOn(a) THEN "procedure" ELSE "end") /\ UNCHANGED running

ThreadProcedure(a) ==
    \E to \in {"test", "end"} : Thread(a, "procedure", to) /\ UNCHANGED running

End(a) == Thread(a, "end", "exited") /\ running' = [running EXCEPT ![a] = FALSE]

ThreadStep(a) == TestRunning(a) \/ ThreadProcedure(a) \/ End(a)
-----------------------------------------------------------------------------
(***************************************************************************)
(* sig_int_handler: stopThread of the object of each entry of the list,    *)
(* from which that removes the object.                                     *)
(***************************************************************************)
Handler(w, from, to) ==
    /\ ~crashed
    /\ handler[w] = from /\ handler' = [handler EXCEPT ![w] = to]
    /\ UNCHANGED <<joined, deleted, thread, ownerVars, overtaken, signals>>

Alive == {"test", "procedure", "end"}

\* Ctrl+c; the carrier holds the signal back while a handler runs over it.
Interrupt(w) ==
    /\ ~crashed /\ handler[w] = "idle" /\ signals < MaxSignals
    /\ w \in Object => thread[w] \in Alive
    /\ handler' = [handler EXCEPT ![w] = "walk"]
    /\ \E entries \in Found : left' = [left EXCEPT ![w] = entries]
    /\ signals' = signals + 1
    /\ UNCHANGED <<objectVars, objects, torn, ownerVars, target, overtaken, crashed>>

SomeoneEdits == OwnerEdits \/ \E w \in Carrier : handler[w] = "remove"

\* The next entry.  Another may have erased it since (the handler then skips
\* it or visits the erased node), or deleted its object without erasing it
\* (running is then what the memory holds).
Walk(w) ==
    \E a \in Object :
        /\ left[w][a] > 0
        /\ \/ /\ running[a] \/ deleted[a]
              /\ Handler(w, "walk", "stop")
              /\ target' = [target EXCEPT ![w] = a]
           \/ /\ ~running[a] \/ objects[a] = 0
              /\ Handler(w, "walk", "walk")
              /\ UNCHANGED target
        /\ left' = [left EXCEPT ![w][a] = @ - 1]
        /\ MayCrash(deleted[a] \/ objects[a] = 0 \/ SomeoneEdits \/ torn)
        /\ UNCHANGED <<running, objects, torn>>

HandlerReturns(w) ==
    /\ \A a \in Object : left[w][a] = 0
    /\ Handler(w, "walk", "idle")
    /\ MayCrash(SomeoneEdits \/ torn)
    /\ UNCHANGED <<running, objects, torn, target, left>>

HandlerStops(w) ==
    /\ Handler(w, "stop", "remove")
    /\ running' = [running EXCEPT ![target[w]] = FALSE]
    /\ MayCrash(deleted[target[w]])
    /\ UNCHANGED <<objects, torn, target, left>>

\* remove erases all nodes of the object, the one of the loop too, and the
\* loop goes on from it.
HandlerRemoves(w) ==
    /\ Handler(w, "remove", "walk")
    /\ objects' = Removed(target[w])
    /\ EditBeside(OwnerEdits \/ \E v \in Carrier \ {w} : handler[v] = "remove")
    /\ target' = [target EXCEPT ![w] = "nobody"]
    /\ MayCrash(TRUE)
    /\ UNCHANGED <<running, left>>

HandlerStep(w) == Walk(w) \/ HandlerReturns(w) \/ HandlerStops(w) \/ HandlerRemoves(w)

ThreadsNext ==
    \/ Script \/ OwnerStep
    \/ \E a \in Object : ThreadStep(a)
    \/ \E w \in Carrier : Interrupt(w) \/ HandlerStep(w)

ThreadsSpec == ThreadsInit /\ [][ThreadsNext]_threadsVars

\* The threads and the handlers are scheduled; a procedure returns.
ThreadsScheduled ==
    /\ WF_threadsVars(OwnerStep)
    /\ \A a \in Object : WF_threadsVars(ThreadStep(a))
    /\ \A w \in Carrier : WF_threadsVars(HandlerStep(w))
-----------------------------------------------------------------------------
(***************************************************************************)
(* An object is not deleted while its thread may still use it, nor joined  *)
(* while the thread runs, whoever stopped it: the script, a handler in the *)
(* middle of a method, or the procedure itself.                            *)
(***************************************************************************)
ThreadNeverOutlives ==
    \A a \in Object : deleted[a] \/ joined[a] => thread[a] \in {"none", "exited"}

(***************************************************************************)
(* An object that runs and whose startThread is over is in the list of the *)
(* handler, so that the next ctrl+c reaches it, also after starts that     *)
(* follow an end of its own or an earlier ctrl+c.  Not when it was started *)
(* while a handler over another thread had stopped it and was about to     *)
(* remove it (that removes the new entry too), nor when edits of the list  *)
(* overlapped and broke it (nothing is known of the list then).            *)
(***************************************************************************)
Starting(a) == self = a /\ owner \in {"create", "add"}

ReachedByCtrlC ==
    \A a \in Object :
        running[a] /\ ~Starting(a) => objects[a] > 0 \/ a \in overtaken \/ torn

(***************************************************************************)
(* Why the two hold: only the owner sets running, when it has joined the   *)
(* thread of the start before, so that no handler can be over that thread; *)
(* and whoever removes the object from the list has cleared running, which *)
(* stays so unless the owner overtakes a handler.                          *)
(***************************************************************************)
Interrupted ==
    /\ \A w \in Carrier : handler[w] \in {"stop", "remove"} => target[w] \in Object
    /\ \A a \in Object : handler[a] # "idle" => thread[a] \in Alive

Joining ==
    /\ \A a \in Object : joined[a] => thread[a] \in {"none", "exited"}
    /\ \A a \in Object : deleted[a] => joined[a]
    /\ owner # "script" => ~deleted[self]
    /\ owner \in {"begin", "delete"} => joined[self]
    /\ owner = "create" => ~joined[self]
    /\ caller = "start" => owner \in {"wait", "join"} /\ ~running[self] /\ ~joined[self]

Stopping ==
    /\ owner = "removing" => ~running[self]
    /\ \A w \in Carrier : handler[w] = "remove" /\ running[target[w]] => target[w] \in overtaken
    /\ caller = "destructor" =>
          /\ owner \in {"stop", "stopping", "removing", "wait", "join", "delete"}
          /\ owner \in {"wait", "join", "delete"} => ~running[self]

ThreadTypes ==
    /\ running \in [Object -> BOOLEAN] /\ joined \in [Object -> BOOLEAN]
    /\ deleted \in [Object -> BOOLEAN] /\ thread \in [Object -> Alive \cup {"none", "exited"}]
    /\ objects \in [Object -> Nat] /\ torn \in BOOLEAN /\ self \in Object
    /\ DOMAIN handler = Carrier /\ DOMAIN target = Carrier
    /\ caller \in {"script", "start", "destructor"}

ThreadsInv == ThreadTypes /\ Interrupted /\ Joining /\ Stopping /\ ReachedByCtrlC

(***************************************************************************)
(* A destructor returns: a thread told to stop ends, and the owner does    *)
(* not wait for one that never does, unless a ctrl+c crashed the program.  *)
(***************************************************************************)
DestructionEnds ==
    \A a \in Object : (caller = "destructor" /\ self = a) ~> (deleted[a] \/ crashed)
=============================================================================
