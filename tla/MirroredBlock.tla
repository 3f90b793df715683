--------------------------- MODULE MirroredBlock ----------------------------
(***************************************************************************)
(* A block of memory kept in the host and, when something asks for it, in  *)
(* the graphics card (GPUMirroredMemoryBlock of                            *)
(* basics/math/c_src/gpu_mirrored_memory_block.h, built with USE_CUDA).    *)
(* Two flags say which side is up to date; a caller gets a side to read,   *)
(* to write, or to read and write, and uses the pointer until the next     *)
(* call.  A caller that takes a side to write writes the cells it wants:   *)
(* the class trusts that they are all of them when the side is stale.      *)
(***************************************************************************)
EXTENDS Integers

CONSTANTS
    Cell,           \* positions of the block
    Value,          \* what a program writes in a cell
    Garbage         \* contents of memory that nobody has written

Side == {"ppal", "gpu"}

VARIABLES
    mem,            \* contents of mem_ppal and mem_gpu
    allocated,      \* mem_gpu # 0
    updated,        \* the sides with their bit in updated
    pinned,         \* page-locked memory of the host
    contents,       \* history: the last value written in each cell
    lost            \* history: per side, the cells whose last value it has lost

blockVars == <<mem, allocated, updated, pinned, contents, lost>>

Blank == [c \in Cell |-> Garbage]

BlockInit ==
    /\ mem = [s \in Side |-> Blank]
    /\ allocated = FALSE
    /\ updated = {"ppal"}
    /\ pinned = FALSE
    /\ contents = Blank
    /\ lost = [s \in Side |-> {}]
-----------------------------------------------------------------------------
\* updateMemPPAL, or updateMemGPU with allocMemGPU and copyPPALtoGPU: a side
\* that is not up to date is copied from the other one.
Other(s) == IF s = "ppal" THEN "gpu" ELSE "ppal"

Refreshed(s) == IF s \in updated THEN mem ELSE [mem EXCEPT ![s] = mem[Other(s)]]

LostAfterRefresh(s) == IF s \in updated THEN lost ELSE [lost EXCEPT ![s] = lost[Other(s)]]

\* A caller writes vals(c) in the cells of part of side s, over what m holds.
Written(m, s, part, vals) ==
    [m EXCEPT ![s] = [c \in Cell |-> IF c \in part THEN vals[c] ELSE m[s][c]]]

Records(part, vals) ==
    contents' = [c \in Cell |-> IF c \in part THEN vals[c] ELSE contents[c]]

GetForRead(s) ==
    /\ mem' = Refreshed(s)
    /\ updated' = updated \cup {s}
    /\ allocated' = (allocated \/ s = "gpu")
    /\ lost' = LostAfterRefresh(s)
    /\ UNCHANGED <<pinned, contents>>

GetPPALForWrite(part, vals) ==
    /\ updated' = {"ppal"}
    /\ mem' = Written(mem, "ppal", part, vals)
    /\ Records(part, vals)
    /\ lost' = [lost EXCEPT !["ppal"] =
                   IF "ppal" \in updated THEN @ \ part ELSE Cell \ part]
    /\ UNCHANGED <<allocated, pinned>>

\* Mutant: a block new in the card is given without the contents of the host.
FreshWithoutCopy == mem

\* The memory of the card when it is taken to be written: a new one begins as
\* a copy of the host's.
FreshOrAllocated ==
    IF allocated THEN mem ELSE [mem EXCEPT !["gpu"] = mem["ppal"]]

GetGPUForWrite(part, vals) ==
    /\ allocated' = TRUE
    /\ updated' = {"gpu"}
    /\ mem' = Written(FreshOrAllocated, "gpu", part, vals)
    /\ Records(part, vals)
    /\ lost' = [lost EXCEPT !["gpu"] =
                   IF ~allocated THEN lost["ppal"] \ part
                   ELSE IF "gpu" \in updated THEN @ \ part ELSE Cell \ part]
    /\ UNCHANGED pinned

\* Also get(pos) and [pos] of a block that is not const, for the host's side.
GetForReadAndWrite(s, part, vals) ==
    /\ allocated' = (allocated \/ s = "gpu")
    /\ updated' = {s}
    /\ mem' = Written(Refreshed(s), s, part, vals)
    /\ Records(part, vals)
    /\ lost' = [LostAfterRefresh(s) EXCEPT ![s] = @ \ part]
    /\ UNCHANGED pinned

\* The memory of the host is exchanged for another one, without its contents
\* and without telling that it is not up to date.
PinnedMemoryPageLock ==
    /\ ~pinned
    /\ pinned' = TRUE
    /\ mem' = [mem EXCEPT !["ppal"] = Blank]
    /\ lost' = [lost EXCEPT !["ppal"] = Cell]
    /\ UNCHANGED <<allocated, updated, contents>>

BlockNext ==
    \/ \E s \in Side : GetForRead(s)
    \/ \E part \in SUBSET Cell : \E vals \in [part -> Value] :
          \/ GetPPALForWrite(part, vals)
          \/ GetGPUForWrite(part, vals)
          \/ \E s \in Side : GetForReadAndWrite(s, part, vals)
    \/ PinnedMemoryPageLock

BlockSpec == BlockInit /\ [][BlockNext]_blockVars
-----------------------------------------------------------------------------
(***************************************************************************)
(* A side that is up to date shows the last value written of every cell    *)
(* on either side, except cells that it has lost: those that a write to    *)
(* part of a stale side left out, and all of them when the host's memory   *)
(* was exchanged for page-locked memory, until they are written again.     *)
(* One side is always up to date, and the card only when it has memory.    *)
(***************************************************************************)
ShowsLastWritten ==
    /\ updated # {}
    /\ "gpu" \in updated => allocated
    /\ \A s \in updated : \A c \in Cell \ lost[s] : mem[s][c] = contents[c]

(***************************************************************************)
(* Why it holds: the types of the parts.                                   *)
(***************************************************************************)
MirrorInv ==
    /\ mem \in [Side -> [Cell -> Value \cup {Garbage}]]
    /\ contents \in [Cell -> Value \cup {Garbage}]
    /\ lost \in [Side -> SUBSET Cell]
    /\ updated \subseteq Side
    /\ ShowsLastWritten
=============================================================================
