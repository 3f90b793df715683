----------------------------- MODULE FifoBlock ------------------------------
(***************************************************************************)
(* Queues kept as a chain of blocks of fixed size (fifo_block of           *)
(* basics/util/c_src/fifo_block.h): elements are read in the first block   *)
(* and written in the last.  A chain without blocks is that of a null      *)
(* first and last.                                                         *)
(*                                                                         *)
(* A queue whose write position is at the end of a block is at a boundary: *)
(* count, copies and iterators then walk past the last block, and a queue  *)
(* that was drained there does not know that it is empty.  Such a call     *)
(* follows a null pointer: the program crashes.                            *)
(***************************************************************************)
EXTENDS Integers, Sequences

CONSTANTS
    Queue,          \* the queues of the program
    Item,           \* elements
    BlockSize,      \* fifo_block_size
    Unset,          \* a position of a block not yet written
    MaxLen          \* bound: elements in a queue

(* What a program takes for its parameters.                                *)
FifoAssumption == BlockSize \in Nat \ {0} /\ MaxLen \in Nat /\ Unset \notin Item

VARIABLES
    fifo,           \* fifo[q]: chain of blocks, index_read, index_write
    queueCrashed,   \* a null pointer was followed
    held            \* history: the elements each queue should hold

fifoVars == <<fifo, queueCrashed, held>>

EmptyFifo == [chain |-> <<>>, read |-> 0, write |-> 0]

FifoInit ==
    /\ fifo = [q \in Queue |-> EmptyFifo]
    /\ queueCrashed = FALSE
    /\ held = [q \in Queue |-> <<>>]
-----------------------------------------------------------------------------
IsEmpty(f) == Len(f.chain) <= 1 /\ f.read >= f.write

AtBoundary(f) == f.write >= BlockSize

\* A new last block when there is none or it is full.
Room(f) ==
    IF f.chain = <<>> \/ AtBoundary(f)
    THEN [f EXCEPT !.chain = Append(@, [i \in 0..(BlockSize - 1) |-> Unset]), !.write = 0]
    ELSE f

PutIn(f, v) ==
    LET g == Room(f) IN
    [g EXCEPT !.chain[Len(g.chain)][g.write] = v, !.write = @ + 1]

DropFrom(f) ==
    IF f.read + 1 >= BlockSize THEN [f EXCEPT !.chain = Tail(@), !.read = 0]
                               ELSE [f EXCEPT !.read = @ + 1]

\* The walk of count and of the iterators, from index_read of the first block to
\* index_write of the last.
Count(f) ==
    IF f.chain = <<>> THEN 0 ELSE (Len(f.chain) - 1) * BlockSize + f.write - f.read

Content(f, at) == f.chain[at \div BlockSize + 1][at % BlockSize]

Elements(f) == [k \in 1..Count(f) |-> Content(f, f.read + k - 1)]

\* The elements of a sequence put one by one in an empty queue.
PutAll(s) ==
    LET copied[n \in 0..Len(s)] == IF n = 0 THEN EmptyFifo ELSE PutIn(copied[n - 1], s[n])
    IN copied[Len(s)]

Crash ==
    /\ queueCrashed' = TRUE
    /\ UNCHANGED <<fifo, held>>

Put(q, v) ==
    /\ Len(held[q]) < MaxLen
    /\ fifo' = [fifo EXCEPT ![q] = PutIn(@, v)]
    /\ held' = [held EXCEPT ![q] = Append(@, v)]
    /\ UNCHANGED queueCrashed

\* A get of an empty queue returns false.
GetFrom(q) ==
    /\ ~IsEmpty(fifo[q]) /\ fifo[q].chain # <<>>
    /\ fifo' = [fifo EXCEPT ![q] = DropFrom(@)]
    /\ held' = [held EXCEPT ![q] = Tail(@)]
    /\ UNCHANGED queueCrashed

GetCrashes(q) == ~IsEmpty(fifo[q]) /\ fifo[q].chain = <<>> /\ Crash

\* count, a walk with iterators, and the copy of a queue.
WalkCrashes(q) == AtBoundary(fifo[q]) /\ Crash

Copy(q, other) ==
    /\ q # other /\ ~AtBoundary(fifo[other])
    /\ fifo' = [fifo EXCEPT ![q] = PutAll(Elements(fifo[other]))]
    /\ held' = [held EXCEPT ![q] = held[other]]
    /\ UNCHANGED queueCrashed

ClearFifo(q) ==
    /\ fifo' = [fifo EXCEPT ![q] = EmptyFifo]
    /\ held' = [held EXCEPT ![q] = <<>>]
    /\ UNCHANGED queueCrashed

\* Mutant: the indexes of the queue that was emptied stay.
TakenAllButWrite(f, q, other) ==
    [f EXCEPT ![q] = f[other], ![other] = [f[other] EXCEPT !.chain = <<>>]]

Taken(f, q, other) == [f EXCEPT ![q] = f[other], ![other] = EmptyFifo]

TakeContentFrom(q, other) ==
    /\ q # other
    /\ fifo' = Taken(fifo, q, other)
    /\ held' = [held EXCEPT ![q] = held[other], ![other] = <<>>]
    /\ UNCHANGED queueCrashed

Swap(q, other) ==
    /\ fifo' = [fifo EXCEPT ![q] = fifo[other], ![other] = fifo[q]]
    /\ held' = [held EXCEPT ![q] = held[other], ![other] = held[q]]
    /\ UNCHANGED queueCrashed

FifoNext ==
    /\ ~queueCrashed
    /\ \E q \in Queue :
          \/ \E v \in Item : Put(q, v)
          \/ GetFrom(q) \/ GetCrashes(q) \/ WalkCrashes(q) \/ ClearFifo(q)
          \/ \E other \in Queue :
                Copy(q, other) \/ TakeContentFrom(q, other) \/ Swap(q, other)

FifoSpec == FifoInit /\ [][FifoNext]_fifoVars
-----------------------------------------------------------------------------
(***************************************************************************)
(* Whatever is put, got, copied, taken and swapped, the blocks of a queue  *)
(* hold exactly its elements in order; it says that it is empty just when  *)
(* it is, except when the last element was read at the end of a block; and *)
(* no call crashes but one on a queue whose write position is there.       *)
(***************************************************************************)
HoldsItsElements ==
    /\ \A q \in Queue :
          LET f == fifo[q] IN
          /\ Elements(f) = held[q]
          /\ IsEmpty(f) <=> held[q] = <<>> /\ ~(f.chain = <<>> /\ AtBoundary(f))
          /\ f.chain # <<>> => f.read < BlockSize /\ Len(f.chain) <= Len(held[q]) + 1
    /\ queueCrashed => \E q \in Queue : AtBoundary(fifo[q])
    \* the boundary is met only by filling a block, and left by the next element
    /\ \A q \in Queue : AtBoundary(fifo[q]) =>
          fifo[q].write = BlockSize
          /\ (fifo[q].chain # <<>> => fifo[q].chain[Len(fifo[q].chain)][BlockSize - 1] # Unset)

(***************************************************************************)
(* The inductive invariant of HoldsItsElements.  A chain without blocks is *)
(* that of an empty queue, and every other has something in its last       *)
(* block; from index_read on, the positions hold the elements in order.    *)
(***************************************************************************)
Block == [0..(BlockSize - 1) -> Item \cup {Unset}]

IsFifo(f) ==
    /\ f \in [chain : Seq(Block), read : 0..(BlockSize - 1), write : 0..BlockSize]
    /\ IF f.chain = <<>> THEN f.read = 0 /\ f.write \in {0, BlockSize}
                         ELSE f.write > 0 /\ Count(f) >= 0

Holds(f, s) ==
    /\ s \in Seq(Item) /\ Len(s) = Count(f)
    /\ \A k \in 1..Len(s) : Content(f, f.read + k - 1) = s[k]

FifoInv ==
    /\ fifo = [q \in Queue |-> fifo[q]] /\ held = [q \in Queue |-> held[q]]
    /\ \A q \in Queue : IsFifo(fifo[q]) /\ Holds(fifo[q], held[q])
    /\ queueCrashed \in BOOLEAN
    /\ queueCrashed => \E q \in Queue : AtBoundary(fifo[q])
=============================================================================
