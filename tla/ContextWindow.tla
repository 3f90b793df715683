---------------------------- MODULE ContextWindow ---------------------------
(***************************************************************************)
(* april_utils::context (basics/util/c_src/context.h), a window that       *)
(* slides over a sequence and repeats its first and last elements beyond   *)
(* the ends, and FloatContextualizerProducerFromDouble                     *)
(* (function_interface/c_src/contextualizer_producer.cc), whose get reads  *)
(* a producer through such a window and returns one window at a time.      *)
(*                                                                         *)
(* vec holds pointers; the elements of a sequence are numbered from 1, 0   *)
(* is the null pointer, so that equal entries are equal pointers.          *)
(***************************************************************************)
EXTENDS Integers, FiniteSets, FiniteSetsExt

CONSTANTS
    MaxContext,         \* bound: before and after
    MaxLength,          \* bound: length of a sequence
    PartlyFilled        \* sequences longer than after that leave vec unfilled

ASSUME ContextAssumption ==
    /\ MaxContext \in Nat
    /\ MaxLength \in Nat
    /\ PartlyFilled \in BOOLEAN

VARIABLES
    before, after,      \* arguments of the constructor
    vec,                \* the pointers of the window
    numInserts, numShifts, end,
    live,               \* the elements allocated and not deleted
    length,             \* the length of the sequence being read
    pc,                 \* where get is: "idle", "loop", "answer"
    delivered,          \* how many windows of the sequence get has returned
    out                 \* what get returned last

ctxtVars == <<vec, numInserts, numShifts, end, live>>
windowVars == <<before, after, ctxtVars, length, pc, delivered, out>>

NoWindow == <<>>

Size    == before + after + 1       \* vec_size
Slots   == 0..Size - 1
Empty   == [j \in Slots |-> 0]
Lengths(b, a) ==
    {n \in 0..MaxLength : PartlyFilled \/ n <= a \/ n > b + a}
-----------------------------------------------------------------------------
WindowInit ==
    /\ before \in 0..MaxContext /\ after \in 0..MaxContext
    /\ before + after > 0
    /\ vec = Empty
    /\ numInserts = 0 /\ numShifts = 0
    /\ end = FALSE
    /\ live = {}
    /\ length \in Lengths(before, after)
    /\ pc = "idle"
    /\ delivered = 0
    /\ out = NoWindow

\* Mutant: what follows the input does not end.
ReadyForever(ended, shifts, inserts) ==
    IF ended THEN shifts <= after ELSE inserts > after

Ready(ended, shifts, inserts) ==
    IF ended THEN shifts <= after /\ shifts <= inserts ELSE inserts > after

\* The window moves one element, with x at its new end.
Moved(x) == [j \in Slots |-> IF j = Size - 1 THEN x ELSE vec[j + 1]]

\* Mutant: the first element is deleted while its copies are in the window.
DroppedAlways(v) == {v[0]}

\* The pointer that leaves the window is deleted unless it stays in it.
Dropped(v) == IF v[0] # v[1] THEN {v[0]} ELSE {}

(***************************************************************************)
(* context::insert                                                         *)
(***************************************************************************)
Inserted(x) ==
    IF before + numInserts < Size
    THEN [j \in Slots |-> IF j = before + numInserts \/ (numInserts = 0 /\ j < before)
                          THEN x ELSE vec[j]]
    ELSE Moved(x)

Insert(x) ==
    /\ vec' = Inserted(x)
    /\ live' = {x} \cup (live \ IF before + numInserts < Size THEN {} ELSE Dropped(vec))
    /\ numInserts' = numInserts + 1
    /\ UNCHANGED <<numShifts, end>>

(***************************************************************************)
(* context::shift, when the input has ended.  fill is fill_after; get calls *)
(* shift right after end_input, and only that shift finds it set.          *)
(***************************************************************************)
Shift(fill) ==
    /\ numShifts' = numShifts + 1
    /\ IF fill
          THEN /\ vec' = [j \in Slots |-> IF j >= before + numInserts
                                          THEN vec[before + numInserts - 1]
                                          ELSE vec[j]]
               /\ UNCHANGED live
          ELSE /\ vec' = Moved(vec[Size - 1])
               /\ live' = live \ Dropped(vec)
    /\ UNCHANGED numInserts

\* Mutant: one insertion is taken for a full vector.
FillsAfterTwo(n) == n > 1 /\ n < Size

\* context::end_input: the value of fill_after.
FillsAfter(n) == n > 0 /\ n < Size

(***************************************************************************)
(* context::reset; delete_contents skips the copies at both ends.          *)
(***************************************************************************)
FirstKept == Min({j \in Slots : j = Size - 1 \/ vec[j] # vec[j + 1]})
LastKept  == Max({j \in FirstKept..Size - 1 : j = FirstKept \/ vec[j] # vec[j - 1]})
ToDelete  == IF numInserts = 0 THEN {} ELSE FirstKept..LastKept

ResetContext ==
    /\ live' = live \ {vec[j] : j \in ToDelete}
    /\ vec' = Empty
    /\ numInserts' = 0 /\ numShifts' = 0
    /\ end' = FALSE
    /\ length' \in Lengths(before, after)
    /\ delivered' = 0
-----------------------------------------------------------------------------
(***************************************************************************)
(* FloatContextualizerProducerFromDouble::get                              *)
(***************************************************************************)
Get ==
    /\ pc = "idle" /\ ~end
    /\ pc' = "loop"
    /\ UNCHANGED <<before, after, ctxtVars, length, delivered, out>>

GetShifted ==
    /\ pc = "idle" /\ end
    /\ Shift(FALSE)
    /\ pc' = "answer"
    /\ UNCHANGED <<before, after, end, length, delivered, out>>

ReadElement ==
    /\ pc = "loop" /\ numInserts < length
    /\ Insert(numInserts + 1)
    /\ pc' = IF Ready(end, numShifts, numInserts + 1) THEN "answer" ELSE "loop"
    /\ UNCHANGED <<before, after, length, delivered, out>>

ReadEnd ==
    /\ pc = "loop" /\ numInserts = length
    /\ end' = TRUE
    /\ Shift(FillsAfter(numInserts))
    /\ pc' = "answer"
    /\ UNCHANGED <<before, after, length, delivered, out>>

ReturnWindow ==
    /\ pc = "answer" /\ Ready(end, numShifts, numInserts)
    /\ out' = [i \in (-before)..after |-> vec[before + i]]
    /\ delivered' = delivered + 1
    /\ pc' = "idle"
    /\ UNCHANGED <<before, after, ctxtVars, length>>

\* A null pointer for the end of the sequence; the next get starts another.
ReturnEnd ==
    /\ pc = "answer" /\ ~Ready(end, numShifts, numInserts)
    /\ ResetContext
    /\ out' = NoWindow
    /\ pc' = "idle"
    /\ UNCHANGED <<before, after>>

\* reset, in the middle of a sequence.
Reset ==
    /\ pc = "idle"
    /\ ResetContext
    /\ out' = NoWindow
    /\ UNCHANGED <<before, after, pc>>

WindowNext ==
    \/ Get \/ GetShifted \/ ReadElement \/ ReadEnd
    \/ ReturnWindow \/ ReturnEnd \/ Reset

WindowSpec == WindowInit /\ [][WindowNext]_windowVars
-----------------------------------------------------------------------------
\* The k-th window of the sequence, from the comment of the class: around
\* its k-th element, the first and the last one repeated beyond the ends.
Nearest(n, k) == IF k < 1 THEN 1 ELSE IF k > n THEN n ELSE k
Window(k) == [i \in (-before)..after |-> Nearest(length, k + i)]

(***************************************************************************)
(* get returns the windows of the sequence in order: insert, shift and the *)
(* filling of the end leave no element out of place.                       *)
(***************************************************************************)
RightWindow ==
    out # NoWindow => delivered \in 1..length /\ out = Window(delivered)

(***************************************************************************)
(* The end of the sequence is announced when every element has been the    *)
(* current one.                                                            *)
(***************************************************************************)
EveryElement ==
    pc = "answer" /\ ~Ready(end, numShifts, numInserts) => delivered = length

(***************************************************************************)
(* The context owns what it was given: what is in the window is allocated, *)
(* what is allocated is in the window, and a reset at any time deletes     *)
(* each element once.                                                      *)
(***************************************************************************)
Owned ==
    /\ live = {vec[j] : j \in Slots} \ {0}
    /\ \A i, j \in ToDelete : vec[i] = vec[j] /\ vec[i] # 0 => i = j
    /\ {vec[j] : j \in ToDelete} \ {0} = live

TypeOK ==
    /\ before \in Nat /\ after \in Nat /\ before + after > 0
    /\ vec \in [Slots -> Nat]
    /\ numInserts \in Nat /\ numShifts \in Nat
    /\ end \in BOOLEAN
    /\ length \in Lengths(before, after)
    /\ pc \in {"idle", "loop", "answer"}
    /\ delivered \in Nat

(***************************************************************************)
(* Why the windows are right: the element the window is around, and what   *)
(* vec holds before it is full and from then on.                           *)
(***************************************************************************)
Current ==
    IF ~end THEN numInserts - after
    ELSE IF length <= after THEN numShifts ELSE length - after + numShifts

Progress ==
    /\ numInserts <= length
    /\ ~end => numShifts = 0
    /\ end  => numInserts = length /\ numShifts > 0 /\ pc # "loop"
    /\ end /\ pc = "idle" => numShifts <= after /\ numShifts <= length
    /\ end => numShifts <= after + 1 /\ numShifts <= length + 1
    /\ ~end /\ pc = "answer" => numInserts > after
    /\ delivered = CASE pc = "answer" -> Current - 1
                      [] pc # "answer" /\ Current > 0 -> Current
                      [] OTHER -> 0

Filling == ~end /\ numInserts <= after

Contents ==
    \A j \in Slots :
        vec[j] = IF numInserts = 0 \/ (Filling /\ j >= before + numInserts)
                 THEN 0
                 ELSE Nearest(length, (IF Filling THEN 1 ELSE Current) - before + j)

WindowInv == TypeOK /\ Progress /\ Contents /\ RightWindow
=============================================================================
