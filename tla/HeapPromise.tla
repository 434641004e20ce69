----------------------------- MODULE HeapPromise -----------------------------
(***************************************************************************)
(* What the heap promises its callers: every allocation is a region of its *)
(* own, inside the heap, as large and as aligned as was asked; what is     *)
(* freed can be allocated again; and an allocation fails only if no run of *)
(* free words is long enough.  Nothing is said of where regions are put.   *)
(***************************************************************************)
EXTENDS Integers

CONSTANTS
    Words,           \* the words of the heap
    Needed(_, _),    \* words it may take to serve a request of a size, aligned
    Requests,        \* the sizes asked for, in words
    Alignments,      \* the alignments asked for, in words, 0 for none
    BadAlignments,   \* those that are no power of two
    NULL

VARIABLES
    free,            \* the words that nobody owns
    blocks,          \* what callers hold: the pointer, and the words kept for it
    result           \* what the last call returned

vars == <<free, blocks, result>>

Init == free = Words /\ blocks = {} /\ result = NULL

\* The pointer may be just past the block when nothing was asked for.
Alloc ==
    \E first, last \in free :
        /\ first <= last
        /\ first .. last \subseteq free
        /\ free' = free \ (first .. last)
        /\ \E size \in Requests, alignment \in Alignments \ BadAlignments,
              ptr \in first .. last + 1 :
              /\ ptr + size - 1 <= last
              /\ alignment > 0 => ptr % alignment = 0
              /\ blocks' = blocks \cup {[ptr |-> ptr, words |-> first .. last]}
              /\ result' = ptr

Fail ==
    /\ \E size \in Requests, alignment \in Alignments :
          \/ alignment \in BadAlignments
          \/ \A x \in free :
                ~ (x .. x + Needed(size, alignment) - 1 \subseteq free)
    /\ result' = NULL
    /\ UNCHANGED <<free, blocks>>

Free ==
    \E block \in blocks :
        /\ blocks' = blocks \ {block}
        /\ free' = free \cup block.words
        /\ UNCHANGED result

Next == Fail \/ Free \/ Alloc

Spec == Init /\ [][Next]_vars

=============================================================================
