------------------------------ MODULE MutexLine ------------------------------
(***************************************************************************)
(* What a mutex promises to threads that acquire it without a timeout: they *)
(* stand in line and hold it in the order they came, one at a time, until   *)
(* it is destroyed.                                                         *)
(***************************************************************************)
EXTENDS Sequences

CONSTANTS Threads, Mutexes

VARIABLES
    line,    \* who holds the mutex or waits for it, in order of arrival
    inside   \* whether the first in line holds it

vars == <<line, inside>>

InLine(m, t) == \E i \in DOMAIN line[m] : line[m][i] = t

Init == /\ line = [m \in Mutexes |-> <<>>]
        /\ inside = [m \in Mutexes |-> FALSE]

\* Joins the line, and holds the mutex at once if nobody was in it.
Join(m, t) ==
    /\ ~InLine(m, t)
    /\ line' = [line EXCEPT ![m] = Append(@, t)]
    /\ inside' = [inside EXCEPT ![m] = @ \/ line[m] = <<>>]

Enter(m) ==
    /\ line[m] # <<>> /\ ~inside[m]
    /\ inside' = [inside EXCEPT ![m] = TRUE]
    /\ UNCHANGED line

Leave(m) ==
    /\ inside[m]
    /\ line' = [line EXCEPT ![m] = Tail(@)]
    /\ inside' = [inside EXCEPT ![m] = FALSE]

\* Destroyed by its holder, or while nobody holds it: everyone in line leaves.
Close(m) ==
    /\ line' = [line EXCEPT ![m] = <<>>]
    /\ inside' = [inside EXCEPT ![m] = FALSE]

Next == \E m \in Mutexes :
            \/ \E t \in Threads : Join(m, t)
            \/ Enter(m) \/ Leave(m) \/ Close(m)

Spec == Init /\ [][Next]_vars

=============================================================================
