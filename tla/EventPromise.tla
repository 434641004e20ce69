----------------------------- MODULE EventPromise -----------------------------
(***************************************************************************)
(* What an event promises, whatever the scheduler does: the rules for       *)
(* events.  A signal releases one waiter of an autounsignal event and all   *)
(* waiters of any other, or is remembered until somebody waits.             *)
(***************************************************************************)
EXTENDS FiniteSets

CONSTANTS Threads, Events, Autounsignal, None

VARIABLES
    signalled,  \* the signal nobody has used yet
    at,         \* the event each thread waits at
    result      \* what its wait is going to return, "pending" before that

vars == <<signalled, at, result>>

Waiters(e) == {t \in Threads : at[t] = e /\ result[t] = "pending"}

Init == /\ signalled = [e \in Events |-> FALSE]
        /\ at = [t \in Threads |-> None]
        /\ result = [t \in Threads |-> "pending"]

Pass(e) ==
    /\ signalled[e]
    /\ signalled' = [signalled EXCEPT ![e] = e \notin Autounsignal]
    /\ UNCHANGED <<at, result>>

Wait(t, e) ==
    /\ ~signalled[e] /\ at[t] = None
    /\ at' = [at EXCEPT ![t] = e]
    /\ UNCHANGED <<signalled, result>>

Release(who, r) == result' = [t \in Threads |-> IF t \in who THEN r ELSE result[t]]

Signal(e) ==
    /\ ~signalled[e]
    /\ UNCHANGED at
    /\ \/ /\ e \in Autounsignal
          /\ \E t \in Waiters(e) : Release({t}, "NO_ERROR")
          /\ UNCHANGED signalled
       \/ /\ e \in Autounsignal => Waiters(e) = {}
          /\ Release(Waiters(e), "NO_ERROR")
          /\ signalled' = [signalled EXCEPT ![e] = TRUE]

Unsignal(e) ==
    /\ signalled' = [signalled EXCEPT ![e] = FALSE]
    /\ UNCHANGED <<at, result>>

Expire(t) ==
    /\ at[t] # None /\ result[t] = "pending"
    /\ Release({t}, "ERR_TIMED_OUT")
    /\ UNCHANGED <<signalled, at>>

Destroy(e) ==
    /\ signalled' = [signalled EXCEPT ![e] = FALSE]
    /\ Release(Waiters(e), "ERR_OBJECT_DESTROYED")
    /\ UNCHANGED at

Return(t) ==
    /\ at[t] # None /\ result[t] # "pending"
    /\ at' = [at EXCEPT ![t] = None]
    /\ Release({t}, "pending")
    /\ UNCHANGED signalled

Next == \/ \E e \in Events : Pass(e) \/ Signal(e) \/ Unsignal(e) \/ Destroy(e)
        \/ \E t \in Threads : Expire(t) \/ Return(t) \/ \E e \in Events : Wait(t, e)

Spec == Init /\ [][Next]_vars

=============================================================================
