-------------------------------- MODULE Event --------------------------------
(***************************************************************************)
(* Events: src/kernel/event.c on the scheduler of module Thread.  Each      *)
(* event is named by its wait queue.                                        *)
(***************************************************************************)
EXTENDS Thread

CONSTANT Autounsignal    \* the events with EVENT_FLAG_AUTOUNSIGNAL

ASSUME EventAssumption == Autounsignal \subseteq WaitQueues

VARIABLES
    signalled,   \* e->signalled
    alive,       \* e->magic = EVENT_MAGIC
    waitingAt    \* the event_wait each thread is blocked inside

eventVars == <<signalled, alive, waitingAt>>
evars == <<vars, eventVars>>

EventInit ==
    /\ Init
    /\ signalled = [e \in WaitQueues |-> FALSE]
    /\ alive = [e \in WaitQueues |-> TRUE]
    /\ waitingAt = [t \in Threads |-> None]

\* On storage whose last event was destroyed and is no longer waited at.
event_init(e) ==
    /\ Calls
    /\ ~alive[e]
    /\ \A t \in Threads : waitingAt[t] # e
    /\ alive' = [alive EXCEPT ![e] = TRUE]
    /\ signalled' = [signalled EXCEPT ![e] = FALSE]
    /\ UNCHANGED <<vars, waitingAt>>

event_wait_timeout(e, timeout) ==
    /\ Calls
    /\ alive[e]
    /\ \/ /\ signalled[e]
          /\ signalled' = [signalled EXCEPT ![e] = e \notin Autounsignal]
          /\ UNCHANGED <<vars, waitingAt>>
       \/ /\ ~signalled[e]
          /\ wait_queue_block(e, timeout)
          /\ waitingAt' = [waitingAt EXCEPT ![current] = e]
          /\ UNCHANGED signalled
    /\ UNCHANGED alive

\* Fault: the thread still counts as a waiter.
return_from_wait_Stays == return_from_block /\ UNCHANGED eventVars

\* Back in event_wait_timeout, in the thread that waited.
return_from_wait ==
    /\ return_from_block
    /\ waitingAt' = [waitingAt EXCEPT ![current] = None]
    /\ UNCHANGED <<signalled, alive>>

\* Faults: an autounsignal event wakes every waiter; the event is marked as
\* signalled although a waiter was woken.
event_signal_WakesAll(e, reschedule) ==
    /\ Calls
    /\ alive[e]
    /\ ~signalled[e]
    /\ \/ /\ waitq[e] # <<>>
          /\ wait_queue_wake_all(e, reschedule, "NO_ERROR")
          /\ signalled' = [signalled EXCEPT ![e] = e \notin Autounsignal]
       \/ /\ waitq[e] = <<>>
          /\ signalled' = [signalled EXCEPT ![e] = TRUE]
          /\ UNCHANGED vars
    /\ UNCHANGED <<alive, waitingAt>>

event_signal_Marked(e, reschedule) ==
    /\ Calls
    /\ alive[e]
    /\ ~signalled[e]
    /\ IF waitq[e] # <<>> THEN wait_queue_wake_one(e, reschedule, "NO_ERROR")
                          ELSE UNCHANGED vars
    /\ signalled' = [signalled EXCEPT ![e] = TRUE]
    /\ UNCHANGED <<alive, waitingAt>>

event_signal(e, reschedule) ==
    /\ Calls
    /\ alive[e]
    /\ ~signalled[e]
    /\ \/ /\ e \in Autounsignal /\ waitq[e] # <<>>
          /\ wait_queue_wake_one(e, reschedule, "NO_ERROR")
          /\ UNCHANGED signalled
       \/ /\ e \notin Autounsignal /\ waitq[e] # <<>>
          /\ wait_queue_wake_all(e, reschedule, "NO_ERROR")
          /\ signalled' = [signalled EXCEPT ![e] = TRUE]
       \/ /\ waitq[e] = <<>>
          /\ signalled' = [signalled EXCEPT ![e] = TRUE]
          /\ UNCHANGED vars
    /\ UNCHANGED <<alive, waitingAt>>

\* From an interrupt handler, which never asks for a reschedule here.
irq_event_signal(e) ==
    /\ Interruptible
    /\ alive[e]
    /\ ~signalled[e]
    /\ \/ /\ e \in Autounsignal /\ waitq[e] # <<>>
          /\ irq_wake_one(e, "NO_ERROR")
          /\ UNCHANGED signalled
       \/ /\ e \notin Autounsignal /\ waitq[e] # <<>>
          /\ irq_wake_all(e, "NO_ERROR")
          /\ signalled' = [signalled EXCEPT ![e] = TRUE]
       \/ /\ waitq[e] = <<>>
          /\ signalled' = [signalled EXCEPT ![e] = TRUE]
          /\ UNCHANGED vars
    /\ UNCHANGED <<alive, waitingAt>>

event_unsignal(e) ==
    /\ Calls
    /\ alive[e]
    /\ signalled' = [signalled EXCEPT ![e] = FALSE]
    /\ UNCHANGED <<vars, alive, waitingAt>>

event_destroy(e) ==
    /\ Calls
    /\ alive[e]
    /\ alive' = [alive EXCEPT ![e] = FALSE]
    /\ signalled' = [signalled EXCEPT ![e] = FALSE]
    /\ IF wcount[e] > 0 THEN wait_queue_wake_all(e, TRUE, "ERR_OBJECT_DESTROYED")
                        ELSE UNCHANGED vars
    /\ UNCHANGED waitingAt

EventStep ==
    \E e \in WaitQueues :
        \/ \E d \in Timeouts \cup {None} : event_wait_timeout(e, d)
        \/ \E r \in BOOLEAN : event_signal(e, r)
        \/ irq_event_signal(e)
        \/ event_unsignal(e)
        \/ event_destroy(e)
        \/ event_init(e)

\* The rest of the kernel goes on around the events.
EventKernelStep ==
    /\ \/ thread_become_idle
       \/ thread_yield
       \/ return_from_resched
       \/ wake_all_next
       \/ wake_all_done
       \/ irq_tick
       \/ HandlerStep
       \/ stopped
    /\ UNCHANGED eventVars

EventNext == EventStep \/ return_from_wait \/ EventKernelStep

EventSpec == EventInit /\ [][EventNext]_evars

-----------------------------------------------------------------------------
(* Properties                                                              *)

\* Type invariant of the events; a thread waits at an event only from inside
\* event_wait_timeout.
EventTypeOK ==
    /\ signalled \in [WaitQueues -> BOOLEAN]
    /\ alive \in [WaitQueues -> BOOLEAN]
    /\ waitingAt \in [Threads -> WaitQueues \cup {None}]
    /\ \A t \in Threads : waitingAt[t] # None => pc[t] = "block"

\* No wake-up is lost: once a signal has been delivered nobody waits for an
\* event that is signalled.
SignalledHasNoWaiters ==
    \A e \in WaitQueues :
        signalled[e] /\ ~(waking # None /\ waking.wait = e) => waitq[e] = <<>>

\* event.c: an event and its wait queue agree, whoever signals.
EventInv == EventTypeOK /\ SignalledHasNoWaiters

\* What the wait of t is going to return.  The waiters wait_queue_wake_all has
\* not come to yet are as good as woken.
ResultOf(t) ==
    IF waitingAt[t] = None THEN "pending"
    ELSE IF state[t] # "BLOCKED" THEN blockRet[t]
    ELSE IF waking # None /\ waking.wait = waitingAt[t] THEN waking.err
    ELSE "pending"

Promise == INSTANCE EventPromise WITH
    Events <- WaitQueues,
    at <- waitingAt,
    result <- [t \in Threads |-> ResultOf(t)]

\* The events of the kernel keep the rules of events: a signal releases one
\* waiter or all, is never lost, never counted twice, and a timeout that comes
\* after it takes nothing back.
PromiseSpec == Promise!Spec

=============================================================================
