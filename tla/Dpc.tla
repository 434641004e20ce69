--------------------------------- MODULE Dpc ---------------------------------
(***************************************************************************)
(* Deferred procedure calls, src/kernel/dpc.c, and the one use the kernel   *)
(* makes of them: a thread cannot free its own stack, so thread_exit queues *)
(* a DPC that frees the dead thread from the thread that runs the DPCs.     *)
(* Composes the modules Thread and Event.                                   *)
(***************************************************************************)
EXTENDS Event

CONSTANTS DpcThread, dpc_event

ASSUME DpcAssumption ==
    /\ DpcThread \in BootThreads
    /\ dpc_event \in WaitQueues \ Autounsignal

VARIABLES
    dpc_list,   \* the dead threads whose cleanup is queued
    dpc         \* the entry dpc_thread_routine took, until its callback is done

dvars == <<evars, dpc_list, dpc>>

DpcInit == EventInit /\ dpc_list = <<>> /\ dpc = None

IsDpcThread == current = DpcThread

\* Fault: the event is not signalled.
dpc_queue_Silent(t) ==
    /\ dpc_list' = Append(dpc_list, t)
    /\ UNCHANGED signalled

\* dpc_queue with DPC_FLAG_NORESCHED, inside the critical section of its caller.
dpc_queue(t) ==
    /\ dpc_list' = Append(dpc_list, t)
    /\ signalled' = [signalled EXCEPT ![dpc_event] = TRUE]

\* thread_exit: the dying thread queues its cleanup, which wakes the DPC thread
\* if it waits, and switches away for the last time.
exit_with_dpc ==
    /\ Calls
    /\ ~IsDpcThread
    /\ dpc_queue(current)
    /\ LET dying == [state EXCEPT ![current] = "DEATH"]
           wakes == ~signalled[dpc_event] /\ waitq[dpc_event] # <<>>
       IN  IF wakes
           THEN /\ Unblock(DpcThread, dpc_event, <<>>, "NO_ERROR")
                /\ thread_resched([dying EXCEPT ![DpcThread] = "READY"],
                                  insert_in_run_queue_head(runq, DpcThread),
                                  quantum, 1)
           ELSE /\ thread_resched(dying, runq, quantum, 1)
                /\ UNCHANGED waitVars
    /\ pc' = [pc EXCEPT ![current] = "dead"]
    /\ UNCHANGED <<priority, idle, timers, irq, waking, alive, waitingAt, dpc>>

dpc_wait ==
    /\ IsDpcThread
    /\ dpc = None
    /\ event_wait_timeout(dpc_event, None)
    /\ UNCHANGED <<dpc_list, dpc>>

\* Faults: the event is cleared whatever is left in the list; the entry that is
\* taken stays in the list.
dpc_take_Late ==
    /\ Calls
    /\ IsDpcThread
    /\ dpc = None
    /\ signalled[dpc_event]
    /\ IF dpc_list # <<>>
       THEN dpc' = Head(dpc_list) /\ dpc_list' = Tail(dpc_list)
       ELSE UNCHANGED <<dpc_list, dpc>>
    /\ signalled' = [signalled EXCEPT ![dpc_event] = FALSE]
    /\ UNCHANGED <<vars, alive, waitingAt>>

dpc_take_Peek ==
    /\ Calls
    /\ IsDpcThread
    /\ dpc = None
    /\ signalled[dpc_event]
    /\ IF dpc_list # <<>>
       THEN dpc' = Head(dpc_list) /\ UNCHANGED signalled
       ELSE signalled' = [signalled EXCEPT ![dpc_event] = FALSE] /\ UNCHANGED dpc
    /\ UNCHANGED <<vars, alive, waitingAt, dpc_list>>

\* Back from event_wait: one entry is taken, or the event is cleared.
dpc_take ==
    /\ Calls
    /\ IsDpcThread
    /\ dpc = None
    /\ signalled[dpc_event]
    /\ \/ /\ dpc_list # <<>>
          /\ dpc' = Head(dpc_list)
          /\ dpc_list' = Tail(dpc_list)
          /\ UNCHANGED signalled
       \/ /\ dpc_list = <<>>
          /\ signalled' = [signalled EXCEPT ![dpc_event] = FALSE]
          /\ UNCHANGED <<dpc_list, dpc>>
    /\ UNCHANGED <<vars, alive, waitingAt>>

\* The callback, thread_cleanup_dpc.
dpc_call ==
    /\ IsDpcThread
    /\ dpc # None
    /\ thread_cleanup(dpc)
    /\ dpc' = None
    /\ UNCHANGED <<eventVars, dpc_list>>

DpcStep == dpc_wait \/ dpc_take \/ dpc_call

\* Other threads are created, run and die.
OtherThreads ==
    /\ ~IsDpcThread
    /\ \/ \E t \in Threads : thread_resume(t)
       \/ \E t \in Threads, p \in NewPriorities : thread_create(t, p)
       \/ thread_yield
    /\ UNCHANGED <<eventVars, dpc_list, dpc>>

DpcKernelStep ==
    /\ \/ thread_become_idle
       \/ return_from_resched
       \/ irq_tick
       \/ HandlerStep
       \/ stopped
    /\ UNCHANGED <<eventVars, dpc_list, dpc>>

DpcReturn == return_from_wait /\ UNCHANGED <<dpc_list, dpc>>

DpcNext == DpcStep \/ exit_with_dpc \/ OtherThreads \/ DpcKernelStep \/ DpcReturn

\* Calls return, interrupts are served, and the DPC thread does not stop in its
\* own code.  The others may loop, so it gets the processor because no priority
\* is above its own.
DpcFairness ==
    /\ WF_dvars(DpcReturn)
    /\ WF_dvars(DpcKernelStep /\ (return_from_resched \/ HandlerStep
                                  \/ thread_become_idle))
    /\ SF_dvars(DpcKernelStep /\ irq_tick)
    /\ SF_dvars(DpcStep)

DpcSpec == DpcInit /\ [][DpcNext]_dvars
DpcFairSpec == DpcSpec /\ DpcFairness

-----------------------------------------------------------------------------
(* Properties                                                              *)

\* Each dead thread is queued for cleanup exactly once, and nothing else is:
\* no structure is freed twice, leaked, or freed under a thread that was
\* created in the same memory.
DeadAreQueued ==
    LET queue == IF dpc = None THEN dpc_list ELSE <<dpc>> \o dpc_list
    IN  /\ IsInjective(queue)
        /\ ToSet(queue) = {t \in Threads : state[t] = "DEATH"}

\* The DPC thread does not sleep on work: an entry that is queued has signalled
\* the event, whatever the thread was doing when it was queued.
QueuedIsSignalled ==
    dpc_list # <<>> => signalled[dpc_event] /\ state[DpcThread] # "BLOCKED"

\* dpc.c: each dead thread is queued once, and the DPC thread knows of it.
DpcInv == DeadAreQueued /\ QueuedIsSignalled

\* The memory of a dead thread is freed.
DeadIsFreed == \A t \in Threads : state[t] = "DEATH" ~> state[t] = "NONE"

=============================================================================
