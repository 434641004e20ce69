----------------------------- MODULE MCKernelLive -----------------------------
(***************************************************************************)
(* What the kernel brings to an end, for TLC, in three scenarios of one     *)
(* small instance: two threads sleep and wait with timeouts; threads are    *)
(* created, run and die, overtaking the DPC thread that frees them; or three *)
(* threads of one priority share the processor.                             *)
(***************************************************************************)
EXTENDS Dpc, TLC

CONSTANTS idle_, dpc_, t1, t2, w1

VARIABLE scenario

livevars == <<dvars, scenario>>

\* The DPC thread, and at first one other beside it.
Beside == [p \in Priorities |-> IF p = 2 THEN <<dpc_, t1>> ELSE <<>>]

Equal == [p \in Priorities |-> IF p = 2 THEN <<t2, t1, dpc_>> ELSE <<>>]

\* The scheduler alone, without timed waits, with a quantum of two ticks.
Shared == INSTANCE Thread WITH
    Timeouts <- {}, NewPriorities <- {}, Quantum <- 2, BootQueues <- Equal

LiveInit ==
    \/ DpcInit /\ scenario \in {"timed", "dpc"}
    \/ /\ Shared!Init /\ scenario = "share"
       /\ alive = [w \in WaitQueues |-> TRUE]
       /\ signalled = [w \in WaitQueues |-> FALSE]
       /\ waitingAt = [t \in Threads |-> None]
       /\ dpc_list = <<>> /\ dpc = None

\* Two threads that live are enough here.
Timed(A) == scenario = "timed" /\ A /\ state'[t2] = "NONE"
            /\ \A t \in Threads : state'[t] # "DEATH"
            /\ UNCHANGED <<eventVars, dpc_list, dpc, scenario>>
WithDpc(A) == scenario = "dpc" /\ A /\ UNCHANGED scenario

Share(A) == scenario = "share" /\ A /\ \A t \in Threads : state'[t] # "DEATH"
            /\ UNCHANGED <<eventVars, dpc_list, dpc, scenario>>

LiveNext == Timed(Next) \/ WithDpc(DpcNext) \/ Share(Shared!Next)

\* Fairness of module Thread, and DpcFairness.  A behaviour stays in its
\* scenario, so each conjunct is the fairness of that scenario's disjunct.
LiveFairness ==
    /\ WF_livevars(Timed(ReturnStep) \/ Share(Shared!ReturnStep)
                   \/ WithDpc(DpcReturn))
    /\ WF_livevars(Timed(HandlerStep) \/ Share(Shared!HandlerStep)
                   \/ WithDpc(DpcKernelStep /\ (return_from_resched \/ HandlerStep
                                                \/ thread_become_idle)))
    /\ WF_livevars(Timed(thread_become_idle) \/ Share(Shared!thread_become_idle))
    /\ SF_livevars(Timed(irq_tick) \/ Share(Shared!irq_tick)
                   \/ WithDpc(DpcKernelStep /\ irq_tick))
    /\ SF_livevars(WithDpc(DpcStep))

LiveSpec == LiveInit /\ [][LiveNext]_livevars /\ LiveFairness

\* dpc.c: the memory of a dead thread is freed, where the DPC thread does that.
DeadIsFreedByDpc == scenario = "dpc" => DeadIsFreed

\* thread.c: the critical section count is balanced where no call has a timeout.
BalancedUntimed == scenario # "timed" => CriticalSectionInv

\* thread.c: threads of one priority share the processor.
EqualsShare == scenario = "share" => ReadyRuns

=============================================================================
