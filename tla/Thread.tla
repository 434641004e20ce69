------------------------------- MODULE Thread -------------------------------
(***************************************************************************)
(* The thread scheduler of the kernel: src/kernel/thread.c with the timer  *)
(* queue it sleeps on (src/kernel/timer.c) and the interrupt glue that     *)
(* preempts threads (src/arch/arm/exceptions.S).                           *)
(*                                                                         *)
(* One processor.  A thread is interruptible only while the critical       *)
(* section count is 0, so every operation is one step from its             *)
(* enter_critical_section to the point where it either leaves the critical *)
(* section or switches to another thread; pc[t] remembers which call t is  *)
(* inside, and the step that finishes the call runs when t is switched in  *)
(* again.  Loops over a queue (wake_all, the expired timers) are one step  *)
(* per element.  A definition whose name ends in an underscore and a       *)
(* capitalised word is the one it precedes with a seeded fault: no         *)
(* specification uses it, and it shows that a property can fail.           *)
(***************************************************************************)
EXTENDS Integers, SequencesExt

CONSTANTS
    Threads,       \* thread structures (a freed one may be allocated again)
    Idle,          \* the bootstrap thread, which becomes the idle thread
    WaitQueues,    \* wait queue objects
    MaxPriority,   \* HIGHEST_PRIORITY; LOWEST_PRIORITY = IDLE_PRIORITY = 0
    NewPriorities, \* the priorities given to thread_create and set_priority
    Quantum,       \* ticks a thread gets when its quantum was used up (5)
    Delays,        \* delays, in timer ticks, given to thread_sleep
    Timeouts,      \* finite non-zero timeouts, in ticks, given to a block
    WakeErrors,    \* the wait_queue_error values wakers pass
    BootQueues,    \* run queues that kmain leaves behind
    None

Priorities == 0..MaxPriority
BootThreads == UNION {ToSet(BootQueues[p]) : p \in Priorities}

Results == {"NO_ERROR", "ERR_TIMED_OUT", "ERR_OBJECT_DESTROYED"}

\* The locals of a wait_queue_wake_all in progress.
WakeLoops == [wait : WaitQueues, resched : BOOLEAN, err : Results]

ASSUME ThreadAssumption ==
    /\ Idle \in Threads
    /\ None \notin Threads \cup WaitQueues \cup WakeLoops
    /\ MaxPriority \in Nat
    /\ NewPriorities \subseteq Int
    /\ Quantum \in Nat \ {0}
    /\ Delays \subseteq Nat
    /\ Timeouts \subseteq Nat \ {0}
    /\ WakeErrors \subseteq Results
    /\ BootQueues \in [Priorities -> Seq(Threads \ {Idle})]

\* Two threads never share a place in the queues kmain leaves behind.
ASSUME BootAssumption ==
    \A p, q \in Priorities :
        \A i \in DOMAIN BootQueues[p], j \in DOMAIN BootQueues[q] :
            BootQueues[p][i] = BootQueues[q][j] => p = q /\ i = j

States == {"NONE", "SUSPENDED", "READY", "RUNNING", "BLOCKED", "SLEEPING",
           "DEATH"}

\* Where a thread continues when it is switched in: "run" is the thread's own
\* code, the others are inside the kernel call of that name.
Frames == {"run", "fresh", "yield", "resume", "sleep", "block", "wake", "irq",
           "dead"}

\* How many critical sections the rest of the call leaves.
Depth == [f \in Frames |->
            CASE f = "run" -> 0
              [] f \in {"resume", "block", "irq"} -> 2
              [] OTHER -> 1]

VARIABLES
    current,    \* current_thread
    state,      \* t->state, "NONE" while the structure is not allocated
    priority,   \* t->priority
    quantum,    \* t->remaining_quantum; every value below 1 is 0
    runq,       \* run_queue[] and run_queue_bitmap
    csc,        \* critical_section_count
    saved,      \* t->saved_critical_section_count
    pc,         \* the call each thread is inside
    idle,       \* idle_thread
    waitq,      \* wait->list
    wcount,     \* wait->count
    blockedOn,  \* t->blocking_wait_queue
    blockRet,   \* t->wait_queue_block_ret
    timers,     \* timer_queue: whose timer, ticks to go, which callback
    irq,        \* the interrupt handler in progress
    waking      \* the wait_queue_wake_all loop in progress

schedVars == <<current, state, quantum, runq, csc, saved, pc>>
waitVars  == <<waitq, wcount, blockedOn, blockRet>>
vars == <<schedVars, priority, idle, waitVars, timers, irq, waking>>

TimerEntries == [thread : Threads, left : Nat, cb : {"sleep", "timeout"}]

-----------------------------------------------------------------------------
(* Run queue and reschedule                                                *)

\* Fault: searches the bitmap from the wrong end.
HighestOf_Lowest(bitmap) == CHOOSE p \in bitmap : \A q \in bitmap : q >= p

HighestOf(bitmap) == CHOOSE p \in bitmap : \A q \in bitmap : q <= p

insert_in_run_queue_head(q, t) ==
    [list   |-> [q.list EXCEPT ![priority[t]] = <<t>> \o @],
     bitmap |-> q.bitmap \cup {priority[t]}]

\* Fault: the bit of the list is not set.
insert_in_run_queue_tail_Unmarked(q, t) ==
    [q EXCEPT !.list[priority[t]] = Append(@, t)]

insert_in_run_queue_tail(q, t) ==
    [list   |-> [q.list EXCEPT ![priority[t]] = Append(@, t)],
     bitmap |-> q.bitmap \cup {priority[t]}]

\* thread_resched from the states st, the run queue q, the quanta qn and the
\* critical section count c that its caller prepared.
thread_resched(st, q, qn, c) ==
    LET next_queue == HighestOf(q.bitmap)
        newthread  == Head(q.list[next_queue])
        rest       == Tail(q.list[next_queue])
        switch     == newthread # current
    IN  /\ runq' = [list   |-> [q.list EXCEPT ![next_queue] = rest],
                    bitmap |-> IF rest = <<>> THEN q.bitmap \ {next_queue}
                                              ELSE q.bitmap]
        /\ state' = [st EXCEPT ![newthread] = "RUNNING"]
        /\ current' = newthread
        /\ quantum' = IF switch /\ qn[newthread] <= 0
                      THEN [qn EXCEPT ![newthread] = Quantum] ELSE qn
        /\ saved' = IF switch THEN [saved EXCEPT ![current] = c] ELSE saved
        /\ csc' = IF switch THEN saved[newthread] ELSE c

\* The current thread's own code is running and interrupts are enabled.
Interruptible == /\ irq = "none"
                 /\ waking = None
                 /\ csc = 0
                 /\ pc[current] = "run"

\* Idle only runs arch_idle: it calls nothing once it has become the idle thread.
Calls == Interruptible /\ current # Idle

-----------------------------------------------------------------------------
(* Thread operations                                                       *)

Init ==
    /\ current = Idle
    /\ state = [t \in Threads |-> IF t = Idle THEN "RUNNING"
                                  ELSE IF t \in BootThreads THEN "READY"
                                  ELSE "NONE"]
    /\ priority = [t \in Threads |->
                     IF t \in BootThreads
                     THEN CHOOSE p \in Priorities : t \in ToSet(BootQueues[p])
                     ELSE IF t = Idle THEN MaxPriority ELSE 0]
    /\ quantum = [t \in Threads |-> 0]
    /\ runq = [list   |-> BootQueues,
               bitmap |-> {p \in Priorities : BootQueues[p] # <<>>}]
    /\ csc = 0
    /\ saved = [t \in Threads |-> 1]
    /\ pc = [t \in Threads |-> IF t = Idle THEN "run" ELSE "fresh"]
    /\ idle = None
    /\ waitq = [w \in WaitQueues |-> <<>>]
    /\ wcount = [w \in WaitQueues |-> 0]
    /\ blockedOn = [t \in Threads |-> None]
    /\ blockRet = [t \in Threads |-> "NO_ERROR"]
    /\ timers = <<>>
    /\ irq = "none"
    /\ waking = None

\* The tail of kmain: the bootstrap thread drops to the lowest priority.
thread_become_idle ==
    /\ Interruptible
    /\ current = Idle
    /\ idle = None
    /\ idle' = current
    /\ priority' = [priority EXCEPT ![current] = 0]
    /\ UNCHANGED <<schedVars, waitVars, timers, irq, waking>>

thread_create(t, p) ==
    /\ Calls
    /\ state[t] = "NONE"
    /\ p \in Priorities
    /\ state' = [state EXCEPT ![t] = "SUSPENDED"]
    /\ priority' = [priority EXCEPT ![t] = p]
    /\ quantum' = [quantum EXCEPT ![t] = 0]
    /\ saved' = [saved EXCEPT ![t] = 1]
    /\ pc' = [pc EXCEPT ![t] = "fresh"]
    /\ blockedOn' = [blockedOn EXCEPT ![t] = None]
    /\ blockRet' = [blockRet EXCEPT ![t] = "NO_ERROR"]
    /\ UNCHANGED <<current, runq, csc, idle, waitq, wcount, timers, irq, waking>>

\* The resumed thread goes first in its queue, then the caller yields.
thread_resume(t) ==
    /\ Calls
    /\ state[t] = "SUSPENDED"
    /\ thread_resched([state EXCEPT ![t] = "READY", ![current] = "READY"],
                      insert_in_run_queue_tail(
                          insert_in_run_queue_head(runq, t), current),
                      [quantum EXCEPT ![current] = 0], 2)
    /\ pc' = [pc EXCEPT ![current] = "resume"]
    /\ UNCHANGED <<priority, idle, waitVars, timers, irq, waking>>

thread_yield ==
    /\ Calls
    /\ thread_resched([state EXCEPT ![current] = "READY"],
                      insert_in_run_queue_tail(runq, current),
                      [quantum EXCEPT ![current] = 0], 1)
    /\ pc' = [pc EXCEPT ![current] = "yield"]
    /\ UNCHANGED <<priority, idle, waitVars, timers, irq, waking>>

\* Fault: the priority is not clamped.
thread_set_priority_Unclamped(p) ==
    /\ Calls
    /\ priority' = [priority EXCEPT ![current] = p]
    /\ UNCHANGED <<schedVars, idle, waitVars, timers, irq, waking>>

thread_set_priority(p) ==
    /\ Calls
    /\ priority' = [priority EXCEPT ![current] =
                       IF p < 0 THEN 0
                       ELSE IF p > MaxPriority THEN MaxPriority ELSE p]
    /\ UNCHANGED <<schedVars, idle, waitVars, timers, irq, waking>>

thread_exit ==
    /\ Calls
    /\ thread_resched([state EXCEPT ![current] = "DEATH"], runq, quantum, 1)
    /\ pc' = [pc EXCEPT ![current] = "dead"]
    /\ UNCHANGED <<priority, idle, waitVars, timers, irq, waking>>

\* thread_cleanup_dpc, in the thread that runs the DPCs: the structure and the
\* stack of t are freed.
thread_cleanup(t) ==
    /\ Calls
    /\ state[t] = "DEATH"
    /\ state' = [state EXCEPT ![t] = "NONE"]
    /\ UNCHANGED <<current, quantum, runq, csc, saved, pc, priority, idle,
                   waitVars, timers, irq, waking>>

-----------------------------------------------------------------------------
(* Timer queue, ordered by expiry, first in first out among equals         *)

insert_timer_in_queue(timer) ==
    LET later == {i \in DOMAIN timers : timers[i].left > timer.left}
        at == IF later = {} THEN Len(timers) + 1
              ELSE CHOOSE i \in later : \A j \in later : i <= j
    IN  timers' = InsertAt(timers, at, timer)

\* Faults: the timer stays queued; whatever timer is first is removed.
timer_cancel_Nothing(t) == UNCHANGED timers
timer_cancel_First(t) ==
    timers' = IF timers = <<>> THEN timers ELSE Tail(timers)

timer_cancel(t) ==
    IF \E i \in DOMAIN timers : timers[i].thread = t
    THEN timers' = RemoveAt(timers,
                            CHOOSE i \in DOMAIN timers : timers[i].thread = t)
    ELSE UNCHANGED timers

thread_sleep(delay) ==
    /\ Calls
    /\ insert_timer_in_queue([thread |-> current, left |-> delay, cb |-> "sleep"])
    /\ thread_resched([state EXCEPT ![current] = "SLEEPING"], runq, quantum, 1)
    /\ pc' = [pc EXCEPT ![current] = "sleep"]
    /\ UNCHANGED <<priority, idle, waitVars, irq, waking>>

-----------------------------------------------------------------------------
(* Wait queues                                                             *)

\* The current thread joins w and switches away, with no timeout or a finite
\* one.  A timeout of 0 returns at once and changes nothing.
wait_queue_block(w, timeout) ==
    /\ Calls
    /\ waitq' = [waitq EXCEPT ![w] = Append(@, current)]
    /\ wcount' = [wcount EXCEPT ![w] = @ + 1]
    /\ blockedOn' = [blockedOn EXCEPT ![current] = w]
    /\ blockRet' = [blockRet EXCEPT ![current] = "NO_ERROR"]
    /\ IF timeout = None
       THEN UNCHANGED timers
       ELSE insert_timer_in_queue([thread |-> current, left |-> timeout,
                                   cb |-> "timeout"])
    /\ thread_resched([state EXCEPT ![current] = "BLOCKED"], runq, quantum, 2)
    /\ pc' = [pc EXCEPT ![current] = "block"]
    /\ UNCHANGED <<priority, idle, irq, waking>>

\* Fault: the count of waiters is not decremented.
Unblock_CountKept(t, w, rest, err) ==
    /\ waitq' = [waitq EXCEPT ![w] = rest]
    /\ blockedOn' = [blockedOn EXCEPT ![t] = None]
    /\ blockRet' = [blockRet EXCEPT ![t] = err]
    /\ UNCHANGED wcount

\* What every wake-up does to the woken thread t of queue w, whose other
\* waiters are rest.
Unblock(t, w, rest, err) ==
    /\ waitq' = [waitq EXCEPT ![w] = rest]
    /\ wcount' = [wcount EXCEPT ![w] = @ - 1]
    /\ blockedOn' = [blockedOn EXCEPT ![t] = None]
    /\ blockRet' = [blockRet EXCEPT ![t] = err]

\* Called with waiters on w: the first one becomes ready and, with
\* reschedule, runs before the caller if its priority allows.
wait_queue_wake_one(w, reschedule, err) ==
    /\ Calls
    /\ waitq[w] # <<>>
    /\ LET t == Head(waitq[w])
           woken == [state EXCEPT ![t] = "READY"]
       IN  /\ Unblock(t, w, Tail(waitq[w]), err)
           /\ \/ /\ reschedule
                 /\ thread_resched(
                        [woken EXCEPT ![current] = "READY"],
                        insert_in_run_queue_head(
                            insert_in_run_queue_head(runq, current), t),
                        quantum, 1)
                 /\ pc' = [pc EXCEPT ![current] = "wake"]
              \/ /\ ~reschedule
                 /\ state' = woken
                 /\ runq' = insert_in_run_queue_head(runq, t)
                 /\ UNCHANGED <<current, quantum, csc, saved, pc>>
    /\ UNCHANGED <<priority, idle, timers, irq, waking>>

\* The same from an interrupt handler, which never passes reschedule and
\* returns INT_RESCHEDULE.
irq_wake_one(w, err) ==
    /\ Interruptible
    /\ waitq[w] # <<>>
    /\ LET t == Head(waitq[w])
       IN  /\ Unblock(t, w, Tail(waitq[w]), err)
           /\ state' = [state EXCEPT ![t] = "READY"]
           /\ runq' = insert_in_run_queue_head(runq, t)
    /\ csc' = csc + 1
    /\ irq' = "preempt"
    /\ UNCHANGED <<current, quantum, saved, pc, priority, idle, timers, waking>>

\* wait_queue_wake_all on a queue with waiters, and wait_queue_destroy (err =
\* ERR_OBJECT_DESTROYED): the caller goes into the run queue before the loop.
wait_queue_wake_all(w, reschedule, err) ==
    /\ Calls
    /\ wcount[w] > 0
    /\ csc' = csc + 1
    /\ waking' = [wait |-> w, resched |-> reschedule, err |-> err]
    /\ IF reschedule
       THEN /\ state' = [state EXCEPT ![current] = "READY"]
            /\ runq' = insert_in_run_queue_head(runq, current)
       ELSE UNCHANGED <<state, runq>>
    /\ UNCHANGED <<current, quantum, saved, pc, priority, idle, waitVars,
                   timers, irq>>

irq_wake_all(w, err) ==
    /\ Interruptible
    /\ wcount[w] > 0
    /\ csc' = csc + 1
    /\ irq' = "preempt"
    /\ waking' = [wait |-> w, resched |-> FALSE, err |-> err]
    /\ UNCHANGED <<current, state, quantum, runq, saved, pc, priority, idle,
                   waitVars, timers>>

wake_all_next ==
    /\ waking # None
    /\ waitq[waking.wait] # <<>>
    /\ LET w == waking.wait
           t == Head(waitq[w])
       IN  /\ Unblock(t, w, Tail(waitq[w]), waking.err)
           /\ state' = [state EXCEPT ![t] = "READY"]
           /\ runq' = insert_in_run_queue_head(runq, t)
    /\ UNCHANGED <<current, quantum, csc, saved, pc, priority, idle, timers,
                   irq, waking>>

\* Fault: the reschedule the caller asked for is forgotten.
wake_all_done_Stays ==
    /\ waking # None
    /\ waitq[waking.wait] = <<>>
    /\ waking' = None
    /\ csc' = IF irq = "none" THEN csc - 1 ELSE csc
    /\ UNCHANGED <<current, state, quantum, runq, saved, pc, priority, idle,
                   waitVars, timers, irq>>

wake_all_done ==
    /\ waking # None
    /\ waitq[waking.wait] = <<>>
    /\ waking' = None
    /\ \/ /\ waking.resched
          /\ thread_resched(state, runq, quantum, csc)
          /\ pc' = [pc EXCEPT ![current] = "wake"]
       \/ /\ ~waking.resched
          /\ csc' = IF irq = "none" THEN csc - 1 ELSE csc
          /\ UNCHANGED <<current, state, quantum, runq, saved, pc>>
    /\ UNCHANGED <<priority, idle, waitVars, timers, irq>>

-----------------------------------------------------------------------------
(* Returning from thread_resched, in the thread that was switched in       *)

InCall(f) == irq = "none" /\ waking = None /\ pc[current] = f

LeaveCall ==
    /\ csc' = csc - Depth[pc[current]]
    /\ pc' = [pc EXCEPT ![current] = "run"]
    /\ UNCHANGED <<current, state, quantum, runq, saved, priority, idle,
                   waitVars, irq, waking>>

return_from_resched ==
    /\ \E f \in {"fresh", "yield", "resume", "sleep", "wake", "irq"} : InCall(f)
    /\ LeaveCall
    /\ UNCHANGED timers

\* The end of wait_queue_block cancels the timer, which may have fired or not.
return_from_block ==
    /\ InCall("block")
    /\ LeaveCall
    /\ timer_cancel(current)

-----------------------------------------------------------------------------
(* Interrupts                                                              *)

\* arm_irq enters timer_tick: one tick has passed for every queued timer.
irq_tick ==
    /\ Interruptible
    /\ csc' = csc + 1
    /\ irq' = "tick"
    /\ timers' = [i \in DOMAIN timers |->
                    [timers[i] EXCEPT !.left = IF @ > 0 THEN @ - 1 ELSE 0]]
    /\ UNCHANGED <<current, state, quantum, runq, saved, pc, priority, idle,
                   waitVars, waking>>

\* Fault: a timer that is due has to be overdue.
Expired_Late == timers # <<>> /\ Head(timers).left < 0

Expired == timers # <<>> /\ Head(timers).left = 0

thread_sleep_handler ==
    /\ irq = "tick"
    /\ Expired
    /\ LET t == Head(timers).thread
       IN  /\ Head(timers).cb = "sleep"
           /\ state' = [state EXCEPT ![t] = "READY"]
           /\ runq' = insert_in_run_queue_head(runq, t)
    /\ timers' = Tail(timers)
    /\ UNCHANGED <<current, quantum, csc, saved, pc, priority, idle, waitVars,
                   irq, waking>>

\* Where t is in its wait queue.
PositionOf(t, q) == CHOOSE i \in DOMAIN q : q[i] = t

\* Fault: the result is stored whether or not the thread was still blocked.
wait_queue_timeout_handler_Overwrites ==
    /\ irq = "tick"
    /\ Expired
    /\ Head(timers).cb = "timeout"
    /\ timers' = Tail(timers)
    /\ LET t == Head(timers).thread
           w == blockedOn[t]
       IN  \/ /\ state[t] = "BLOCKED"
              /\ Unblock(t, w, RemoveAt(waitq[w], PositionOf(t, waitq[w])),
                         "ERR_TIMED_OUT")
              /\ state' = [state EXCEPT ![t] = "READY"]
              /\ runq' = insert_in_run_queue_head(runq, t)
           \/ /\ state[t] # "BLOCKED"
              /\ blockRet' = [blockRet EXCEPT ![t] = "ERR_TIMED_OUT"]
              /\ UNCHANGED <<waitq, wcount, blockedOn, state, runq>>
    /\ UNCHANGED <<current, quantum, csc, saved, pc, priority, idle, irq, waking>>

\* thread_unblock_from_wait_queue leaves its critical section only when it
\* finds the thread blocked.
wait_queue_timeout_handler ==
    /\ irq = "tick"
    /\ Expired
    /\ Head(timers).cb = "timeout"
    /\ timers' = Tail(timers)
    /\ LET t == Head(timers).thread
           w == blockedOn[t]
       IN  \/ /\ state[t] = "BLOCKED"
              /\ Unblock(t, w, RemoveAt(waitq[w], PositionOf(t, waitq[w])),
                         "ERR_TIMED_OUT")
              /\ state' = [state EXCEPT ![t] = "READY"]
              /\ runq' = insert_in_run_queue_head(runq, t)
              /\ UNCHANGED csc
           \/ /\ state[t] # "BLOCKED"
              /\ csc' = csc + 1
              /\ UNCHANGED <<waitVars, state, runq>>
    /\ UNCHANGED <<current, quantum, saved, pc, priority, idle, irq, waking>>

\* No timer is left to run: thread_timer_tick charges the current thread, and
\* timer_tick asks for a reschedule whatever the handlers returned.
timer_tick_done ==
    /\ irq = "tick"
    /\ ~Expired
    /\ quantum' = IF current = idle \/ quantum[current] = 0 THEN quantum
                  ELSE [quantum EXCEPT ![current] = @ - 1]
    /\ irq' = "preempt"
    /\ UNCHANGED <<current, state, runq, csc, saved, pc, priority, idle,
                   waitVars, timers, waking>>

\* Faults: the preempted thread always goes back to the front; the count is
\* not incremented around the switch.
thread_preempt_Front ==
    /\ irq = "preempt"
    /\ waking = None
    /\ thread_resched([state EXCEPT ![current] = "READY"],
                      insert_in_run_queue_head(runq, current), quantum, csc + 1)
    /\ pc' = [pc EXCEPT ![current] = "irq"]
    /\ irq' = "none"
    /\ UNCHANGED <<priority, idle, waitVars, timers, waking>>

thread_preempt_Bare ==
    /\ irq = "preempt"
    /\ waking = None
    /\ thread_resched([state EXCEPT ![current] = "READY"],
                      IF quantum[current] > 0
                      THEN insert_in_run_queue_head(runq, current)
                      ELSE insert_in_run_queue_tail(runq, current),
                      quantum, csc)
    /\ pc' = [pc EXCEPT ![current] = "irq"]
    /\ irq' = "none"
    /\ UNCHANGED <<priority, idle, waitVars, timers, waking>>

\* arm_irq calls thread_preempt: back to the front with quantum left, to the
\* tail without.
thread_preempt ==
    /\ irq = "preempt"
    /\ waking = None
    /\ thread_resched([state EXCEPT ![current] = "READY"],
                      IF quantum[current] > 0
                      THEN insert_in_run_queue_head(runq, current)
                      ELSE insert_in_run_queue_tail(runq, current),
                      quantum, csc + 1)
    /\ pc' = [pc EXCEPT ![current] = "irq"]
    /\ irq' = "none"
    /\ UNCHANGED <<priority, idle, waitVars, timers, waking>>

\* A thread came back to its own code with a count that is not 0.  Interrupts
\* are enabled there and its critical sections no longer disable them, so the
\* one-step-per-operation reading ends: the model stops.
Leaked == irq = "none" /\ waking = None /\ pc[current] = "run" /\ csc > 0

stopped == Leaked /\ UNCHANGED vars

-----------------------------------------------------------------------------

ThreadStep ==
    \/ thread_become_idle
    \/ thread_yield
    \/ thread_exit
    \/ \E t \in Threads : thread_resume(t) \/ thread_cleanup(t)
    \/ \E t \in Threads, p \in NewPriorities : thread_create(t, p)
    \/ \E p \in NewPriorities : thread_set_priority(p)
    \/ \E d \in Delays : thread_sleep(d)

WaitStep ==
    \E w \in WaitQueues :
        \/ \E d \in Timeouts \cup {None} : wait_queue_block(w, d)
        \/ \E r \in BOOLEAN, err \in WakeErrors :
               wait_queue_wake_one(w, r, err) \/ wait_queue_wake_all(w, r, err)

ReturnStep ==
    \/ return_from_resched
    \/ return_from_block
    \/ wake_all_next
    \/ wake_all_done

DeviceIrq == \E w \in WaitQueues, err \in WakeErrors :
                 irq_wake_one(w, err) \/ irq_wake_all(w, err)

HandlerStep ==
    \/ thread_sleep_handler
    \/ wait_queue_timeout_handler
    \/ timer_tick_done
    \/ thread_preempt

Next == ThreadStep \/ WaitStep \/ ReturnStep \/ DeviceIrq \/ irq_tick
        \/ HandlerStep \/ stopped

\* A kernel call and an interrupt handler run to their end; a pending timer
\* interrupt is taken if interrupts are enabled again and again (the interrupt
\* stays asserted until it is served).  Threads may loop in their own code.
Fairness == WF_vars(ReturnStep) /\ WF_vars(HandlerStep) /\ SF_vars(irq_tick)
            /\ WF_vars(thread_become_idle)

Spec == Init /\ [][Next]_vars
FairSpec == Spec /\ Fairness

-----------------------------------------------------------------------------
(* Properties                                                              *)

\* Type invariant: every variable of the scheduler keeps its shape.
TypeOK ==
    /\ current \in Threads
    /\ state \in [Threads -> States]
    /\ priority \in [Threads -> Priorities]
    /\ quantum \in [Threads -> 0..Quantum]
    /\ runq \in [list : [Priorities -> Seq(Threads)],
                 bitmap : SUBSET Priorities]
    /\ csc \in Int
    /\ saved \in [Threads -> Int]
    /\ pc \in [Threads -> Frames]
    /\ idle \in {None, Idle}
    /\ waitq \in [WaitQueues -> Seq(Threads)]
    /\ wcount \in [WaitQueues -> Int]
    /\ blockedOn \in [Threads -> WaitQueues \cup {None}]
    /\ blockRet \in [Threads -> Results]
    /\ timers \in Seq(TimerEntries)
    /\ irq \in {"none", "tick", "preempt"}
    /\ waking \in WakeLoops \cup {None}

\* A thread is in the run queue exactly when it is ready: in the list of its
\* own priority, once; and the bitmap that thread_resched searches names
\* exactly the lists that are not empty.
RunQueueOK(st, q, pr) ==
    \A p \in Priorities :
        /\ IsInjective(q.list[p])
        /\ ToSet(q.list[p]) = {t \in Threads : st[t] = "READY" /\ pr[t] = p}
        /\ p \in q.bitmap <=> q.list[p] # <<>>

RunQueueInv == RunQueueOK(state, runq, priority)

\* A thread is in a wait queue exactly when it is blocked: in the queue it
\* blocked on, once; and the queue's count is its length.
WaitQueueOK(st, wq, wc, on) ==
    /\ \A w \in WaitQueues :
          /\ IsInjective(wq[w])
          /\ ToSet(wq[w]) = {t \in Threads : st[t] = "BLOCKED" /\ on[t] = w}
          /\ wc[w] = Len(wq[w])
    /\ \A t \in Threads : st[t] = "BLOCKED" => on[t] \in WaitQueues

WaitQueueInv == WaitQueueOK(state, waitq, wcount, blockedOn)

\* No thread but the current one runs, and the current one does unless it is
\* in the middle of waking others with reschedule.  The idle thread never
\* waits for anything, so thread_resched always finds a thread to switch to.
CurrentInv ==
    /\ \A t \in Threads : state[t] = "RUNNING" => t = current
    /\ state[current] = IF waking # None /\ waking.resched THEN "READY"
                                                           ELSE "RUNNING"
    /\ state[Idle] \in {"READY", "RUNNING"}

\* The timers live on the stacks of threads: each belongs to a thread that has
\* not left the call that queued it, so none outlives a freed stack; a sleeping
\* thread has one, or it would sleep for ever; they expire in order.
TimerInv ==
    /\ \A i \in DOMAIN timers :
          /\ timers[i].cb = "sleep" => state[timers[i].thread] = "SLEEPING"
          /\ timers[i].cb = "timeout" =>
                /\ pc[timers[i].thread] = "block"
                /\ state[timers[i].thread] \in {"BLOCKED", "READY", "RUNNING"}
          /\ \A j \in DOMAIN timers :
                /\ timers[i].thread = timers[j].thread => i = j
                /\ i < j => timers[i].left <= timers[j].left
    /\ \A t \in Threads : state[t] = "SLEEPING" =>
          \E i \in DOMAIN timers : timers[i].thread = t /\ timers[i].cb = "sleep"

\* enter and exit of critical sections are balanced through every switch,
\* nesting and interrupt: the count a thread is switched in with is what the
\* rest of its call leaves, so its own code always runs with interrupts on.
CriticalSectionInv ==
    /\ csc = CASE irq = "tick" -> 1
               [] irq = "preempt" -> 1
               [] OTHER -> IF waking # None THEN 1 ELSE Depth[pc[current]]
    /\ \A t \in Threads :
          state[t] \in {"SUSPENDED", "READY", "BLOCKED", "SLEEPING"}
          /\ t # current => saved[t] = Depth[pc[t]]

\* Whoever is switched in, no ready thread has a higher priority.
SwitchesToHighest ==
    [][current' # current =>
         \A t \in Threads : state'[t] = "READY" =>
             priority'[t] <= priority'[current']]_vars

\* A thread that was woken keeps the result its waker gave it until it returns
\* from wait_queue_block: a timeout that expires in between does not replace it.
WakeResultKept ==
    [][\A t \in Threads :
         pc[t] = "block" /\ state[t] \in {"READY", "RUNNING"} /\ pc'[t] = "block"
         => blockRet'[t] = blockRet[t]]_vars

\* A sleep ends, and a wait with a timeout, whoever signals or does not: the
\* thread becomes ready, unless the count leaked first.
TimedWaitEnds ==
    \A t \in Threads :
        (\/ state[t] = "SLEEPING"
         \/ state[t] = "BLOCKED" /\ \E i \in DOMAIN timers : timers[i].thread = t)
        ~> (state[t] \notin {"SLEEPING", "BLOCKED"} \/ Leaked)

\* Threads of one priority share the processor: a ready one gets to run,
\* however the others sleep, yield, wake each other or loop.
ReadyRuns ==
    \A t \in Threads \ {Idle} :
        state[t] = "READY" ~> state[t] # "READY"

=============================================================================
