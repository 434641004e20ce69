-------------------------------- MODULE Mutex --------------------------------
(***************************************************************************)
(* Mutexes: src/kernel/mutex.c on the scheduler of module Thread.  Each     *)
(* mutex is named by its wait queue.  Clients keep the rules of mutex.h:    *)
(* thread context only, no recursive acquire, and only who acquired a mutex *)
(* releases it.                                                             *)
(***************************************************************************)
EXTENDS Thread, FiniteSets

ASSUME MutexAssumption == IsFiniteSet(Threads)

VARIABLES
    count,    \* m->count
    holder,   \* m->holder
    magic,    \* m->magic = MUTEX_MAGIC: initialised and not destroyed
    call,     \* the acquire each thread is inside: which mutex, which function
    owns      \* the mutexes each client acquired and has not released

mutexVars == <<count, holder, magic, call, owns>>
mvars == <<vars, mutexVars>>

NoCall == [mutex |-> None, fn |-> "none"]
MutexCalls == [mutex : WaitQueues, fn : {"acquire", "acquire_timeout"}]

\* Threads that are in the middle of acquiring m.
Acquiring(m) == {t \in Threads : call[t].mutex = m}

\* Woken by a release, and not yet back in mutex_acquire.
Granted(m) == {t \in Acquiring(m) :
                 state[t] \in {"READY", "RUNNING"} /\ blockRet[t] = "NO_ERROR"}

MutexInit ==
    /\ Init
    /\ count = [m \in WaitQueues |-> 0]
    /\ holder = [m \in WaitQueues |-> None]
    /\ magic = [m \in WaitQueues |-> TRUE]
    /\ call = [t \in Threads |-> NoCall]
    /\ owns = [t \in Threads |-> {}]

\* A destroyed mutex is initialised again when nobody uses the old one.
mutex_init(m) ==
    /\ Calls
    /\ ~magic[m]
    /\ Acquiring(m) = {}
    /\ \A t \in Threads : m \notin owns[t]
    /\ magic' = [magic EXCEPT ![m] = TRUE]
    /\ count' = [count EXCEPT ![m] = 0]
    /\ holder' = [holder EXCEPT ![m] = None]
    /\ UNCHANGED <<vars, call, owns>>

\* The mutex was free.
Take(m) ==
    /\ holder' = [holder EXCEPT ![m] = current]
    /\ owns' = [owns EXCEPT ![current] = @ \cup {m}]

mutex_acquire(m, timeout) ==
    /\ Calls
    /\ magic[m]
    /\ m \notin owns[current]
    /\ count' = [count EXCEPT ![m] = @ + 1]
    /\ \/ /\ count[m] = 0
          /\ Take(m)
          /\ UNCHANGED <<vars, call>>
       \/ /\ count[m] > 0
          /\ wait_queue_block(m, timeout)
          /\ call' = [call EXCEPT ![current] =
                        [mutex |-> m, fn |-> IF timeout = None THEN "acquire"
                                                           ELSE "acquire_timeout"]]
          /\ UNCHANGED <<holder, owns>>
    /\ UNCHANGED magic

\* mutex_acquire_timeout with a timeout of 0 on a free mutex; on one that is
\* taken it counts itself in and out again and returns ERR_TIMED_OUT.
mutex_try(m) ==
    /\ Calls
    /\ magic[m]
    /\ m \notin owns[current]
    /\ count[m] = 0
    /\ count' = [count EXCEPT ![m] = 1]
    /\ Take(m)
    /\ UNCHANGED <<vars, magic, call>>

\* Faults: the waiter does not take the mutex it was given; it does not look at
\* the result.
return_from_acquire_NotTaken ==
    /\ return_from_block
    /\ call[current].fn = "acquire"
    /\ call' = [call EXCEPT ![current] = NoCall]
    /\ \/ /\ blockRet[current] = "NO_ERROR"
          /\ owns' = [owns EXCEPT ![current] = @ \cup {call[current].mutex}]
       \/ blockRet[current] # "NO_ERROR" /\ UNCHANGED owns
    /\ UNCHANGED <<count, magic, holder>>

return_from_acquire_Scribbles ==
    /\ return_from_block
    /\ call[current].fn = "acquire"
    /\ call' = [call EXCEPT ![current] = NoCall]
    /\ holder' = [holder EXCEPT ![call[current].mutex] = current]
    /\ owns' = [owns EXCEPT ![current] =
                   IF blockRet[current] = "NO_ERROR"
                   THEN @ \cup {call[current].mutex} ELSE @]
    /\ UNCHANGED <<count, magic>>

\* Back in mutex_acquire, in the thread that waited.
return_from_acquire ==
    /\ return_from_block
    /\ call[current].fn = "acquire"
    /\ call' = [call EXCEPT ![current] = NoCall]
    /\ \/ blockRet[current] = "NO_ERROR" /\ Take(call[current].mutex)
       \/ blockRet[current] # "NO_ERROR" /\ UNCHANGED <<holder, owns>>
    /\ UNCHANGED <<count, magic>>

\* Fault: the acquire that timed out is not backed out.
return_from_acquire_timeout_Counted ==
    /\ return_from_block
    /\ call[current].fn = "acquire_timeout"
    /\ call' = [call EXCEPT ![current] = NoCall]
    /\ \/ blockRet[current] = "NO_ERROR" /\ Take(call[current].mutex)
       \/ blockRet[current] # "NO_ERROR" /\ UNCHANGED <<holder, owns>>
    /\ UNCHANGED <<count, magic>>

\* Back in mutex_acquire_timeout: any result but ERR_TIMED_OUT sets the holder.
return_from_acquire_timeout ==
    /\ return_from_block
    /\ call[current].fn = "acquire_timeout"
    /\ call' = [call EXCEPT ![current] = NoCall]
    /\ LET m == call[current].mutex
       IN  \/ /\ blockRet[current] = "NO_ERROR"
              /\ Take(m)
              /\ UNCHANGED count
           \/ /\ blockRet[current] = "ERR_TIMED_OUT"
              /\ count' = [count EXCEPT ![m] = @ - 1]
              /\ UNCHANGED <<holder, owns>>
           \/ /\ blockRet[current] = "ERR_OBJECT_DESTROYED"
              /\ holder' = [holder EXCEPT ![m] = current]
              /\ UNCHANGED <<count, owns>>
    /\ UNCHANGED magic

\* Faults: the count is given up before anyone is woken, so that a waiter is
\* skipped by newcomers; the release wakes nobody.
mutex_release_Barging(m) ==
    /\ Calls
    /\ m \in owns[current]
    /\ holder' = [holder EXCEPT ![m] = None]
    /\ count' = [count EXCEPT ![m] = 0]
    /\ owns' = [owns EXCEPT ![current] = @ \ {m}]
    /\ IF count[m] > 1 /\ waitq[m] # <<>>
       THEN wait_queue_wake_one(m, TRUE, "NO_ERROR")
       ELSE UNCHANGED vars
    /\ UNCHANGED <<magic, call>>

mutex_release_Silent(m) ==
    /\ Calls
    /\ m \in owns[current]
    /\ holder' = [holder EXCEPT ![m] = None]
    /\ count' = [count EXCEPT ![m] = @ - 1]
    /\ owns' = [owns EXCEPT ![current] = @ \ {m}]
    /\ UNCHANGED <<vars, magic, call>>

mutex_release(m) ==
    /\ Calls
    /\ m \in owns[current]
    /\ holder' = [holder EXCEPT ![m] = None]
    /\ count' = [count EXCEPT ![m] = @ - 1]
    /\ owns' = [owns EXCEPT ![current] = @ \ {m}]
    /\ IF count[m] > 1 /\ waitq[m] # <<>>
       THEN wait_queue_wake_one(m, TRUE, "NO_ERROR")
       ELSE UNCHANGED vars
    /\ UNCHANGED <<magic, call>>

\* By the holder, or by anyone if it is free (else it panics).  The holder
\* field is left as it was.
mutex_destroy(m) ==
    /\ Calls
    /\ magic[m]
    /\ holder[m] \in {None, current}
    /\ magic' = [magic EXCEPT ![m] = FALSE]
    /\ count' = [count EXCEPT ![m] = 0]
    /\ owns' = [owns EXCEPT ![current] = @ \ {m}]
    /\ IF wcount[m] > 0 THEN wait_queue_wake_all(m, TRUE, "ERR_OBJECT_DESTROYED")
                        ELSE UNCHANGED vars
    /\ UNCHANGED <<holder, call>>

MutexStep ==
    \E m \in WaitQueues :
        \/ \E d \in Timeouts \cup {None} : mutex_acquire(m, d)
        \/ mutex_try(m)
        \/ mutex_release(m)
        \/ mutex_destroy(m)
        \/ mutex_init(m)

MutexReturn == return_from_acquire \/ return_from_acquire_timeout

\* The rest of the kernel goes on around the mutexes.
KernelStep ==
    /\ \/ thread_become_idle
       \/ thread_yield
       \/ \E d \in Delays : thread_sleep(d)
       \/ return_from_resched
       \/ wake_all_next
       \/ wake_all_done
       \/ irq_tick
       \/ HandlerStep
       \/ stopped
    /\ UNCHANGED mutexVars

MutexNext == MutexStep \/ MutexReturn \/ KernelStep

\* Module Thread's fairness; and a client does not keep a mutex for ever.
MutexFairness ==
    /\ WF_mvars(MutexReturn)
    /\ WF_mvars(KernelStep /\ (ReturnStep \/ HandlerStep \/ thread_become_idle))
    /\ SF_mvars(KernelStep /\ irq_tick)
    /\ \A t \in Threads, m \in WaitQueues :
           SF_mvars(current = t /\ mutex_release(m))

MutexSpec == MutexInit /\ [][MutexNext]_mvars
MutexFairSpec == MutexSpec /\ MutexFairness

-----------------------------------------------------------------------------
(* Properties                                                              *)

\* Type invariant of the mutexes.  A count stays within the number of threads:
\* below 0 only on a destroyed mutex, which a late timeout still backs out of.
MutexTypeOK ==
    /\ count \in [WaitQueues -> -Cardinality(Threads) .. Cardinality(Threads)]
    /\ holder \in [WaitQueues -> Threads \cup {None}]
    /\ magic \in [WaitQueues -> BOOLEAN]
    /\ call \in [Threads -> MutexCalls \cup {NoCall}]
    /\ owns \in [Threads -> SUBSET WaitQueues]

\* Mutual exclusion, and no panic: as long as the mutex exists its holder is
\* the thread whose acquire succeeded, so nobody else believes it owns it and
\* mutex_release and mutex_destroy find the caller they expect.
OwnerHolds ==
    \A m \in WaitQueues, t \in Threads :
        magic[m] => (holder[m] = t <=> m \in owns[t])

\* Every count is accounted for: by the owner, or by a thread that is still in
\* the call in which it counted itself in.
CountInv ==
    /\ MutexTypeOK
    /\ \A m \in WaitQueues :
          magic[m] => count[m] = Cardinality({t \in Threads : m \in owns[t]}
                                             \cup Acquiring(m))

\* A thread waits only for a mutex that somebody holds or is about to hold:
\* otherwise nobody is left to wake it.
WaitersHaveHolder ==
    \A m \in WaitQueues :
        magic[m] /\ waitq[m] # <<>> => holder[m] # None \/ Granted(m) # {}

\* mutex.c without timeouts: the holder is who acquired the mutex, and nobody
\* waits for a mutex that has none.
LineInv == OwnerHolds /\ WaitersHaveHolder

\* "so make sure we dont scribble thread ownership on the mutex": a call that
\* found the mutex destroyed does not make its thread the holder.
DestroyedNotScribbled ==
    [][\A m \in WaitQueues, t \in Threads :
         holder[m] # t /\ holder'[m] = t => m \in owns'[t]]_mvars

\* Acquiring without a timeout ends: with the mutex, or because it was
\* destroyed.
AcquireEnds ==
    \A t \in Threads : call[t] # NoCall ~> call[t] = NoCall

\* Without timeouts a mutex is the line of module MutexLine: first come, first
\* served, whatever the priorities and preemptions, and nobody slips in between
\* a release and the waiter it wakes.
InLine(m) ==
    IF ~magic[m] THEN <<>>
    ELSE SetToSeq(IF holder[m] # None THEN {holder[m]} ELSE Granted(m)) \o waitq[m]

Line == INSTANCE MutexLine WITH
    Mutexes <- WaitQueues,
    line <- [m \in WaitQueues |-> InLine(m)],
    inside <- [m \in WaitQueues |-> magic[m] /\ holder[m] # None]

LineSpec == Line!Spec

=============================================================================
