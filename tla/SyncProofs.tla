----------------------------- MODULE SyncProofs ------------------------------
(***************************************************************************)
(* Theorems about the mutexes, the events and the deferred calls that wait  *)
(* on one.  MInv is the invariant of every use of the mutexes; LInv adds    *)
(* what holds where nobody gives a timeout.  No signal is lost, and the     *)
(* events implement the rules of EventPromise, with any timeouts, any       *)
(* number of threads and any interrupts; each dead thread is queued for     *)
(* cleanup exactly once, and the DPC thread does not sleep while one is,    *)
(* for any number of threads that are created and die.                      *)
(***************************************************************************)
EXTENDS Mutex, Dpc, ThreadProofs, FiniteSetTheorems

-----------------------------------------------------------------------------
(* Mutexes                                                                  *)

Owners(m) == {t \in Threads : m \in owns[t]}
Counted(m) == Owners(m) \cup Acquiring(m)

MutexTypes ==
    /\ count \in [WaitQueues -> Int]
    /\ holder \in [WaitQueues -> Threads \cup {None}]
    /\ magic \in [WaitQueues -> BOOLEAN]
    /\ call \in [Threads -> MutexCalls \cup {NoCall}]
    /\ owns \in [Threads -> SUBSET WaitQueues]

\* The threads inside wait_queue_block are those inside an acquire, each on the
\* queue of the mutex it acquires.
CallsWait ==
    \A t \in Threads :
        /\ pc[t] = "block" <=> call[t] # NoCall
        /\ state[t] = "BLOCKED" => blockedOn[t] = call[t].mutex
        /\ call[t].mutex \notin owns[t]

\* What the results of the waits mean.
ResultsRight ==
    /\ \A e \in ToSet(timers) : e.cb = "timeout" => call[e.thread].fn # "acquire"
    /\ \A t \in Threads :
          /\ call[t].fn = "acquire" => blockRet[t] # "ERR_TIMED_OUT"
          /\ call[t] # NoCall /\ state[t] # "BLOCKED"
             /\ blockRet[t] = "ERR_OBJECT_DESTROYED" => ~ magic[call[t].mutex]
    /\ waking # None => waking.err = "ERR_OBJECT_DESTROYED" /\ ~ magic[waking.wait]

\* One thread at most holds a mutex or has been woken to hold it.
OneHolder ==
    \A m \in WaitQueues : magic[m] =>
        \A t, u \in Owners(m) \cup Granted(m) : t = u

\* How the count and the threads it counts relate; the count of a destroyed
\* mutex was set to 0 with some of them still on their way.
Counts ==
    \A m \in WaitQueues :
        /\ magic[m] => count[m] = Cardinality(Counted(m))
        /\ ~ magic[m] => /\ count[m] <= 0
                         /\ count[m] >= Cardinality(Counted(m)) - Cardinality(Threads)

MInv == /\ KInv /\ MutexTypes
        /\ CallsWait /\ ResultsRight /\ OwnerHolds /\ OneHolder /\ Counts

-----------------------------------------------------------------------------
(* What MInv says of one step                                              *)

LEMMA CallTypes ==
    ASSUME MutexTypes
    PROVE  \A t \in Threads :
              /\ call[t] # NoCall => /\ call[t].mutex \in WaitQueues
                                     /\ call[t].fn \in {"acquire", "acquire_timeout"}
              /\ call[t] = NoCall => /\ call[t].mutex = None /\ None \notin WaitQueues
                                     /\ call[t].fn = "none"
<1> SUFFICES ASSUME NEW t \in Threads
             PROVE  /\ call[t] # NoCall => /\ call[t].mutex \in WaitQueues
                                           /\ call[t].fn \in {"acquire", "acquire_timeout"}
                    /\ call[t] = NoCall => /\ call[t].mutex = None /\ None \notin WaitQueues
                                           /\ call[t].fn = "none"
  OBVIOUS
<1>1. call[t] \in MutexCalls \cup {NoCall} /\ None \notin WaitQueues
  BY ConstantTypes DEF MutexTypes
<1>2. call[t] \in MutexCalls => /\ call[t].mutex \in WaitQueues
                                /\ call[t].fn \in {"acquire", "acquire_timeout"}
  BY DEF MutexCalls
<1>3. NoCall.mutex = None /\ NoCall.fn = "none"
  BY DEF NoCall
<1> QED BY <1>1, <1>2, <1>3

\* A mutex counts finitely many threads.
LEMMA CountedFinite ==
    ASSUME NEW m
    PROVE  /\ IsFiniteSet(Threads) /\ Cardinality(Threads) \in Nat
           /\ IsFiniteSet(Counted(m)) /\ Cardinality(Counted(m)) \in Nat
           /\ Cardinality(Counted(m)) <= Cardinality(Threads)
<1>1. IsFiniteSet(Threads) /\ Counted(m) \in SUBSET Threads
  BY MutexAssumption DEF MutexAssumption, Counted, Owners, Acquiring
<1>2. Cardinality(Threads) \in Nat
  BY <1>1, FS_CardinalityType
<1>3. IsFiniteSet(Counted(m)) /\ Cardinality(Counted(m)) <= Cardinality(Threads)
  BY <1>1, FS_Subset
<1>4. Cardinality(Counted(m)) \in Nat
  BY <1>3, FS_CardinalityType
<1> QED BY <1>1, <1>2, <1>3, <1>4

\* A step that changes the count of one mutex, or the threads it counts, has to
\* be right about that mutex.
LEMMA CountsBut ==
    ASSUME Counts, NEW m \in WaitQueues,
           \A v \in WaitQueues : v # m => /\ magic'[v] = magic[v] /\ count'[v] = count[v]
                                         /\ Counted(v)' = Counted(v),
           magic'[m] => count'[m] = Cardinality(Counted(m)'),
           ~ magic'[m] => /\ count'[m] <= 0
                          /\ count'[m] >= Cardinality(Counted(m)') - Cardinality(Threads)
    PROVE  Counts'
<1>1. ASSUME NEW v \in WaitQueues
      PROVE  /\ magic'[v] => count'[v] = Cardinality(Counted(v)')
             /\ ~ magic'[v] => /\ count'[v] <= 0
                              /\ count'[v] >= Cardinality(Counted(v)') - Cardinality(Threads)
  <2>1. CASE v = m
    BY <2>1
  <2>2. CASE v # m
    <3>1. /\ magic[v] => count[v] = Cardinality(Counted(v))
          /\ ~ magic[v] => /\ count[v] <= 0
                          /\ count[v] >= Cardinality(Counted(v)) - Cardinality(Threads)
      BY DEF Counts
    <3>2. magic'[v] = magic[v] /\ count'[v] = count[v] /\ Counted(v)' = Counted(v)
      BY <2>2
    <3> QED BY <3>1, <3>2
  <2> QED BY <2>1, <2>2
<1> QED BY <1>1 DEF Counts

\* Every step of a client of mutexes is a step of the kernel.
LEMMA MutexStepIsKernel == MutexNext => [KernelNext]_vars /\ (KernelStep => RestStep)
<1>1. KernelStep => RestStep
  BY DEF KernelStep, RestStep
<1>2. MutexReturn => KernelNext
  BY DEF MutexReturn, return_from_acquire, return_from_acquire_timeout, KernelNext, ReturnStep
<1>3. ASSUME NEW m \in WaitQueues, NEW d \in Timeouts \cup {None}, mutex_acquire(m, d)
      PROVE  [KernelNext]_vars
  BY <1>3 DEF mutex_acquire, KernelNext, WaitCall
<1>4. ASSUME NEW m \in WaitQueues,
             mutex_try(m) \/ mutex_release(m) \/ mutex_destroy(m) \/ mutex_init(m)
      PROVE  [KernelNext]_vars
  <2>1. TRUE \in BOOLEAN /\ "NO_ERROR" \in Results /\ "ERR_OBJECT_DESTROYED" \in Results
    BY DEF Results
  <2> QED BY <1>4, <2>1
          DEF mutex_try, mutex_release, mutex_destroy, mutex_init, KernelNext, WaitCall
<1> QED BY <1>1, <1>2, <1>3, <1>4, RestIsKernelNext DEF MutexNext, MutexStep

\* A client that calls is in no acquire.
LEMMA ClientIsFree ==
    ASSUME MInv, Calls
    PROVE  /\ current \in Threads /\ waking = None
           /\ pc[current] = "run" /\ call[current] = NoCall /\ state[current] = "RUNNING"
           /\ \A m \in WaitQueues : call[current].mutex # m
<1>1. current \in Threads /\ state[current] = "RUNNING" /\ waking = None /\ pc[current] = "run"
  BY CallFacts DEF MInv, KInv, Calls, Interruptible
<1>2. call[current] = NoCall
  BY <1>1 DEF MInv, CallsWait
<1> QED BY <1>1, <1>2, CallTypes DEF MInv

\* Of the threads in an acquire, those that are not blocked have their result.
LEMMA GrantedAre ==
    ASSUME KInv, KInv', CallsWait, CallsWait', MutexTypes, MutexTypes'
    PROVE  \A m \in WaitQueues, t \in Threads :
              /\ t \in Granted(m) <=> /\ call[t].mutex = m
                                      /\ state[t] # "BLOCKED" /\ blockRet[t] = "NO_ERROR"
              /\ t \in Granted(m)' <=> /\ call'[t].mutex = m
                                       /\ state'[t] # "BLOCKED" /\ blockRet'[t] = "NO_ERROR"
<1>1. \A m \in WaitQueues, t \in Threads :
         /\ call[t].mutex = m => call[t] # NoCall
         /\ call'[t].mutex = m => call'[t] # NoCall
  BY ConstantTypes DEF NoCall
<1>2. \A m \in WaitQueues, t \in Threads :
         /\ call[t].mutex = m => state[t] \in {"BLOCKED", "READY", "RUNNING"}
         /\ call'[t].mutex = m => state'[t] \in {"BLOCKED", "READY", "RUNNING"}
  BY <1>1 DEF KInv, FrameInv, CallsWait
<1> QED BY <1>2 DEF Granted, Acquiring

LEMMA InitMInv == MutexInit => MInv
<1> SUFFICES ASSUME MutexInit PROVE MInv
  OBVIOUS
<1>1. /\ KInv /\ timers = <<>> /\ waking = None
      /\ state \in [Threads -> States]
      /\ \A t \in Threads : pc[t] # "block" /\ state[t] # "BLOCKED"
  <2>1. Init
    BY DEF MutexInit
  <2>2. \A t \in Threads : state[t] # "BLOCKED" /\ pc[t] # "block"
    BY <2>1 DEF Init
  <2> QED BY <2>1, <2>2, InitKInv DEF Init, KInv, IInv, TypeOK
<1>2. /\ count = [m \in WaitQueues |-> 0] /\ holder = [m \in WaitQueues |-> None]
      /\ magic = [m \in WaitQueues |-> TRUE]
      /\ call = [t \in Threads |-> NoCall] /\ owns = [t \in Threads |-> {}]
  BY DEF MutexInit
<1>3. MutexTypes
  BY <1>2 DEF MutexTypes
<1>4. \A m \in WaitQueues : Owners(m) = {} /\ Granted(m) = {} /\ Counted(m) = {}
  BY <1>2, ConstantTypes DEF Owners, Granted, Counted, Acquiring, NoCall
<1>5. CallsWait /\ OwnerHolds /\ OneHolder
  BY <1>1, <1>2, <1>4, ConstantTypes DEF CallsWait, OwnerHolds, OneHolder
<1>6. ResultsRight
  BY <1>1, <1>2 DEF ResultsRight, ToSet, NoCall
<1>7. Counts
  BY <1>2, <1>4, FS_EmptySet DEF Counts
<1> QED BY <1>1, <1>3, <1>5, <1>6, <1>7 DEF MInv

-----------------------------------------------------------------------------
(* The steps                                                               *)

\* A step of the kernel between the calls: nobody is granted a mutex, and only
\* the waiters of a destroyed mutex are told that it was destroyed.
LEMMA KernelStepMInv ==
    ASSUME MInv, RestStep, UNCHANGED mutexVars
    PROVE  MInv'
<1>1. /\ KInv /\ MutexTypes /\ CallsWait /\ ResultsRight
      /\ OwnerHolds /\ OneHolder /\ Counts
      /\ FrameInv
  BY DEF MInv, KInv
<1>2. /\ KInv' /\ FrameInv'
  BY <1>1, RestIsKernelNext, KernelKeeps DEF KInv
<1>3. /\ count' = count /\ holder' = holder /\ magic' = magic
      /\ call' = call /\ owns' = owns
  BY DEF mutexVars
<1>4. \A t \in Threads : pc'[t] = "block" <=> pc[t] = "block"
  BY <1>1, RestFrames
<1>5. MutexTypes' /\ OwnerHolds'
  BY <1>1, <1>3 DEF MutexTypes, OwnerHolds
<1>6. Counts'
  <2>1. \A m : Counted(m)' = Counted(m)
    BY <1>3 DEF Counted, Owners, Acquiring
  <2> QED BY <1>1, <1>3, <2>1 DEF Counts
<1>7. /\ \A t \in Threads : state'[t] = "BLOCKED" =>
            state[t] = "BLOCKED" /\ blockedOn'[t] = blockedOn[t]
      /\ \A t \in Threads : call[t] # NoCall =>
            \/ /\ state'[t] = "BLOCKED" <=> state[t] = "BLOCKED"
               /\ blockRet'[t] = blockRet[t]
            \/ /\ blockRet'[t] = "ERR_OBJECT_DESTROYED"
               /\ ~ magic[call[t].mutex]
            \/ blockRet'[t] = "ERR_TIMED_OUT" /\ call[t].fn # "acquire"
      /\ waking' \in {waking, None}
  <2>0. /\ state \in [Threads -> States] /\ blockRet \in [Threads -> Results]
        /\ blockedOn \in [Threads -> WaitQueues \cup {None}]
        /\ \A t \in Threads : /\ call[t] # NoCall => pc[t] = "block"
                              /\ state[t] = "BLOCKED" => pc[t] = "block"
    BY <1>1 DEF KInv, IInv, TypeOK, CallsWait, FrameInv
  <2>1. CASE WaitersStay
    BY <2>0, <2>1 DEF WaitersStay
  <2>2. ASSUME NEW u \in Threads, NEW w \in WaitQueues, waking # None, w = waking.wait,
               Released(u, w, waking.err)
        PROVE  <1>7!:
    <3>1. /\ state' = [state EXCEPT ![u] = "READY"]
          /\ blockRet' = [blockRet EXCEPT ![u] = "ERR_OBJECT_DESTROYED"]
          /\ blockedOn' = [blockedOn EXCEPT ![u] = None]
          /\ call[u].mutex = w /\ ~ magic[w]
          /\ waking' = waking
      BY <1>1, <2>2 DEF Released, ResultsRight, CallsWait
    <3>2. \A t \in Threads : /\ state'[t] = IF t = u THEN "READY" ELSE state[t]
                             /\ blockRet'[t] = IF t = u THEN "ERR_OBJECT_DESTROYED"
                                                       ELSE blockRet[t]
                             /\ blockedOn'[t] = IF t = u THEN None ELSE blockedOn[t]
      BY <2>0, <3>1
    <3> QED BY <3>1, <3>2
  <2>3. ASSUME NEW u \in Threads, NEW w \in WaitQueues, Released(u, w, "ERR_TIMED_OUT"),
               \E e \in ToSet(timers) : e.thread = u /\ e.cb = "timeout"
        PROVE  <1>7!:
    <3>1. /\ state' = [state EXCEPT ![u] = "READY"]
          /\ blockRet' = [blockRet EXCEPT ![u] = "ERR_TIMED_OUT"]
          /\ blockedOn' = [blockedOn EXCEPT ![u] = None]
          /\ call[u].fn # "acquire"
          /\ waking' = waking
      BY <1>1, <2>3 DEF Released, ResultsRight
    <3>2. \A t \in Threads : /\ state'[t] = IF t = u THEN "READY" ELSE state[t]
                             /\ blockRet'[t] = IF t = u THEN "ERR_TIMED_OUT"
                                                       ELSE blockRet[t]
                             /\ blockedOn'[t] = IF t = u THEN None ELSE blockedOn[t]
      BY <2>0, <3>1
    <3> QED BY <3>1, <3>2
  <2> QED BY <1>1, <2>1, <2>2, <2>3, RestStepShape
<1>8. CallsWait'
  <2>1. \A t \in Threads : /\ pc'[t] = "block" <=> call'[t] # NoCall
                           /\ state'[t] = "BLOCKED" => blockedOn'[t] = call'[t].mutex
                           /\ call'[t].mutex \notin owns'[t]
    BY <1>1, <1>3, <1>4, <1>7 DEF CallsWait
  <2> QED BY <2>1 DEF CallsWait
<1>9. ResultsRight'
  <2>1. \A e \in ToSet(timers') : e.cb = "timeout" => call'[e.thread].fn # "acquire"
    BY <1>1, <1>3, RestTimeouts DEF ResultsRight
  <2>2. ASSUME NEW t \in Threads
        PROVE  /\ call[t].fn = "acquire" => blockRet'[t] # "ERR_TIMED_OUT"
               /\ call[t] # NoCall /\ state'[t] # "BLOCKED"
                  /\ blockRet'[t] = "ERR_OBJECT_DESTROYED" => ~ magic[call[t].mutex]
    <3>1. call[t].fn = "acquire" => call[t] # NoCall
      BY DEF NoCall
    <3> QED BY <1>1, <1>7, <3>1 DEF ResultsRight
  <2>3. waking' # None => waking'.err = "ERR_OBJECT_DESTROYED" /\ ~ magic[waking'.wait]
    BY <1>1, <1>7 DEF ResultsRight
  <2> QED BY <1>3, <2>1, <2>2, <2>3 DEF ResultsRight
<1>10. OneHolder'
  <2>1. \A m \in WaitQueues : magic[m] => Granted(m)' \subseteq Granted(m)
    <3>1. \A m \in WaitQueues, t \in Threads :
             t \in Granted(m)' /\ magic[m] => t \in Granted(m)
      BY <1>1, <1>2, <1>3, <1>5, <1>7, <1>8, GrantedAre, CallTypes
    <3> QED BY <3>1 DEF Granted, Acquiring
  <2>2. \A m \in WaitQueues : Owners(m)' = Owners(m)
    BY <1>3 DEF Owners
  <2> QED BY <1>1, <1>3, <2>1, <2>2 DEF OneHolder
<1> QED BY <1>2, <1>5, <1>6, <1>8, <1>9, <1>10 DEF MInv

\* An acquire, timed or not, of a mutex that is free: its count of 0 says that
\* nobody owns it or was woken to own it.
LEMMA TakeFreeMInv ==
    ASSUME MInv, Calls, NEW m \in WaitQueues, magic[m], count[m] = 0,
           count' = [count EXCEPT ![m] = 1], Take(m),
           UNCHANGED <<vars, magic, call>>
    PROVE  MInv'
<1>1. /\ KInv /\ MutexTypes /\ CallsWait /\ ResultsRight
      /\ OwnerHolds /\ OneHolder /\ Counts
  BY DEF MInv
<1>2. /\ KInv' /\ UNCHANGED <<state, pc, blockedOn, blockRet, timers, waking>>
      /\ magic' = magic /\ call' = call
  BY <1>1, KernelKeeps DEF vars, schedVars, waitVars
<1>3. /\ current \in Threads /\ call[current] = NoCall
      /\ \A v \in WaitQueues : call[current].mutex # v
  BY ClientIsFree
<1>4. Counted(m) = {}
  BY <1>1, CountedFinite, FS_EmptySet DEF Counts
<1>5. /\ count' = [count EXCEPT ![m] = 1]
      /\ holder' = [holder EXCEPT ![m] = current]
      /\ owns' = [owns EXCEPT ![current] = @ \cup {m}]
  BY DEF Take
<1>6. MutexTypes'
  BY <1>1, <1>2, <1>3, <1>5 DEF MutexTypes
<1>7. \A t \in Threads, v \in WaitQueues :
         v \in owns'[t] <=> v \in owns[t] \/ (t = current /\ v = m)
  BY <1>1, <1>3, <1>5 DEF MutexTypes
<1>8. /\ \A v \in WaitQueues : Granted(v)' = Granted(v) /\ Acquiring(v)' = Acquiring(v)
      /\ \A v \in WaitQueues : v # m => Owners(v)' = Owners(v)
      /\ Owners(m)' = {current} /\ Owners(m) = {} /\ Acquiring(m) = {} /\ Granted(m) = {}
  <2>1. /\ \A v \in WaitQueues : Granted(v)' = Granted(v) /\ Acquiring(v)' = Acquiring(v)
        /\ Owners(m) = {} /\ Acquiring(m) = {} /\ Granted(m) = {}
    BY <1>2, <1>4 DEF Granted, Acquiring, Counted
  <2>2. \A v \in WaitQueues : v # m => Owners(v)' = Owners(v)
    BY <1>7 DEF Owners
  <2>3. Owners(m)' = {current}
    BY <1>3, <1>7, <2>1 DEF Owners
  <2> QED BY <2>1, <2>2, <2>3
<1>9. CallsWait'
  BY <1>1, <1>2, <1>3, <1>5 DEF CallsWait, MutexTypes
<1>10. ResultsRight'
  BY <1>1, <1>2 DEF ResultsRight
<1>11. OwnerHolds'
  <2>1. \A t \in Threads : m \notin owns[t]
    BY <1>8 DEF Owners
  <2>2. \A v \in WaitQueues : holder'[v] = IF v = m THEN current ELSE holder[v]
    BY <1>1, <1>5 DEF MutexTypes
  <2> QED BY <1>1, <1>2, <1>7, <2>1, <2>2 DEF OwnerHolds
<1>12. OneHolder'
  BY <1>1, <1>2, <1>8 DEF OneHolder
<1>13. Counts'
  <2>1. \A v \in WaitQueues : count'[v] = IF v = m THEN 1 ELSE count[v]
    BY <1>1, <1>5 DEF MutexTypes
  <2>2. Cardinality(Counted(m)') = 1
    <3>1. Counted(m)' = {current}
      BY <1>8 DEF Counted
    <3> QED BY <3>1, FS_Singleton
  <2>3. \A v \in WaitQueues : v # m => Counted(v)' = Counted(v)
    BY <1>8 DEF Counted
  <2> QED BY <1>1, <1>2, <2>1, <2>2, <2>3 DEF Counts
<1> QED BY <1>2, <1>6, <1>9, <1>10, <1>11, <1>12, <1>13 DEF MInv

\* An acquire that has to wait counts its thread in.
LEMMA WaitMInv ==
    ASSUME MInv, NEW m \in WaitQueues, NEW d \in Timeouts \cup {None},
           magic[m], m \notin owns[current],
           count' = [count EXCEPT ![m] = @ + 1],
           wait_queue_block(m, d),
           call' = [call EXCEPT ![current] =
                      [mutex |-> m, fn |-> IF d = None THEN "acquire" ELSE "acquire_timeout"]],
           UNCHANGED <<holder, owns, magic>>
    PROVE  MInv'
<1>1. /\ KInv /\ MutexTypes /\ CallsWait /\ ResultsRight
      /\ OwnerHolds /\ OneHolder /\ Counts /\ Calls
  BY DEF MInv, wait_queue_block
<1>2. KInv'
  <2>1. KernelNext
    BY DEF KernelNext, WaitCall
  <2> QED BY <1>1, <2>1, KernelKeeps
<1>3. /\ current \in Threads /\ call[current] = NoCall /\ waking = None
      /\ \A v \in WaitQueues : call[current].mutex # v
  BY <1>1, ClientIsFree
<1>4. /\ UNCHANGED waking
      /\ \A t \in Threads :
            /\ state'[t] = "BLOCKED" <=> t = current \/ state[t] = "BLOCKED"
            /\ pc'[t] = IF t = current THEN "block" ELSE pc[t]
            /\ blockRet'[t] = IF t = current THEN "NO_ERROR" ELSE blockRet[t]
            /\ blockedOn'[t] = IF t = current THEN m ELSE blockedOn[t]
      /\ \A e \in ToSet(timers') : e \in ToSet(timers) \/ (e.thread = current /\ d # None)
  BY <1>1, BlockShape
<1> DEFINE c == [mutex |-> m, fn |-> IF d = None THEN "acquire" ELSE "acquire_timeout"]
<1>5. /\ c \in MutexCalls /\ c # NoCall /\ c.mutex = m
      /\ c.fn = IF d = None THEN "acquire" ELSE "acquire_timeout"
  BY ConstantTypes DEF MutexCalls, NoCall
<1>6. call' = [call EXCEPT ![current] = c]
  OBVIOUS
<1> HIDE DEF c
<1>7. \A t \in Threads : call'[t] = IF t = current THEN c ELSE call[t]
  BY <1>1, <1>6 DEF MutexTypes
<1>8. MutexTypes'
  <2>1. call' \in [Threads -> MutexCalls \cup {NoCall}]
    BY <1>1, <1>5, <1>6 DEF MutexTypes
  <2> QED BY <1>1, <2>1 DEF MutexTypes
<1>9. CallsWait'
  BY <1>1, <1>3, <1>4, <1>5, <1>7 DEF CallsWait
<1>10. ResultsRight'
  <2>1. ASSUME NEW e \in ToSet(timers'), e.cb = "timeout"
        PROVE  call'[e.thread].fn # "acquire"
    <3>1. timers' \in Seq(TimerEntries) /\ timers \in Seq(TimerEntries)
      BY <1>1, <1>2 DEF KInv, IInv, TypeOK
    <3>2. e.thread \in Threads
      BY <3>1, QueuedTimers
    <3>3. CASE e \in ToSet(timers)
      <4>1. e.thread # current
        BY <1>1, <3>3, CallerHasNoTimer
      <4> QED BY <1>1, <1>7, <2>1, <3>2, <3>3, <4>1 DEF ResultsRight
    <3>4. CASE e.thread = current /\ d # None
      BY <1>5, <1>7, <3>2, <3>4
    <3> QED BY <1>4, <3>3, <3>4
  <2>2. \A t \in Threads :
           /\ call'[t].fn = "acquire" => blockRet'[t] # "ERR_TIMED_OUT"
           /\ call'[t] # NoCall /\ state'[t] # "BLOCKED"
              /\ blockRet'[t] = "ERR_OBJECT_DESTROYED" => ~ magic[call'[t].mutex]
    BY <1>1, <1>4, <1>7 DEF ResultsRight
  <2> QED BY <1>3, <1>4, <2>1, <2>2 DEF ResultsRight
<1>11. OwnerHolds'
  BY <1>1 DEF OwnerHolds
<1>12. OneHolder'
  <2>1. \A v \in WaitQueues, t \in Threads : t \in Granted(v)' => t \in Granted(v)
    BY <1>1, <1>2, <1>4, <1>7, <1>8, <1>9, GrantedAre
  <2>2. \A v \in WaitQueues : Granted(v)' \subseteq Granted(v) /\ Owners(v)' = Owners(v)
    BY <2>1 DEF Granted, Acquiring, Owners
  <2> QED BY <1>1, <2>2 DEF OneHolder
<1>13. Counts'
  <2>1. \A v \in WaitQueues : count'[v] = IF v = m THEN count[v] + 1 ELSE count[v]
    BY <1>1 DEF MutexTypes
  <2>2. /\ Counted(m)' = Counted(m) \cup {current} /\ current \notin Counted(m)
        /\ \A v \in WaitQueues : v # m => Counted(v)' = Counted(v)
    BY <1>3, <1>5, <1>7 DEF Counted, Owners, Acquiring
  <2>3. Cardinality(Counted(m)') = Cardinality(Counted(m)) + 1
    BY <2>2, CountedFinite, FS_AddElement
  <2> QED BY <1>1, <2>1, <2>2, <2>3 DEF Counts
<1> QED BY <1>2, <1>8, <1>9, <1>10, <1>11, <1>12, <1>13 DEF MInv

\* What is known when a thread comes back from its wait in an acquire.
LEMMA BackInAcquire ==
    ASSUME MInv, return_from_block, UNCHANGED magic,
           call' = [call EXCEPT ![current] = NoCall],
           owns' = owns \/ owns' = [owns EXCEPT ![current] = @ \cup {call[current].mutex}]
    PROVE  /\ KInv' /\ CallsWait' /\ ResultsRight'
           /\ current \in Threads /\ call[current] # NoCall
           /\ call[current].mutex \in WaitQueues
           /\ current \notin Owners(call[current].mutex)
           /\ blockRet[current] = "NO_ERROR" => current \in Granted(call[current].mutex)
           /\ blockRet[current] = "ERR_OBJECT_DESTROYED" => ~ magic[call[current].mutex]
           /\ blockRet[current] = "ERR_TIMED_OUT" => call[current].fn # "acquire"
           /\ call' \in [Threads -> MutexCalls \cup {NoCall}]
           /\ \A v \in WaitQueues : /\ Acquiring(v)' = Acquiring(v) \ {current}
                                    /\ Granted(v)' = Granted(v) \ {current}
           /\ \A v \in WaitQueues : v # call[current].mutex =>
                 current \notin Acquiring(v) /\ Acquiring(v)' = Acquiring(v)
<1> DEFINE m == call[current].mutex
<1>1. /\ KInv /\ MutexTypes /\ CallsWait /\ ResultsRight
  BY DEF MInv
<1>2. KInv'
  <2>1. KernelNext
    BY DEF KernelNext, ReturnStep
  <2> QED BY <1>1, <2>1, KernelKeeps
<1>3. /\ current \in Threads /\ pc[current] = "block" /\ waking = None
      /\ state[current] = "RUNNING"
      /\ \A t \in Threads : pc'[t] = IF t = current THEN "run" ELSE pc[t]
      /\ \A e \in ToSet(timers') : e \in ToSet(timers)
      /\ state' = state /\ blockRet' = blockRet /\ blockedOn' = blockedOn
      /\ waking' = waking
  BY <1>1, ReturnShape DEF waitVars
<1>4. call[current] # NoCall /\ current \notin Owners(m)
  BY <1>1, <1>3 DEF CallsWait, Owners
<1>5. m \in WaitQueues /\ None \notin WaitQueues
  BY <1>1, <1>3, <1>4, CallTypes, ConstantTypes
<1>6. /\ call' \in [Threads -> MutexCalls \cup {NoCall}]
      /\ \A t \in Threads : call'[t] = IF t = current THEN NoCall ELSE call[t]
  BY <1>1, <1>3 DEF MutexTypes
<1>7. /\ blockRet[current] = "NO_ERROR" => current \in Granted(m)
      /\ blockRet[current] = "ERR_OBJECT_DESTROYED" => ~ magic[m]
      /\ blockRet[current] = "ERR_TIMED_OUT" => call[current].fn # "acquire"
  BY <1>1, <1>3, <1>4 DEF Granted, Acquiring, ResultsRight
<1>8. CallsWait'
  <2>1. /\ NoCall.mutex = None /\ \A t \in Threads : None \notin owns'[t]
        /\ \A t \in Threads : t # current => owns'[t] = owns[t]
    BY <1>1, <1>3, <1>5 DEF NoCall, MutexTypes
  <2> QED BY <1>1, <1>3, <1>6, <2>1 DEF CallsWait
<1>9. ResultsRight'
  <2>1. NoCall.fn = "none"
    BY DEF NoCall
  <2>2. \A e \in ToSet(timers) : e.thread \in Threads
    BY <1>1, QueuedTimers DEF KInv, IInv, TypeOK
  <2>3. \A e \in ToSet(timers') : e.cb = "timeout" => call'[e.thread].fn # "acquire"
    BY <1>1, <1>3, <1>6, <2>1, <2>2 DEF ResultsRight
  <2>4. \A t \in Threads :
           /\ call'[t].fn = "acquire" => blockRet'[t] # "ERR_TIMED_OUT"
           /\ call'[t] # NoCall /\ state'[t] # "BLOCKED"
              /\ blockRet'[t] = "ERR_OBJECT_DESTROYED" => ~ magic[call'[t].mutex]
    BY <1>1, <1>3, <1>6, <2>1 DEF ResultsRight
  <2> QED BY <1>3, <2>3, <2>4 DEF ResultsRight
<1>10. \A v \in WaitQueues : /\ Acquiring(v)' = Acquiring(v) \ {current}
                             /\ Granted(v)' = Granted(v) \ {current}
  <2>1. \A v \in WaitQueues : NoCall.mutex # v
    BY <1>5 DEF NoCall
  <2>2. \A v \in WaitQueues : Acquiring(v)' = Acquiring(v) \ {current}
    BY <1>6, <2>1 DEF Acquiring
  <2> QED BY <1>3, <2>2 DEF Granted
<1>11. ASSUME NEW v \in WaitQueues, v # m
       PROVE  current \notin Acquiring(v) /\ Acquiring(v)' = Acquiring(v)
  <2>1. current \notin Acquiring(v)
    BY <1>11 DEF Acquiring
  <2>2. Acquiring(v)' = Acquiring(v) \ {current}
    BY <1>10
  <2> QED BY <2>1, <2>2
<1> QED BY <1>2, <1>3, <1>4, <1>5, <1>6, <1>7, <1>8, <1>9, <1>10, <1>11

\* With the mutex: the woken thread was the only one to own it or be woken.
LEMMA TakeGrantedMInv ==
    ASSUME MInv, return_from_block, blockRet[current] = "NO_ERROR",
           call' = [call EXCEPT ![current] = NoCall],
           Take(call[current].mutex), UNCHANGED <<count, magic>>
    PROVE  MInv'
<1>0. PICK m \in WaitQueues : m = call[current].mutex
  BY BackInAcquire DEF Take
<1>1. /\ KInv /\ MutexTypes /\ OwnerHolds /\ OneHolder /\ Counts
  BY DEF MInv
<1>2. /\ KInv' /\ CallsWait' /\ ResultsRight'
      /\ current \in Threads /\ m \in WaitQueues
      /\ current \notin Owners(m) /\ current \in Granted(m)
      /\ call' \in [Threads -> MutexCalls \cup {NoCall}]
      /\ \A v \in WaitQueues : /\ Acquiring(v)' = Acquiring(v) \ {current}
                               /\ Granted(v)' = Granted(v) \ {current}
      /\ \A v \in WaitQueues : v # m => current \notin Acquiring(v)
  BY <1>0, BackInAcquire DEF Take
<1>3. /\ holder' = [holder EXCEPT ![m] = current]
      /\ owns' = [owns EXCEPT ![current] = @ \cup {m}]
      /\ count' = count /\ magic' = magic
  BY <1>0 DEF Take
<1>4. MutexTypes'
  BY <1>1, <1>2, <1>3 DEF MutexTypes
<1>5. /\ \A t \in Threads, v \in WaitQueues :
            v \in owns'[t] <=> v \in owns[t] \/ (t = current /\ v = m)
      /\ \A v \in WaitQueues : holder'[v] = IF v = m THEN current ELSE holder[v]
  BY <1>1, <1>2, <1>3 DEF MutexTypes
<1>6. /\ \A v \in WaitQueues : v # m => Owners(v)' = Owners(v)
      /\ Owners(m)' = Owners(m) \cup {current}
  BY <1>2, <1>5 DEF Owners
<1>7. magic[m] => Owners(m) = {} /\ Granted(m) = {current}
  BY <1>1, <1>2 DEF OneHolder
<1>8. OwnerHolds'
  <2>1. magic[m] => \A t \in Threads : m \notin owns[t]
    BY <1>7 DEF Owners
  <2> QED BY <1>1, <1>3, <1>5, <2>1 DEF OwnerHolds
<1>9. OneHolder'
  BY <1>1, <1>2, <1>3, <1>6, <1>7 DEF OneHolder
<1>10. Counts'
  <2>1. \A v \in WaitQueues : Counted(v)' = Counted(v)
    <3>1. current \in Acquiring(m)
      BY <1>2 DEF Granted
    <3> QED BY <1>2, <1>6, <3>1 DEF Counted
  <2> QED BY <1>1, <1>3, <2>1 DEF Counts
<1> QED BY <1>2, <1>4, <1>8, <1>9, <1>10 DEF MInv

\* Without it, after the timeout: the thread counts itself out again.
LEMMA BackOutMInv ==
    ASSUME MInv, return_from_block, blockRet[current] = "ERR_TIMED_OUT",
           call' = [call EXCEPT ![current] = NoCall],
           count' = [count EXCEPT ![call[current].mutex] = @ - 1],
           UNCHANGED <<holder, owns, magic>>
    PROVE  MInv'
<1>0. PICK m \in WaitQueues : m = call[current].mutex
  BY BackInAcquire
<1>1. /\ KInv /\ MutexTypes /\ OwnerHolds /\ OneHolder /\ Counts
  BY DEF MInv
<1>2. /\ KInv' /\ CallsWait' /\ ResultsRight'
      /\ current \in Threads /\ m \in WaitQueues
      /\ current \notin Owners(m)
      /\ call' \in [Threads -> MutexCalls \cup {NoCall}]
      /\ \A v \in WaitQueues : /\ Acquiring(v)' = Acquiring(v) \ {current}
                               /\ Granted(v)' = Granted(v) \ {current}
      /\ \A v \in WaitQueues : v # m => Acquiring(v)' = Acquiring(v)
      /\ current \in Acquiring(m)
  BY <1>0, BackInAcquire DEF Acquiring
<1>3. count' = [count EXCEPT ![m] = @ - 1]
  BY <1>0
<1>4. MutexTypes' /\ OwnerHolds'
  BY <1>1, <1>2, <1>3 DEF MutexTypes, OwnerHolds
<1>5. \A v \in WaitQueues : Owners(v)' = Owners(v)
  BY DEF Owners
<1>6. OneHolder'
  BY <1>1, <1>2, <1>5 DEF OneHolder
<1>7. Counts'
  <2>1. /\ \A v \in WaitQueues : v # m => Counted(v)' = Counted(v)
        /\ Counted(m)' = Counted(m) \ {current} /\ current \in Counted(m)
    <3>1. \A v \in WaitQueues : v # m => Acquiring(v)' = Acquiring(v)
      BY <1>2
    <3>2. Acquiring(m)' = Acquiring(m) \ {current} /\ Owners(m)' = Owners(m)
      BY <1>2, <1>5
    <3> QED BY <1>2, <1>5, <3>1, <3>2 DEF Counted
  <2>2. Cardinality(Counted(m)') = Cardinality(Counted(m)) - 1
    BY <2>1, CountedFinite, FS_RemoveElement
  <2>3. \A v \in WaitQueues : count'[v] = IF v = m THEN count[v] - 1 ELSE count[v]
    BY <1>1, <1>3 DEF MutexTypes
  <2>4. /\ count[m] \in Int /\ Cardinality(Counted(m)) \in Nat
        /\ Cardinality(Threads) \in Nat
    BY <1>1, <1>2, CountedFinite DEF MutexTypes
  <2>5. /\ magic[m] => count'[m] = Cardinality(Counted(m)')
        /\ ~ magic[m] => /\ count'[m] <= 0
                        /\ count'[m] >= Cardinality(Counted(m)') - Cardinality(Threads)
    <3>1. /\ magic[m] => count[m] = Cardinality(Counted(m))
          /\ ~ magic[m] => /\ count[m] <= 0
                          /\ count[m] >= Cardinality(Counted(m)) - Cardinality(Threads)
      BY <1>1, <1>2 DEF Counts
    <3>2. count'[m] = count[m] - 1
      BY <1>2, <2>3
    <3> QED BY <2>2, <2>4, <3>1, <3>2
  <2> QED BY <1>1, <1>2, <2>1, <2>3, <2>5, CountsBut
<1> QED BY <1>2, <1>4, <1>6, <1>7 DEF MInv

\* Without it, because it was destroyed: what becomes of the fields of the
\* mutex no longer matters.
LEMMA DestroyedMInv ==
    ASSUME MInv, return_from_block, blockRet[current] = "ERR_OBJECT_DESTROYED",
           call' = [call EXCEPT ![current] = NoCall],
           holder' \in {holder, [holder EXCEPT ![call[current].mutex] = current]},
           UNCHANGED <<count, owns, magic>>
    PROVE  MInv'
<1>0. PICK m \in WaitQueues : m = call[current].mutex
  BY BackInAcquire
<1>1. /\ KInv /\ MutexTypes /\ OwnerHolds /\ OneHolder /\ Counts
  BY DEF MInv
<1>2. /\ KInv' /\ CallsWait' /\ ResultsRight'
      /\ current \in Threads /\ m \in WaitQueues /\ ~ magic[m]
      /\ current \notin Owners(m) /\ current \in Acquiring(m)
      /\ call' \in [Threads -> MutexCalls \cup {NoCall}]
      /\ \A v \in WaitQueues : /\ Acquiring(v)' = Acquiring(v) \ {current}
                               /\ Granted(v)' = Granted(v) \ {current}
      /\ \A v \in WaitQueues : v # m => Acquiring(v)' = Acquiring(v)
  BY <1>0, BackInAcquire DEF Acquiring
<1>3. holder' \in {holder, [holder EXCEPT ![m] = current]}
  BY <1>0
<1>4. /\ MutexTypes'
      /\ \A v \in WaitQueues : v # m => holder'[v] = holder[v]
  BY <1>1, <1>2, <1>3 DEF MutexTypes
<1>5. OwnerHolds'
  BY <1>1, <1>2, <1>4 DEF OwnerHolds
<1>6. \A v \in WaitQueues : Owners(v)' = Owners(v)
  BY DEF Owners
<1>7. OneHolder'
  BY <1>1, <1>2, <1>6 DEF OneHolder
<1>8. Counts'
  <2>1. /\ \A v \in WaitQueues : v # m => Counted(v)' = Counted(v)
        /\ Counted(m)' = Counted(m) \ {current} /\ current \in Counted(m)
    <3>1. \A v \in WaitQueues : v # m => Acquiring(v)' = Acquiring(v)
      BY <1>2
    <3>2. Acquiring(m)' = Acquiring(m) \ {current} /\ Owners(m)' = Owners(m)
      BY <1>2, <1>6
    <3> QED BY <1>2, <1>6, <3>1, <3>2 DEF Counted
  <2>2. Cardinality(Counted(m)') = Cardinality(Counted(m)) - 1
    BY <2>1, CountedFinite, FS_RemoveElement
  <2>3. /\ count[m] \in Int /\ Cardinality(Counted(m)) \in Nat
        /\ Cardinality(Threads) \in Nat
    BY <1>1, <1>2, CountedFinite DEF MutexTypes
  <2>4. /\ count[m] <= 0
        /\ count[m] >= Cardinality(Counted(m)) - Cardinality(Threads)
    BY <1>1, <1>2 DEF Counts
  <2>5. count'[m] >= Cardinality(Counted(m)') - Cardinality(Threads)
    BY <2>2, <2>3, <2>4
  <2>6. magic' = magic /\ count' = count
    OBVIOUS
  <2> QED BY <1>1, <1>2, <2>1, <2>4, <2>5, <2>6, CountsBut
<1> QED BY <1>2, <1>4, <1>5, <1>7, <1>8 DEF MInv

LEMMA MutexReturnMInv ==
    ASSUME MInv, MutexReturn
    PROVE  MInv'
<1>1. /\ return_from_block /\ UNCHANGED magic
      /\ call' = [call EXCEPT ![current] = NoCall]
      /\ blockRet[current] \in Results
  BY DEF MutexReturn, return_from_acquire, return_from_acquire_timeout,
         MInv, KInv, IInv, TypeOK
<1>2. CASE blockRet[current] = "NO_ERROR"
  <2>1. Take(call[current].mutex) /\ UNCHANGED count
    BY <1>2 DEF MutexReturn, return_from_acquire, return_from_acquire_timeout
  <2> QED BY <1>1, <1>2, <2>1, TakeGrantedMInv
<1>3. CASE blockRet[current] = "ERR_TIMED_OUT"
  <2>1. call[current].fn # "acquire"
    <3>1. owns' = owns
      BY <1>3 DEF MutexReturn, return_from_acquire, return_from_acquire_timeout
    <3> QED BY <1>1, <1>3, <3>1, BackInAcquire
  <2>2. /\ count' = [count EXCEPT ![call[current].mutex] = @ - 1]
        /\ UNCHANGED <<holder, owns>>
    BY <1>3, <2>1 DEF MutexReturn, return_from_acquire, return_from_acquire_timeout
  <2> QED BY <1>1, <1>3, <2>2, BackOutMInv
<1>4. CASE blockRet[current] = "ERR_OBJECT_DESTROYED"
  <2>1. /\ holder' \in {holder, [holder EXCEPT ![call[current].mutex] = current]}
        /\ UNCHANGED <<count, owns>>
    BY <1>4 DEF MutexReturn, return_from_acquire, return_from_acquire_timeout
  <2> QED BY <1>1, <1>4, <2>1, DestroyedMInv
<1> QED BY <1>1, <1>2, <1>3, <1>4 DEF Results

\* A release gives the mutex to nobody, and wakes one waiter to take it: the
\* only one, because the caller was the only owner.
LEMMA ReleaseMInv ==
    ASSUME MInv, NEW m \in WaitQueues, mutex_release(m)
    PROVE  MInv'
<1>1. /\ KInv /\ MutexTypes /\ CallsWait /\ ResultsRight
      /\ OwnerHolds /\ OneHolder /\ Counts /\ Calls
  BY DEF MInv, mutex_release
<1>2. KInv'
  <2>1. [KernelNext]_vars
    BY MutexStepIsKernel DEF MutexNext, MutexStep
  <2> QED BY <1>1, <2>1, KernelKeeps
<1>3. /\ current \in Threads /\ call[current] = NoCall /\ waking = None
      /\ \A v \in WaitQueues : call[current].mutex # v
  BY <1>1, ClientIsFree
<1>4. /\ holder' = [holder EXCEPT ![m] = None]
      /\ count' = [count EXCEPT ![m] = @ - 1]
      /\ owns' = [owns EXCEPT ![current] = @ \ {m}]
      /\ magic' = magic /\ call' = call /\ m \in owns[current]
  BY DEF mutex_release
<1>5. MutexTypes'
  BY <1>1, <1>3, <1>4 DEF MutexTypes
<1>6. \A t \in Threads, v \in WaitQueues :
         v \in owns'[t] <=> v \in owns[t] /\ ~ (t = current /\ v = m)
  BY <1>1, <1>3, <1>4 DEF MutexTypes
<1> DEFINE t == Head(waitq[m])
<1>7. OneWoken(m, "NO_ERROR") \/ UNCHANGED vars
  <2>1. CASE count[m] > 1 /\ waitq[m] # <<>>
    <3>1. TRUE \in BOOLEAN /\ "NO_ERROR" \in Results
      BY DEF Results
    <3>2. wait_queue_wake_one(m, TRUE, "NO_ERROR")
      BY <2>1 DEF mutex_release
    <3> QED BY <1>1, <2>1, <3>1, <3>2, WakeOneShape
  <2>2. CASE ~ (count[m] > 1 /\ waitq[m] # <<>>)
    BY <2>2 DEF mutex_release
  <2> QED BY <2>1, <2>2
<1>8. /\ waking' = waking /\ timers' = timers
      /\ \A u \in Threads : pc'[u] = "block" <=> pc[u] = "block"
      /\ \A u \in Threads : \/ /\ state'[u] = "BLOCKED" <=> state[u] = "BLOCKED"
                               /\ blockRet'[u] = blockRet[u]
                               /\ blockedOn'[u] = blockedOn[u]
                            \/ /\ u = t /\ state'[u] # "BLOCKED" /\ call[u].mutex = m
                               /\ blockRet'[u] = "NO_ERROR"
  BY <1>1, <1>7 DEF OneWoken, CallsWait, vars, schedVars, waitVars
<1> HIDE DEF t
<1>9. CallsWait'
  <2>1. \A u \in Threads : /\ pc'[u] = "block" <=> call'[u] # NoCall
                           /\ state'[u] = "BLOCKED" => blockedOn'[u] = call'[u].mutex
                           /\ call'[u].mutex \notin owns'[u]
    BY <1>1, <1>3, <1>4, <1>8 DEF CallsWait, MutexTypes
  <2> QED BY <2>1 DEF CallsWait
<1>10. ResultsRight'
  BY <1>1, <1>4, <1>8 DEF ResultsRight
<1>11. magic[m] => Owners(m) = {current} /\ Granted(m) = {}
  <2>1. current \in Owners(m) /\ current \notin Granted(m)
    BY <1>3, <1>4 DEF Owners, Granted, Acquiring
  <2> QED BY <1>1, <2>1 DEF OneHolder
<1>12. OwnerHolds'
  <2>1. magic[m] => \A u \in Threads : m \notin owns'[u]
    BY <1>6, <1>11 DEF Owners
  <2>2. \A v \in WaitQueues : holder'[v] = IF v = m THEN None ELSE holder[v]
    BY <1>1, <1>4 DEF MutexTypes
  <2> QED BY <1>1, <1>4, <1>6, <2>1, <2>2, ConstantTypes DEF OwnerHolds
<1>13. OneHolder'
  <2>1. \A v \in WaitQueues, u \in Threads :
           u \in Granted(v)' => u \in Granted(v) \/ (v = m /\ u = t)
    BY <1>1, <1>2, <1>4, <1>5, <1>8, <1>9, GrantedAre
  <2>2. /\ magic[m] => Owners(m)' = {}
        /\ \A v \in WaitQueues : v # m => Owners(v)' = Owners(v)
    BY <1>6, <1>11 DEF Owners
  <2>3. \A v \in WaitQueues : Granted(v)' \subseteq Threads
    BY DEF Granted, Acquiring
  <2>4. magic[m] => \A u \in Owners(m)' \cup Granted(m)' : u = t
    BY <1>11, <2>1, <2>2, <2>3
  <2>5. \A v \in WaitQueues : v # m => Granted(v)' \subseteq Granted(v)
    BY <2>1, <2>3
  <2> QED BY <1>1, <1>4, <2>2, <2>4, <2>5 DEF OneHolder
<1>14. Counts'
  <2>1. \A v \in WaitQueues : Acquiring(v)' = Acquiring(v)
    BY <1>4 DEF Acquiring
  <2>2. \A v \in WaitQueues : v # m => Owners(v)' = Owners(v)
    BY <1>6 DEF Owners
  <2>3. Owners(m)' = Owners(m) \ {current}
    BY <1>3, <1>6 DEF Owners
  <2>4. current \in Owners(m) /\ current \notin Acquiring(m)
    BY <1>3, <1>4 DEF Owners, Acquiring
  <2>5. /\ \A v \in WaitQueues : v # m => Counted(v)' = Counted(v)
        /\ Counted(m)' = Counted(m) \ {current} /\ current \in Counted(m)
    BY <2>1, <2>2, <2>3, <2>4 DEF Counted
  <2>6. Cardinality(Counted(m)') = Cardinality(Counted(m)) - 1
    BY <2>5, CountedFinite, FS_RemoveElement
  <2>7. \A v \in WaitQueues : count'[v] = IF v = m THEN count[v] - 1 ELSE count[v]
    BY <1>1, <1>4 DEF MutexTypes
  <2>8. /\ count[m] \in Int /\ Cardinality(Counted(m)) \in Nat
        /\ Cardinality(Threads) \in Nat
    BY <1>1, CountedFinite DEF MutexTypes
  <2>9. /\ magic[m] => count'[m] = Cardinality(Counted(m)')
        /\ ~ magic[m] => /\ count'[m] <= 0
                        /\ count'[m] >= Cardinality(Counted(m)') - Cardinality(Threads)
    <3>1. /\ magic[m] => count[m] = Cardinality(Counted(m))
          /\ ~ magic[m] => /\ count[m] <= 0
                          /\ count[m] >= Cardinality(Counted(m)) - Cardinality(Threads)
      BY <1>1 DEF Counts
    <3>2. count'[m] = count[m] - 1
      BY <2>7
    <3> QED BY <2>6, <2>8, <3>1, <3>2
  <2> QED BY <1>1, <1>4, <2>5, <2>7, <2>9, CountsBut
<1> QED BY <1>2, <1>5, <1>9, <1>10, <1>12, <1>13, <1>14 DEF MInv

\* A mutex that is destroyed, or the storage of a destroyed one that is
\* initialised again: the invariant asks little of the one and nobody uses the
\* other.
LEMMA DestroyMInv ==
    ASSUME MInv, NEW m \in WaitQueues, mutex_destroy(m)
    PROVE  MInv'
<1>1. /\ KInv /\ MutexTypes /\ CallsWait /\ ResultsRight
      /\ OwnerHolds /\ OneHolder /\ Counts /\ Calls
  BY DEF MInv, mutex_destroy
<1>2. KInv'
  <2>1. [KernelNext]_vars
    BY MutexStepIsKernel DEF MutexNext, MutexStep
  <2> QED BY <1>1, <2>1, KernelKeeps
<1>3. /\ current \in Threads /\ call[current] = NoCall /\ waking = None
      /\ \A v \in WaitQueues : call[current].mutex # v
  BY <1>1, ClientIsFree
<1>4. /\ magic' = [magic EXCEPT ![m] = FALSE]
      /\ count' = [count EXCEPT ![m] = 0]
      /\ owns' = [owns EXCEPT ![current] = @ \ {m}]
      /\ holder' = holder /\ call' = call
  BY DEF mutex_destroy
<1>5. /\ MutexTypes'
      /\ ~ magic'[m]
      /\ \A v \in WaitQueues : /\ v # m => magic'[v] = magic[v]
                               /\ count'[v] = IF v = m THEN 0 ELSE count[v]
      /\ \A t \in Threads, v \in WaitQueues :
            v \in owns'[t] <=> v \in owns[t] /\ ~ (t = current /\ v = m)
      /\ \A t \in Threads : owns'[t] \subseteq owns[t]
  <2>1. MutexTypes'
    BY <1>1, <1>3, <1>4 DEF MutexTypes
  <2>2. ~ magic'[m] /\ \A v \in WaitQueues : v # m => magic'[v] = magic[v]
    BY <1>1, <1>4 DEF MutexTypes
  <2>3. \A v \in WaitQueues : count'[v] = IF v = m THEN 0 ELSE count[v]
    BY <1>1, <1>4 DEF MutexTypes
  <2>4. \A t \in Threads : owns'[t] = IF t = current THEN owns[t] \ {m} ELSE owns[t]
    BY <1>1, <1>3, <1>4 DEF MutexTypes
  <2> QED BY <2>1, <2>2, <2>3, <2>4
<1>6. /\ \A t \in Threads : /\ state'[t] = "BLOCKED" <=> state[t] = "BLOCKED"
                            /\ pc'[t] = pc[t] /\ blockRet'[t] = blockRet[t]
                            /\ blockedOn'[t] = blockedOn[t]
      /\ timers' = timers
      /\ waking' # None => waking'.err = "ERR_OBJECT_DESTROYED" /\ waking'.wait = m
  <2>1. CASE UNCHANGED vars
    BY <1>3, <2>1 DEF vars, schedVars, waitVars
  <2>2. CASE wait_queue_wake_all(m, TRUE, "ERR_OBJECT_DESTROYED")
    <3>1. TRUE \in BOOLEAN /\ "ERR_OBJECT_DESTROYED" \in Results
      BY DEF Results
    <3> QED BY <1>1, <2>2, <3>1, WakeAllShape DEF waitVars
  <2> QED BY <2>1, <2>2 DEF mutex_destroy
<1>7. CallsWait'
  BY <1>1, <1>4, <1>5, <1>6 DEF CallsWait
<1>8. ResultsRight'
  <2>1. \A t \in Threads : call[t] # NoCall => call[t].mutex \in WaitQueues
    BY <1>1, CallTypes
  <2>2. \A t \in Threads :
           /\ call'[t].fn = "acquire" => blockRet'[t] # "ERR_TIMED_OUT"
           /\ call'[t] # NoCall /\ state'[t] # "BLOCKED"
              /\ blockRet'[t] = "ERR_OBJECT_DESTROYED" => ~ magic'[call'[t].mutex]
    BY <1>1, <1>4, <1>5, <1>6, <2>1 DEF ResultsRight
  <2>3. waking' # None => waking'.err = "ERR_OBJECT_DESTROYED" /\ ~ magic'[waking'.wait]
    BY <1>5, <1>6
  <2>4. \A e \in ToSet(timers') : e.cb = "timeout" => call'[e.thread].fn # "acquire"
    BY <1>1, <1>4, <1>6 DEF ResultsRight
  <2> QED BY <2>2, <2>3, <2>4 DEF ResultsRight
<1>9. OwnerHolds'
  BY <1>1, <1>4, <1>5 DEF OwnerHolds
<1>10. /\ \A v \in WaitQueues : v # m => Owners(v)' = Owners(v)
       /\ \A v \in WaitQueues : Acquiring(v)' = Acquiring(v)
  BY <1>4, <1>5 DEF Owners, Acquiring
<1>11. OneHolder'
  <2>1. \A v \in WaitQueues, t \in Threads : t \in Granted(v)' => t \in Granted(v)
    BY <1>1, <1>2, <1>4, <1>5, <1>6, <1>7, GrantedAre
  <2>2. \A v \in WaitQueues : Granted(v)' \subseteq Granted(v)
    BY <2>1 DEF Granted, Acquiring
  <2> QED BY <1>1, <1>5, <1>10, <2>2 DEF OneHolder
<1>12. Counts'
  <2>1. \A v \in WaitQueues : v # m => Counted(v)' = Counted(v)
    BY <1>10 DEF Counted
  <2>2. /\ Cardinality(Counted(m)') \in Nat /\ Cardinality(Threads) \in Nat
        /\ Cardinality(Counted(m)') <= Cardinality(Threads)
    <3>1. IsFiniteSet(Threads) /\ Counted(m)' \in SUBSET Threads
      BY MutexAssumption DEF MutexAssumption, Counted, Owners, Acquiring
    <3>2. IsFiniteSet(Counted(m)') /\ Cardinality(Counted(m)') <= Cardinality(Threads)
      BY <3>1, FS_Subset
    <3> QED BY <3>1, <3>2, FS_CardinalityType
  <2>3. /\ ~ magic'[m] /\ count'[m] <= 0
        /\ count'[m] >= Cardinality(Counted(m)') - Cardinality(Threads)
    BY <1>5, <2>2
  <2> QED BY <1>1, <1>5, <2>1, <2>3, CountsBut
<1> QED BY <1>2, <1>5, <1>7, <1>8, <1>9, <1>11, <1>12 DEF MInv

LEMMA InitialiseMInv ==
    ASSUME MInv, NEW m \in WaitQueues, mutex_init(m)
    PROVE  MInv'
<1>1. /\ KInv /\ MutexTypes /\ CallsWait /\ ResultsRight
      /\ OwnerHolds /\ OneHolder /\ Counts /\ Calls
  BY DEF MInv, mutex_init
<1>2. /\ KInv' /\ UNCHANGED <<state, pc, blockedOn, blockRet, timers, waking>>
      /\ call' = call /\ owns' = owns
  BY <1>1, KernelKeeps DEF vars, schedVars, waitVars, mutex_init
<1>3. /\ magic' = [magic EXCEPT ![m] = TRUE]
      /\ count' = [count EXCEPT ![m] = 0]
      /\ holder' = [holder EXCEPT ![m] = None]
      /\ Acquiring(m) = {} /\ Owners(m) = {} /\ waking = None
  BY <1>1, ClientIsFree DEF mutex_init, Owners
<1>4. /\ MutexTypes'
      /\ \A v \in WaitQueues : /\ v # m => magic'[v] = magic[v]
                               /\ count'[v] = IF v = m THEN 0 ELSE count[v]
                               /\ holder'[v] = IF v = m THEN None ELSE holder[v]
  <2>1. MutexTypes'
    BY <1>1, <1>2, <1>3 DEF MutexTypes
  <2>2. \A v \in WaitQueues : v # m => magic'[v] = magic[v]
    BY <1>1, <1>3 DEF MutexTypes
  <2>3. \A v \in WaitQueues : /\ count'[v] = IF v = m THEN 0 ELSE count[v]
                              /\ holder'[v] = IF v = m THEN None ELSE holder[v]
    BY <1>1, <1>3 DEF MutexTypes
  <2> QED BY <2>1, <2>2, <2>3
<1>5. CallsWait'
  BY <1>1, <1>2 DEF CallsWait
<1>6. ResultsRight'
  <2>1. \A t \in Threads : call[t].mutex # m
    BY <1>3 DEF Acquiring
  <2>2. \A t \in Threads : call[t] # NoCall => call[t].mutex \in WaitQueues
    BY <1>1, CallTypes
  <2>3. \A t \in Threads :
           /\ call'[t].fn = "acquire" => blockRet'[t] # "ERR_TIMED_OUT"
           /\ call'[t] # NoCall /\ state'[t] # "BLOCKED"
              /\ blockRet'[t] = "ERR_OBJECT_DESTROYED" => ~ magic'[call'[t].mutex]
    BY <1>1, <1>2, <1>4, <2>1, <2>2 DEF ResultsRight
  <2> QED BY <1>1, <1>2, <1>3, <2>3 DEF ResultsRight
<1>7. OwnerHolds'
  <2>1. \A t \in Threads : m \notin owns[t]
    BY <1>3 DEF Owners
  <2> QED BY <1>1, <1>2, <1>4, <2>1, ConstantTypes DEF OwnerHolds
<1>8. \A v \in WaitQueues : /\ Owners(v)' = Owners(v) /\ Granted(v)' = Granted(v)
                            /\ Counted(v)' = Counted(v)
  BY <1>2 DEF Owners, Granted, Acquiring, Counted
<1>9. OneHolder'
  <2>1. Owners(m) = {} /\ Granted(m) = {}
    BY <1>3 DEF Granted
  <2> QED BY <1>1, <1>4, <1>8, <2>1 DEF OneHolder
<1>10. Counts'
  <2>1. Cardinality(Counted(m)') = 0
    BY <1>3, <1>8, FS_EmptySet DEF Counted
  <2>2. magic'[m] /\ count'[m] = 0
    BY <1>1, <1>3 DEF MutexTypes
  <2> QED BY <1>1, <1>4, <1>8, <2>1, <2>2, CountsBut
<1> QED BY <1>2, <1>4, <1>5, <1>6, <1>7, <1>9, <1>10 DEF MInv

LEMMA MutexKeeps ==
    ASSUME MInv, [MutexNext]_mvars
    PROVE  MInv'
<1>1. CASE UNCHANGED mvars
  <2>1. /\ UNCHANGED vars
        /\ count' = count /\ holder' = holder /\ magic' = magic
        /\ call' = call /\ owns' = owns
    BY <1>1 DEF mvars, mutexVars
  <2>2. KInv'
    BY <2>1, KernelKeeps DEF MInv
  <2>3. UNCHANGED <<state, pc, blockedOn, blockRet, timers, waking>>
    BY <2>1 DEF vars, schedVars, waitVars
  <2>4. MutexTypes' /\ CallsWait' /\ ResultsRight' /\ OwnerHolds'
    BY <2>1, <2>3 DEF MInv, MutexTypes, CallsWait, ResultsRight, OwnerHolds
  <2>5. \A m : /\ Owners(m)' = Owners(m) /\ Granted(m)' = Granted(m)
               /\ Counted(m)' = Counted(m)
    BY <2>1, <2>3 DEF Owners, Granted, Acquiring, Counted
  <2>6. OneHolder' /\ Counts'
    BY <2>1, <2>5 DEF MInv, OneHolder, Counts
  <2> QED BY <2>2, <2>4, <2>6 DEF MInv
<1>2. ASSUME NEW m \in WaitQueues, NEW d \in Timeouts \cup {None}, mutex_acquire(m, d)
      PROVE  MInv'
  <2>1. /\ Calls /\ magic[m] /\ m \notin owns[current]
        /\ count' = [count EXCEPT ![m] = @ + 1] /\ UNCHANGED magic
    BY <1>2 DEF mutex_acquire
  <2>2. CASE count[m] = 0 /\ Take(m) /\ UNCHANGED <<vars, call>>
    <3>1. count' = [count EXCEPT ![m] = 1]
      BY <2>1, <2>2
    <3> QED BY <2>1, <2>2, <3>1, TakeFreeMInv
  <2>3. CASE ~ (count[m] = 0 /\ Take(m) /\ UNCHANGED <<vars, call>>)
    <3>1. /\ wait_queue_block(m, d) /\ UNCHANGED <<holder, owns>>
          /\ call' = [call EXCEPT ![current] =
                        [mutex |-> m, fn |-> IF d = None THEN "acquire"
                                                         ELSE "acquire_timeout"]]
      BY <1>2, <2>3 DEF mutex_acquire
    <3> QED BY <2>1, <3>1, WaitMInv
  <2> QED BY <2>2, <2>3
<1>3. ASSUME NEW m \in WaitQueues, mutex_try(m) PROVE MInv'
  BY <1>3, TakeFreeMInv DEF mutex_try
<1>4. CASE KernelStep
  BY <1>4, MutexStepIsKernel, KernelStepMInv DEF MutexNext, KernelStep
<1> QED BY <1>1, <1>2, <1>3, <1>4, ReleaseMInv, DestroyMInv, InitialiseMInv, MutexReturnMInv
     DEF MutexNext, MutexStep

LEMMA SpecMInv == MutexSpec => []MInv
BY InitMInv, MutexKeeps, PTL DEF MutexSpec

\* Mutual exclusion, and no panic, for every use of mutexes with and without
\* timeouts: the holder of mutex_acquire and mutex_release is the thread whose
\* acquire succeeded.
THEOREM MutualExclusion == MutexSpec => []OwnerHolds
<1>1. MInv => OwnerHolds
  BY DEF MInv
<1> QED BY <1>1, SpecMInv, PTL

\* Every count is accounted for: mutex_acquire_timeout counts itself out again
\* after a timeout, mutex_release for the owner, and nobody twice.
THEOREM CountsCorrect == MutexSpec => []CountInv
<1>1. MInv => CountInv
  <2> SUFFICES ASSUME MInv PROVE CountInv
    OBVIOUS
  <2>1. MutexTypes /\ Counts
    BY DEF MInv
  <2>2. \A m \in WaitQueues : /\ magic[m] => count[m] = Cardinality(Counted(m))
                              /\ count[m] \in -Cardinality(Threads) .. Cardinality(Threads)
    <3> TAKE m \in WaitQueues
    <3>1. /\ Cardinality(Counted(m)) \in Nat /\ Cardinality(Threads) \in Nat
          /\ Cardinality(Counted(m)) <= Cardinality(Threads)
          /\ count[m] \in Int /\ magic[m] \in BOOLEAN
      BY <2>1, CountedFinite DEF MutexTypes
    <3> QED BY <2>1, <3>1 DEF Counts
  <2>3. MutexTypeOK
    BY <2>1, <2>2 DEF MutexTypes, MutexTypeOK
  <2>4. \A m : Counted(m) = {t \in Threads : m \in owns[t]} \cup Acquiring(m)
    BY DEF Counted, Owners
  <2> QED BY <2>2, <2>3, <2>4 DEF CountInv
<1> QED BY <1>1, SpecMInv, PTL

-----------------------------------------------------------------------------
(* Mutexes that nobody acquires with a timeout                             *)

\* A mutex that counts anyone has been taken or is on its way to be: nobody
\* waits at one that nobody will release.
Attended ==
    \A m \in WaitQueues : magic[m] /\ Counted(m) # {} => Owners(m) \cup Granted(m) # {}

LInv == /\ MInv
        /\ \A t \in Threads : call[t].fn # "acquire_timeout"
        /\ Attended

\* The line in front of a mutex starts with its holder, or with the thread that
\* was woken to become it.
FrontsRight ==
    \A m \in WaitQueues :
        /\ ~ magic[m] => InLine(m) = <<>>
        /\ magic[m] =>
              \/ \E t \in Threads :
                    /\ Owners(m) \cup Granted(m) = {t}
                    /\ IF holder[m] = None THEN Granted(m) = {t} /\ Owners(m) = {}
                                           ELSE holder[m] = t /\ Owners(m) = {t} /\ Granted(m) = {}
                    /\ InLine(m) = <<t>> \o waitq[m]
              \/ /\ Owners(m) \cup Granted(m) = {} /\ Counted(m) = {}
                 /\ holder[m] = None /\ waitq[m] = <<>> /\ InLine(m) = <<>>

LEMMA OneElement == \A x : SetToSeq({x}) = <<x>>
<1> TAKE x
<1> DEFINE S == [1 .. Cardinality({x}) -> {x}]
<1>1. Cardinality({x}) = 1
  BY FS_Singleton
<1>2. <<x>> \in S /\ IsInjective(<<x>>)
  BY <1>1 DEF IsInjective
<1>3. \A f \in S : f = <<x>>
  BY <1>1
<1> QED BY <1>2, <1>3 DEF SetToSeq

LEMMA NoElement == SetToSeq({}) = <<>>
<1> DEFINE S == [1 .. Cardinality({}) -> {}]
<1>1. Cardinality({}) = 0
  BY FS_EmptySet
<1>2. <<>> \in S /\ IsInjective(<<>>)
  BY <1>1 DEF IsInjective
<1>3. \A f \in S : f = <<>>
  BY <1>1
<1> QED BY <1>2, <1>3 DEF SetToSeq

\* The waiters at a mutex are counted.
LEMMA WaitersCounted ==
    ASSUME MInv, NEW m \in WaitQueues
    PROVE  /\ waitq[m] \in Seq(Threads) /\ IsInjective(waitq[m])
           /\ \A t \in Threads : t \in ToSet(waitq[m]) <=>
                 call[t].mutex = m /\ state[t] = "BLOCKED"
           /\ \A t \in ToSet(waitq[m]) : t \in Acquiring(m) /\ t \notin Owners(m)
           /\ waitq[m] = <<>> <=> ToSet(waitq[m]) = {}
<1>1. /\ waitq[m] \in Seq(Threads) /\ IsInjective(waitq[m])
      /\ ToSet(waitq[m]) = {t \in Threads : state[t] = "BLOCKED" /\ blockedOn[t] = m}
      /\ CallsWait
  BY DEF MInv, KInv, IInv, TypeOK, WaitQueueInv, WaitQueueOK
<1>2. \A t \in Threads : t \in ToSet(waitq[m]) <=> call[t].mutex = m /\ state[t] = "BLOCKED"
  BY <1>1 DEF CallsWait
<1>3. \A t \in ToSet(waitq[m]) : t \in Acquiring(m) /\ t \notin Owners(m)
  BY <1>1, <1>2 DEF Acquiring, Owners, CallsWait
<1>4. waitq[m] # <<>> => Head(waitq[m]) \in ToSet(waitq[m])
  BY <1>1, PopFront
<1>5. waitq[m] = <<>> => ToSet(waitq[m]) = {}
  BY DEF ToSet
<1> QED BY <1>1, <1>2, <1>3, <1>4, <1>5

LEMMA LInvFronts == LInv => FrontsRight
<1> SUFFICES ASSUME LInv, NEW m \in WaitQueues
             PROVE  /\ ~ magic[m] => InLine(m) = <<>>
                    /\ magic[m] =>
                          \/ \E t \in Threads :
                                /\ Owners(m) \cup Granted(m) = {t}
                                /\ IF holder[m] = None
                                   THEN Granted(m) = {t} /\ Owners(m) = {}
                                   ELSE holder[m] = t /\ Owners(m) = {t} /\ Granted(m) = {}
                                /\ InLine(m) = <<t>> \o waitq[m]
                          \/ /\ Owners(m) \cup Granted(m) = {} /\ Counted(m) = {}
                             /\ holder[m] = None /\ waitq[m] = <<>> /\ InLine(m) = <<>>
  BY DEF FrontsRight
<1>1. /\ MInv /\ MutexTypes /\ OwnerHolds /\ OneHolder /\ CallsWait
  BY DEF LInv, MInv
<1>2. ASSUME ~ magic[m] PROVE InLine(m) = <<>>
  BY <1>2 DEF InLine
<1>3. magic[m] => /\ holder[m] \in Threads \cup {None} /\ None \notin Threads
                  /\ \A t \in Threads : t \in Owners(m) <=> holder[m] = t
                  /\ Owners(m) \cap Granted(m) = {}
                  /\ Owners(m) \subseteq Threads /\ Granted(m) \subseteq Threads
  BY <1>1, ConstantTypes DEF OwnerHolds, MutexTypes, Owners, Granted, Acquiring, CallsWait
<1>4. CASE magic[m] /\ Owners(m) \cup Granted(m) # {}
  <2>1. PICK t \in Threads : Owners(m) \cup Granted(m) = {t}
    BY <1>1, <1>3, <1>4 DEF OneHolder
  <2>2. IF holder[m] = None THEN Granted(m) = {t} /\ Owners(m) = {}
                            ELSE holder[m] = t /\ Owners(m) = {t} /\ Granted(m) = {}
    BY <1>3, <1>4, <2>1
  <2>3. InLine(m) = SetToSeq({t}) \o waitq[m]
    BY <1>4, <2>2 DEF InLine
  <2> QED BY <1>4, <2>1, <2>2, <2>3, OneElement
<1>5. CASE magic[m] /\ Owners(m) \cup Granted(m) = {}
  <2>1. Counted(m) = {}
    BY <1>5 DEF LInv, Attended
  <2>2. holder[m] = None /\ Granted(m) = {}
    BY <1>3, <1>5
  <2>3. waitq[m] = <<>>
    BY <1>1, <2>1, WaitersCounted DEF Counted
  <2>4. InLine(m) = SetToSeq({}) \o waitq[m]
    BY <1>5, <2>2 DEF InLine
  <2>5. InLine(m) = <<>>
    BY <2>3, <2>4, NoElement
  <2> QED BY <1>5, <2>1, <2>2, <2>3, <2>5
<1> QED BY <1>2, <1>4, <1>5

\* In such a use the threads in line are blocked or have the mutex coming.
LEMMA NoOtherResults ==
    ASSUME LInv, NEW m \in WaitQueues, magic[m], NEW t \in Acquiring(m)
    PROVE  t \in Granted(m) \/ t \in ToSet(waitq[m])
<1>1. /\ MInv /\ FrameInv /\ CallsWait /\ ResultsRight /\ MutexTypes
      /\ blockRet \in [Threads -> Results]
  BY DEF LInv, MInv, KInv, IInv, TypeOK
<1>2. t \in Threads /\ call[t].mutex = m /\ call[t] # NoCall
  BY ConstantTypes DEF Acquiring, NoCall
<1>3. call[t].fn = "acquire" /\ state[t] \in {"BLOCKED", "READY", "RUNNING"}
  BY <1>1, <1>2, CallTypes DEF LInv, FrameInv, CallsWait
<1>4. state[t] # "BLOCKED" => blockRet[t] = "NO_ERROR"
  BY <1>1, <1>2, <1>3 DEF ResultsRight, Results
<1> QED BY <1>1, <1>2, <1>3, <1>4, WaitersCounted DEF Granted

\* A step that does nothing to m, or m is destroyed before it and after it.
Untouched(m) ==
    \/ ~ magic[m] /\ ~ magic'[m]
    \/ /\ magic'[m] = magic[m] /\ holder'[m] = holder[m] /\ waitq'[m] = waitq[m]
       /\ Owners(m)' = Owners(m) /\ Acquiring(m)' = Acquiring(m) /\ Granted(m)' = Granted(m)

\* What a call or the return from one does to its mutex m, in the words of the
\* line in front of it: a thread joins, the first one enters or leaves, all
\* leave, or the mutex is made anew.
Joins(m) ==
    /\ magic[m] /\ magic'[m] /\ current \in Threads
    /\ current \notin Counted(m)
    /\ \/ /\ Counted(m) = {}
          /\ holder'[m] = current /\ Owners(m)' = {current} /\ waitq'[m] = waitq[m]
       \/ /\ Counted(m) # {}
          /\ holder'[m] = holder[m] /\ waitq'[m] = Append(waitq[m], current)
          /\ Owners(m)' = Owners(m) /\ Granted(m)' = Granted(m)

Enters(m) ==
    /\ magic[m] /\ magic'[m]
    /\ Granted(m) = {current} /\ Owners(m)' = {current}
    /\ holder'[m] = current /\ waitq'[m] = waitq[m]

Leaves(m) ==
    /\ magic[m] /\ magic'[m]
    /\ Owners(m) = {current} /\ holder'[m] = None
    /\ IF waitq[m] # <<>>
       THEN Granted(m)' = {Head(waitq[m])} /\ waitq'[m] = Tail(waitq[m])
       ELSE Counted(m)' = {} /\ waitq'[m] = <<>>

Renewed(m) ==
    /\ magic'[m] /\ holder'[m] = None
    /\ ~ magic[m] /\ Counted(m)' = {} /\ waitq'[m] = <<>>

LineEffect ==
    \/ \A m \in WaitQueues : Untouched(m)
    \/ \E m \in WaitQueues :
          /\ \A v \in WaitQueues : v # m => Untouched(v)
          /\ Joins(m) \/ Enters(m) \/ Leaves(m) \/ ~ magic'[m] \/ Renewed(m)

\* The kernel between the calls moves nobody in a line.
LEMMA KernelStepEffect ==
    ASSUME Timeouts = {}, LInv, RestStep, UNCHANGED mutexVars
    PROVE  \A m \in WaitQueues : Untouched(m)
<1>1. /\ MInv /\ KInv /\ MutexTypes /\ CallsWait /\ ResultsRight
      /\ waitq \in [WaitQueues -> Seq(Threads)] /\ state \in [Threads -> States]
      /\ blockRet \in [Threads -> Results]
  BY DEF LInv, MInv, KInv, IInv, TypeOK
<1>2. MInv' /\ KInv' /\ MutexTypes' /\ CallsWait'
  <2>1. MInv'
    BY <1>1, KernelStepMInv
  <2> QED BY <2>1 DEF MInv
<1>3. /\ holder' = holder /\ magic' = magic /\ call' = call /\ owns' = owns
  BY DEF mutexVars
<1>4. \A m : Owners(m)' = Owners(m) /\ Acquiring(m)' = Acquiring(m)
  BY <1>3 DEF Owners, Acquiring
<1> DEFINE Stays(m) == /\ waitq'[m] = waitq[m]
                       /\ \A t \in Threads : call[t].mutex = m =>
                             /\ state'[t] = "BLOCKED" <=> state[t] = "BLOCKED"
                             /\ blockRet'[t] = blockRet[t]
<1>5. ASSUME NEW m \in WaitQueues, magic[m] PROVE Stays(m)
  <2>0. \A t \in Threads : call[t].mutex = m => pc[t] = "block"
    BY <1>1, ConstantTypes DEF CallsWait, NoCall
  <2>1. CASE WaitersStay
    BY <2>0, <2>1 DEF WaitersStay
  <2>2. ASSUME NEW u \in Threads, NEW w \in WaitQueues, waking # None, w = waking.wait,
               Released(u, w, waking.err)
        PROVE  Stays(m)
    <3>1. w # m /\ call[u].mutex = w
      BY <1>1, <1>5, <2>2 DEF ResultsRight, Released, CallsWait
    <3>2. /\ waitq'[m] = waitq[m]
          /\ \A t \in Threads : t # u => state'[t] = state[t] /\ blockRet'[t] = blockRet[t]
      BY <1>1, <2>2, <3>1 DEF Released
    <3> QED BY <3>1, <3>2
  <2>3. ASSUME NEW u \in Threads, \E e \in ToSet(timers) : e.thread = u /\ e.cb = "timeout"
        PROVE  FALSE
    <3>1. pc[u] = "block" /\ call[u].fn # "acquire"
      BY <1>1, <2>3 DEF KInv, TimeoutsOf, ResultsRight
    <3> QED BY <1>1, <3>1, CallTypes DEF CallsWait, LInv
  <2> QED BY <1>1, <2>1, <2>2, <2>3, RestStepShape
<1>6. ASSUME NEW m \in WaitQueues, magic[m] PROVE Granted(m)' = Granted(m)
  <2>1. \A t \in Threads : t \in Granted(m)' <=> t \in Granted(m)
    BY <1>1, <1>2, <1>3, <1>5, <1>6, GrantedAre
  <2> QED BY <2>1 DEF Granted, Acquiring
<1> QED BY <1>3, <1>4, <1>5, <1>6 DEF Untouched

LEMMA TakeFreeEffect ==
    ASSUME LInv, Calls, NEW m \in WaitQueues, magic[m], count[m] = 0,
           Take(m), UNCHANGED <<vars, magic, call>>
    PROVE  LineEffect
<1>1. /\ MInv /\ MutexTypes /\ Counts
  BY DEF LInv, MInv
<1>2. /\ UNCHANGED <<state, blockRet, waitq>>
      /\ magic' = magic /\ call' = call /\ current \in Threads
  BY <1>1, ClientIsFree DEF vars, schedVars, waitVars
<1>3. Counted(m) = {}
  BY <1>1, CountedFinite, FS_EmptySet DEF Counts
<1>4. /\ holder' = [holder EXCEPT ![m] = current]
      /\ \A t \in Threads, v \in WaitQueues :
            v \in owns'[t] <=> v \in owns[t] \/ (t = current /\ v = m)
  BY <1>1, <1>2 DEF Take, MutexTypes
<1>5. \A v \in WaitQueues : v # m => Untouched(v)
  <2>1. \A v \in WaitQueues : Acquiring(v)' = Acquiring(v) /\ Granted(v)' = Granted(v)
    BY <1>2 DEF Acquiring, Granted
  <2>2. \A v \in WaitQueues : v # m => Owners(v)' = Owners(v) /\ holder'[v] = holder[v]
    BY <1>1, <1>4 DEF Owners, MutexTypes
  <2> QED BY <1>2, <2>1, <2>2 DEF Untouched
<1>6. Joins(m)
  <2>1. Owners(m) = {} /\ Owners(m)' = {current}
    BY <1>2, <1>3, <1>4 DEF Owners, Counted
  <2>2. holder'[m] = current
    BY <1>1, <1>4 DEF MutexTypes
  <2> QED BY <1>2, <1>3, <2>1, <2>2 DEF Joins
<1> QED BY <1>5, <1>6 DEF LineEffect

LEMMA WaitEffect ==
    ASSUME LInv, NEW m \in WaitQueues, NEW d \in Timeouts \cup {None},
           magic[m], m \notin owns[current], count[m] > 0,
           wait_queue_block(m, d),
           call' = [call EXCEPT ![current] =
                      [mutex |-> m, fn |-> IF d = None THEN "acquire" ELSE "acquire_timeout"]],
           UNCHANGED <<holder, owns, magic>>,
           MInv'
    PROVE  LineEffect
<1>1. /\ MInv /\ KInv /\ MutexTypes /\ CallsWait /\ Counts /\ Calls
      /\ KInv' /\ MutexTypes' /\ CallsWait'
  BY DEF LInv, MInv, wait_queue_block
<1>2. /\ current \in Threads /\ call[current] = NoCall
      /\ \A v \in WaitQueues : call[current].mutex # v
  BY <1>1, ClientIsFree
<1>3. /\ \A t \in Threads :
            /\ state'[t] = "BLOCKED" <=> t = current \/ state[t] = "BLOCKED"
            /\ blockRet'[t] = IF t = current THEN "NO_ERROR" ELSE blockRet[t]
      /\ waitq'[m] = Append(waitq[m], current)
      /\ \A v \in WaitQueues : v # m => waitq'[v] = waitq[v]
  BY <1>1, BlockShape
<1>4. \A t \in Threads : /\ t # current => call'[t] = call[t]
                         /\ call'[current].mutex = m
  BY <1>1, <1>2 DEF MutexTypes
<1>5. \A v : Owners(v)' = Owners(v)
  BY DEF Owners
<1>6. \A v \in WaitQueues : Granted(v)' = Granted(v)
  <2>1. \A v \in WaitQueues, t \in Threads : t \in Granted(v)' <=> t \in Granted(v)
    BY <1>1, <1>2, <1>3, <1>4, GrantedAre
  <2> QED BY <2>1 DEF Granted, Acquiring
<1>7. \A v \in WaitQueues : v # m => Untouched(v)
  <2>1. \A v \in WaitQueues : v # m => Acquiring(v)' = Acquiring(v)
    BY <1>2, <1>4 DEF Acquiring
  <2> QED BY <1>3, <1>5, <1>6, <2>1 DEF Untouched
<1>8. Joins(m)
  <2>1. current \notin Counted(m)
    BY <1>2 DEF Counted, Owners, Acquiring
  <2>2. Counted(m) # {}
    BY <1>1, FS_EmptySet DEF Counts
  <2> QED BY <1>2, <1>3, <1>5, <1>6, <2>1, <2>2 DEF Joins
<1> QED BY <1>7, <1>8 DEF LineEffect

LEMMA ReturnEffect ==
    ASSUME LInv, MutexReturn
    PROVE  LineEffect
<1>0. MInv /\ MutexTypes /\ OneHolder
  BY DEF LInv, MInv
<1>1. /\ return_from_block /\ UNCHANGED magic
      /\ call' = [call EXCEPT ![current] = NoCall]
      /\ blockRet[current] \in Results /\ waitq' = waitq
  BY <1>0 DEF MutexReturn, return_from_acquire, return_from_acquire_timeout,
         MInv, KInv, IInv, TypeOK, return_from_block, LeaveCall, waitVars
<1>2. current \in Threads /\ call[current].fn = "acquire"
  <2>1. current \in Threads /\ call[current] # NoCall
    BY <1>0, <1>1, ReturnShape DEF MInv, CallsWait
  <2> QED BY <1>0, <2>1, CallTypes DEF LInv
<1>3. /\ \/ blockRet[current] = "NO_ERROR" /\ Take(call[current].mutex)
         \/ blockRet[current] # "NO_ERROR" /\ UNCHANGED <<holder, owns>>
  BY <1>2 DEF MutexReturn, return_from_acquire, return_from_acquire_timeout
<1>4. PICK m \in WaitQueues : m = call[current].mutex
  BY <1>0, <1>1, <1>3, BackInAcquire DEF Take
<1>5. /\ current \notin Owners(m)
      /\ blockRet[current] = "NO_ERROR" => current \in Granted(m)
      /\ blockRet[current] # "NO_ERROR" => ~ magic[m]
      /\ \A v \in WaitQueues : v # m => Acquiring(v)' = Acquiring(v)
      /\ \A v \in WaitQueues : v # m => Granted(v)' = Granted(v)
  <2>1. owns' = owns \/ owns' = [owns EXCEPT ![current] = @ \cup {m}]
    BY <1>3, <1>4 DEF Take
  <2>2. \A v \in WaitQueues : v # m => /\ Acquiring(v)' = Acquiring(v)
                                       /\ Granted(v)' = Granted(v) \ {current}
                                       /\ current \notin Acquiring(v)
    BY <1>0, <1>1, <1>4, <2>1, BackInAcquire
  <2>3. \A v \in WaitQueues : v # m => Granted(v)' = Granted(v)
    <3>1. \A v : Granted(v) \subseteq Acquiring(v)
      BY DEF Granted
    <3> QED BY <2>2, <3>1
  <2>4. /\ current \notin Owners(m)
        /\ blockRet[current] = "NO_ERROR" => current \in Granted(m)
        /\ blockRet[current] # "NO_ERROR" => ~ magic[m]
    BY <1>0, <1>1, <1>2, <1>4, <2>1, BackInAcquire DEF Results
  <2> QED BY <2>2, <2>3, <2>4
<1>6. ASSUME NEW v \in WaitQueues, v # m
      PROVE  Untouched(v)
  <2>1. holder'[v] = holder[v] /\ \A t \in Threads : v \in owns'[t] <=> v \in owns[t]
    <3>1. CASE UNCHANGED <<holder, owns>>
      BY <3>1
    <3>2. CASE Take(m)
      BY <1>0, <1>2, <1>6, <3>2 DEF Take, MutexTypes
    <3> QED BY <1>3, <1>4, <3>1, <3>2
  <2>2. Owners(v)' = Owners(v)
    BY <2>1 DEF Owners
  <2> QED BY <1>1, <1>5, <1>6, <2>1, <2>2 DEF Untouched
<1>7. CASE magic[m]
  <2>1. Take(m) /\ current \in Granted(m) /\ magic'[m]
    BY <1>1, <1>3, <1>4, <1>5, <1>7
  <2>2. holder'[m] = current /\ \A t \in Threads : m \in owns'[t] <=> m \in owns[t] \/ t = current
    BY <1>0, <1>2, <2>1 DEF Take, MutexTypes
  <2>3. Owners(m)' = Owners(m) \cup {current}
    BY <1>2, <2>2 DEF Owners
  <2>4. Owners(m) = {} /\ Granted(m) = {current}
    BY <1>0, <1>5, <1>7, <2>1 DEF OneHolder
  <2>5. Enters(m)
    BY <1>1, <1>7, <2>1, <2>2, <2>3, <2>4 DEF Enters
  <2> QED BY <1>6, <2>5 DEF LineEffect
<1>8. CASE ~ magic[m]
  <2>1. ~ magic'[m]
    BY <1>1, <1>8
  <2> QED BY <1>6, <2>1 DEF LineEffect
<1> QED BY <1>7, <1>8

\* The count tells mutex_release whether anybody waits.
LEMMA ReleaseEffect ==
    ASSUME LInv, NEW m \in WaitQueues, mutex_release(m), MInv'
    PROVE  LineEffect
<1>1. /\ MInv /\ KInv /\ MutexTypes /\ CallsWait /\ Counts /\ OneHolder /\ Calls
      /\ KInv' /\ MutexTypes' /\ CallsWait'
  BY DEF LInv, MInv, mutex_release
<1>2. /\ current \in Threads /\ \A v \in WaitQueues : call[current].mutex # v
  BY <1>1, ClientIsFree
<1>3. /\ magic' = magic /\ call' = call /\ m \in owns[current]
      /\ \A v \in WaitQueues : holder'[v] = IF v = m THEN None ELSE holder[v]
      /\ \A t \in Threads, v \in WaitQueues :
           v \in owns'[t] <=> v \in owns[t] /\ ~ (t = current /\ v = m)
  BY <1>1, <1>2 DEF mutex_release, MutexTypes
<1>4. /\ \A v \in WaitQueues : Acquiring(v)' = Acquiring(v)
      /\ \A v \in WaitQueues : v # m => Owners(v)' = Owners(v)
      /\ Owners(m)' = Owners(m) \ {current} /\ current \in Owners(m)
      /\ current \notin Acquiring(m)
  <2>1. \A v \in WaitQueues : Acquiring(v)' = Acquiring(v)
    BY <1>3 DEF Acquiring
  <2>2. \A v \in WaitQueues : v # m => Owners(v)' = Owners(v)
    BY <1>3 DEF Owners
  <2>3. Owners(m)' = Owners(m) \ {current} /\ current \in Owners(m)
    BY <1>2, <1>3 DEF Owners
  <2>4. current \notin Acquiring(m)
    BY <1>2 DEF Acquiring
  <2> QED BY <2>1, <2>2, <2>3, <2>4
<1>5. CASE count[m] > 1 /\ waitq[m] # <<>>
  <2> DEFINE t == Head(waitq[m])
  <2>1. OneWoken(m, "NO_ERROR")
    <3>1. wait_queue_wake_one(m, TRUE, "NO_ERROR")
      BY <1>5 DEF mutex_release
    <3>2. TRUE \in BOOLEAN /\ "NO_ERROR" \in Results
      BY DEF Results
    <3> QED BY <1>1, <1>5, <3>1, <3>2, WakeOneShape
  <2>2. /\ t \in Threads /\ state[t] = "BLOCKED" /\ call[t].mutex = m
        /\ \A u \in Threads :
              /\ state'[u] = "BLOCKED" <=> u # t /\ state[u] = "BLOCKED"
              /\ blockRet'[u] = IF u = t THEN "NO_ERROR" ELSE blockRet[u]
        /\ waitq'[m] = Tail(waitq[m])
        /\ \A v \in WaitQueues : v # m => waitq'[v] = waitq[v]
    BY <1>1, <2>1 DEF OneWoken, CallsWait
  <2> HIDE DEF t
  <2>3. \A v \in WaitQueues, u \in Threads :
           u \in Granted(v)' <=> u \in Granted(v) \/ (v = m /\ u = t)
    BY <1>1, <1>3, <2>2, GrantedAre
  <2>4. \A v \in WaitQueues : v # m => Granted(v)' = Granted(v)
    BY <2>3 DEF Granted, Acquiring
  <2>5. magic[m] => Granted(m) = {} /\ Owners(m) = {current}
    <3>1. current \notin Granted(m)
      BY <1>4 DEF Granted
    <3> QED BY <1>1, <1>4, <3>1 DEF OneHolder
  <2>6. magic[m] => Granted(m)' = {t}
    BY <2>2, <2>3, <2>5 DEF Granted, Acquiring
  <2>7. \A v \in WaitQueues : v # m => Untouched(v)
    BY <1>3, <1>4, <2>2, <2>4 DEF Untouched
  <2>8. magic[m] => Leaves(m)
    BY <1>3, <1>5, <2>2, <2>5, <2>6 DEF Leaves, t
  <2> QED BY <1>3, <2>7, <2>8 DEF LineEffect
<1>6. CASE ~ (count[m] > 1 /\ waitq[m] # <<>>)
  <2>1. /\ waitq' = waitq /\ state' = state /\ blockRet' = blockRet
    BY <1>6 DEF mutex_release, vars, schedVars, waitVars
  <2>2. \A v \in WaitQueues : Granted(v)' = Granted(v)
    BY <1>4, <2>1 DEF Granted
  <2>3. \A v \in WaitQueues : v # m => Untouched(v)
    BY <1>3, <1>4, <2>1, <2>2 DEF Untouched
  <2>4. ASSUME magic[m] PROVE Leaves(m)
    <3>1. Granted(m) = {} /\ Owners(m) = {current}
      <4>1. current \notin Granted(m)
        BY <1>4 DEF Granted
      <4> QED BY <1>1, <1>4, <2>4, <4>1 DEF OneHolder
    <3>2. \A t \in Acquiring(m) : t \in ToSet(waitq[m])
      BY <2>4, <3>1, NoOtherResults
    <3>3. Acquiring(m) # {} => count[m] > 1
      <4>1. count[m] = Cardinality(Counted(m)) /\ count[m] \in Int
        BY <1>1, <2>4 DEF Counts, MutexTypes
      <4>2. current \in Counted(m) /\ Counted(m) \ {current} = Acquiring(m)
        BY <1>4, <3>1 DEF Counted
      <4>3. /\ Cardinality(Acquiring(m)) = count[m] - 1 /\ IsFiniteSet(Acquiring(m))
            /\ Cardinality(Acquiring(m)) \in Nat
        BY <4>1, <4>2, CountedFinite, FS_RemoveElement, FS_CardinalityType
      <4> QED BY <4>1, <4>3, FS_EmptySet
    <3>4. waitq[m] # <<>> => Acquiring(m) # {}
      BY <1>1, WaitersCounted
    <3>5. waitq[m] = <<>> /\ Acquiring(m) = {}
      BY <1>1, <1>6, <3>2, <3>3, <3>4, WaitersCounted
    <3>6. Counted(m)' = {}
      BY <1>4, <3>1, <3>5 DEF Counted
    <3> QED BY <1>3, <2>1, <2>4, <3>1, <3>5, <3>6 DEF Leaves
  <2> QED BY <1>3, <2>3, <2>4 DEF LineEffect
<1> QED BY <1>5, <1>6

LEMMA DestroyEffect ==
    ASSUME LInv, NEW m \in WaitQueues, mutex_destroy(m), MInv'
    PROVE  LineEffect
<1>1. /\ MInv /\ KInv /\ MutexTypes /\ CallsWait
      /\ KInv' /\ MutexTypes' /\ CallsWait' /\ current \in Threads
  BY DEF LInv, MInv, KInv, IInv, TypeOK
<1>2. /\ ~ magic'[m] /\ holder' = holder /\ call' = call
      /\ \A v \in WaitQueues : v # m => magic'[v] = magic[v]
      /\ \A t \in Threads, v \in WaitQueues : v # m => (v \in owns'[t] <=> v \in owns[t])
  BY <1>1 DEF mutex_destroy, MutexTypes
<1>3. /\ \A t \in Threads : /\ state'[t] = "BLOCKED" <=> state[t] = "BLOCKED"
                            /\ blockRet'[t] = blockRet[t]
      /\ waitq' = waitq
  <2>1. CASE UNCHANGED vars
    BY <2>1 DEF vars, schedVars, waitVars
  <2>2. CASE wait_queue_wake_all(m, TRUE, "ERR_OBJECT_DESTROYED")
    <3>1. TRUE \in BOOLEAN /\ "ERR_OBJECT_DESTROYED" \in Results
      BY DEF Results
    <3> QED BY <1>1, <2>2, <3>1, WakeAllShape DEF waitVars
  <2> QED BY <2>1, <2>2 DEF mutex_destroy
<1>4. /\ \A v \in WaitQueues : v # m => Owners(v)' = Owners(v)
      /\ \A v \in WaitQueues : Acquiring(v)' = Acquiring(v)
  BY <1>2 DEF Owners, Acquiring
<1>5. \A v \in WaitQueues : Granted(v)' = Granted(v)
  <2>1. \A v \in WaitQueues, t \in Threads : t \in Granted(v)' <=> t \in Granted(v)
    BY <1>1, <1>2, <1>3, GrantedAre
  <2> QED BY <2>1 DEF Granted, Acquiring
<1>6. \A v \in WaitQueues : v # m => Untouched(v)
  BY <1>2, <1>3, <1>4, <1>5 DEF Untouched
<1> QED BY <1>2, <1>6 DEF LineEffect

LEMMA InitialiseEffect ==
    ASSUME LInv, NEW m \in WaitQueues, mutex_init(m)
    PROVE  LineEffect
<1>1. MInv /\ MutexTypes
  BY DEF LInv, MInv
<1>2. /\ UNCHANGED <<state, blockRet>> /\ waitq' = waitq
      /\ call' = call /\ owns' = owns /\ ~ magic[m]
      /\ Acquiring(m) = {} /\ Owners(m) = {}
  BY DEF vars, schedVars, waitVars, mutex_init, Owners
<1>3. /\ magic'[m] /\ holder'[m] = None
      /\ \A v \in WaitQueues : v # m => magic'[v] = magic[v] /\ holder'[v] = holder[v]
  BY <1>1 DEF mutex_init, MutexTypes
<1>4. \A v : /\ Owners(v)' = Owners(v) /\ Acquiring(v)' = Acquiring(v)
             /\ Granted(v)' = Granted(v) /\ Counted(v)' = Counted(v)
  BY <1>2 DEF Owners, Acquiring, Granted, Counted
<1>5. \A v \in WaitQueues : v # m => Untouched(v)
  BY <1>2, <1>3, <1>4 DEF Untouched
<1>6. Renewed(m)
  <2>1. waitq[m] = <<>>
    BY <1>1, <1>2, WaitersCounted
  <2>2. Counted(m)' = {}
    BY <1>2, <1>4 DEF Counted
  <2> QED BY <1>2, <1>3, <2>1, <2>2 DEF Renewed
<1> QED BY <1>5, <1>6 DEF LineEffect

LEMMA LineEffects ==
    ASSUME Timeouts = {}, LInv, [MutexNext]_mvars
    PROVE  LineEffect
<1>0. MInv /\ MInv'
  BY MutexKeeps DEF LInv
<1>1. CASE UNCHANGED mvars
  <2>1. \A m \in WaitQueues : Untouched(m)
    BY <1>1 DEF mvars, mutexVars, vars, schedVars, waitVars, Untouched, Owners, Acquiring, Granted
  <2> QED BY <2>1 DEF LineEffect
<1>2. ASSUME NEW m \in WaitQueues, NEW d \in Timeouts \cup {None}, mutex_acquire(m, d)
      PROVE  LineEffect
  <2>1. Calls /\ magic[m] /\ m \notin owns[current] /\ UNCHANGED magic
    BY <1>2 DEF mutex_acquire
  <2>2. CASE count[m] = 0 /\ Take(m) /\ UNCHANGED <<vars, call>>
    BY <2>1, <2>2, TakeFreeEffect
  <2>3. CASE ~ (count[m] = 0 /\ Take(m) /\ UNCHANGED <<vars, call>>)
    <3>1. /\ count[m] > 0 /\ wait_queue_block(m, d) /\ UNCHANGED <<holder, owns>>
          /\ call' = [call EXCEPT ![current] =
                        [mutex |-> m, fn |-> IF d = None THEN "acquire"
                                                         ELSE "acquire_timeout"]]
      BY <1>2, <2>3 DEF mutex_acquire
    <3> QED BY <1>0, <2>1, <3>1, WaitEffect
  <2> QED BY <2>2, <2>3
<1>3. ASSUME NEW m \in WaitQueues, mutex_try(m) PROVE LineEffect
  BY <1>3, TakeFreeEffect DEF mutex_try
<1>4. CASE KernelStep
  <2>1. \A m \in WaitQueues : Untouched(m)
    BY <1>4, MutexStepIsKernel, KernelStepEffect DEF MutexNext, KernelStep
  <2> QED BY <2>1 DEF LineEffect
<1> QED BY <1>0, <1>1, <1>2, <1>3, <1>4, ReleaseEffect, DestroyEffect, InitialiseEffect,
           ReturnEffect
     DEF MutexNext, MutexStep

\* Nobody is left waiting at a mutex that nobody has.
LEMMA AttendedStays ==
    ASSUME LInv, LineEffect
    PROVE  Attended'
<1>1. /\ Attended
      /\ \A m \in WaitQueues : /\ Counted(m) = Owners(m) \cup Acquiring(m)
                               /\ Counted(m)' = Owners(m)' \cup Acquiring(m)'
  BY DEF LInv, Counted
<1>2. ASSUME NEW m \in WaitQueues, Untouched(m), magic'[m], Counted(m)' # {}
      PROVE  Owners(m)' \cup Granted(m)' # {}
  BY <1>1, <1>2 DEF Untouched, Attended
<1>3. ASSUME NEW m \in WaitQueues, magic'[m], Counted(m)' # {},
             Joins(m) \/ Enters(m) \/ Leaves(m) \/ Renewed(m)
      PROVE  Owners(m)' \cup Granted(m)' # {}
  BY <1>1, <1>3 DEF Joins, Enters, Leaves, Renewed, Attended
<1>4. \A m \in WaitQueues : \/ Untouched(m) \/ ~ magic'[m]
                            \/ Joins(m) \/ Enters(m) \/ Leaves(m) \/ Renewed(m)
  BY DEF LineEffect
<1> QED BY <1>2, <1>3, <1>4 DEF Attended

LEMMA UntimedCalls ==
    ASSUME Timeouts = {}, LInv, [MutexNext]_mvars
    PROVE  \A t \in Threads : call'[t].fn # "acquire_timeout"
<1>1. /\ call \in [Threads -> MutexCalls \cup {NoCall}] /\ current \in Threads
      /\ \A t \in Threads : call[t].fn # "acquire_timeout"
  BY DEF LInv, MInv, KInv, IInv, TypeOK, MutexTypes
<1>2. ASSUME NEW c, call' = [call EXCEPT ![current] = c], c.fn # "acquire_timeout"
      PROVE  \A t \in Threads : call'[t].fn # "acquire_timeout"
  BY <1>1, <1>2
<1>3. CASE call' = [call EXCEPT ![current] = NoCall]
  <2>1. NoCall.fn # "acquire_timeout"
    BY DEF NoCall
  <2> QED BY <1>2, <1>3, <2>1
<1>4. CASE call' = call
  BY <1>1, <1>4
<1>5. ASSUME NEW m \in WaitQueues, NEW d \in Timeouts \cup {None}, mutex_acquire(m, d),
             call' # call
      PROVE  \A t \in Threads : call'[t].fn # "acquire_timeout"
  <2>1. PICK c : c = [mutex |-> m, fn |-> "acquire"]
    OBVIOUS
  <2>2. call' = [call EXCEPT ![current] = c] /\ c.fn = "acquire"
    BY <1>5, <2>1 DEF mutex_acquire
  <2> QED BY <1>2, <2>2
<1>6. \/ call' = call \/ call' = [call EXCEPT ![current] = NoCall]
      \/ \E m \in WaitQueues, d \in Timeouts \cup {None} : mutex_acquire(m, d)
  BY DEF MutexNext, MutexStep, MutexReturn, KernelStep, mutexVars, mvars, mutex_try,
         mutex_release, mutex_destroy, mutex_init, return_from_acquire,
         return_from_acquire_timeout
<1> QED BY <1>3, <1>4, <1>5, <1>6

LEMMA LInvKeeps ==
    ASSUME Timeouts = {}, LInv, [MutexNext]_mvars
    PROVE  LInv'
BY MutexKeeps, LineEffects, AttendedStays, UntimedCalls DEF LInv

LEMMA InitLInv == MutexInit => LInv
<1> SUFFICES ASSUME MutexInit PROVE LInv
  OBVIOUS
<1>1. /\ MInv /\ call = [t \in Threads |-> NoCall] /\ owns = [t \in Threads |-> {}]
  BY InitMInv DEF MutexInit
<1>2. \A t \in Threads : call[t].fn # "acquire_timeout"
  BY <1>1 DEF NoCall
<1>3. \A m \in WaitQueues : Counted(m) = {}
  BY <1>1, ConstantTypes DEF Counted, Owners, Acquiring, NoCall
<1> QED BY <1>1, <1>2, <1>3 DEF LInv, Attended

LEMMA UntimedLInv == ASSUME Timeouts = {} PROVE MutexSpec => []LInv
<1>1. LInv /\ [MutexNext]_mvars => LInv'
  BY LInvKeeps
<1> QED BY <1>1, InitLInv, PTL DEF MutexSpec

\* Where nobody gives a timeout, nobody waits for a mutex that no thread holds
\* or has been woken to hold: mutex_release wakes a waiter whenever there is one.
THEOREM NobodyStranded == ASSUME Timeouts = {} PROVE MutexSpec => []LineInv
<1>1. LInv => LineInv
  <2> SUFFICES ASSUME LInv PROVE LineInv
    OBVIOUS
  <2>1. MInv /\ OwnerHolds /\ MutexTypes
    BY DEF LInv, MInv
  <2>2. ASSUME NEW m \in WaitQueues, magic[m], waitq[m] # <<>>
        PROVE  holder[m] # None \/ Granted(m) # {}
    <3>1. Owners(m) \cup Granted(m) # {}
      BY <2>1, <2>2, WaitersCounted DEF LInv, Attended, Counted
    <3>2. Owners(m) # {} => holder[m] # None
      BY <2>1, <2>2, ConstantTypes DEF Owners, OwnerHolds
    <3> QED BY <3>1, <3>2
  <2> QED BY <2>1, <2>2 DEF LineInv, WaitersHaveHolder
<1> QED BY <1>1, UntimedLInv, PTL

\* "make sure we dont scribble thread ownership on the mutex": without timeouts
\* only a thread that got the mutex becomes its holder.
THEOREM OwnershipNotScribbled ==
    ASSUME Timeouts = {} PROVE MutexSpec => DestroyedNotScribbled
<1>1. LInv /\ [MutexNext]_mvars =>
         [\A m \in WaitQueues, t \in Threads :
            holder[m] # t /\ holder'[m] = t => m \in owns'[t]]_mvars
  <2> SUFFICES ASSUME LInv, MutexNext, NEW m \in WaitQueues, NEW t \in Threads,
                      holder[m] # t, holder'[m] = t
               PROVE  m \in owns'[t]
    OBVIOUS
  <2>1. /\ MutexTypes /\ current \in Threads /\ None \notin Threads
        /\ \A u \in Threads : call[u].fn # "acquire_timeout"
    BY ConstantTypes DEF LInv, MInv, KInv, IInv, TypeOK
  <2>2. ASSUME NEW v, Take(v) PROVE m \in owns'[t]
    <3>1. v = m /\ t = current
      BY <2>1, <2>2 DEF Take, MutexTypes
    <3> QED BY <2>1, <2>2, <3>1 DEF Take, MutexTypes
  <2>3. ASSUME NEW v, holder' = [holder EXCEPT ![v] = None] PROVE m \in owns'[t]
    BY <2>1, <2>3 DEF MutexTypes
  <2>4. holder' # holder
    OBVIOUS
  <2>5. \/ \E v : Take(v)
        \/ \E v : holder' = [holder EXCEPT ![v] = None]
    BY <2>1, <2>4
       DEF MutexNext, MutexStep, MutexReturn, KernelStep, mutexVars, mutex_acquire,
           mutex_try, mutex_release, mutex_destroy, mutex_init, return_from_acquire,
           return_from_acquire_timeout
  <2> QED BY <2>2, <2>3, <2>5
<1> QED BY <1>1, UntimedLInv, PTL DEF MutexSpec, DestroyedNotScribbled

-----------------------------------------------------------------------------
(* A mutex is a line                                                       *)

\* Whether the first in line has the mutex: the mapping of MutexLine's inside.
Inside(m) == magic[m] /\ holder[m] # None

LEMMA UntouchedLine ==
    ASSUME NEW m, Untouched(m)
    PROVE  InLine(m)' = InLine(m) /\ Inside(m)' = Inside(m)
<1>1. CASE ~ magic[m] /\ ~ magic'[m]
  BY <1>1 DEF InLine, Inside
<1>2. CASE /\ magic'[m] = magic[m] /\ holder'[m] = holder[m]
           /\ waitq'[m] = waitq[m] /\ Granted(m)' = Granted(m)
  BY <1>2 DEF InLine, Inside
<1> QED BY <1>1, <1>2 DEF Untouched

\* What the abstract steps do to the line of one mutex.
LEMMA LineOf ==
    ASSUME LInv, LInv', NEW m \in WaitQueues
    PROVE  /\ Joins(m) => /\ current \in Threads /\ ~ Line!InLine(m, current)
                          /\ InLine(m)' = Append(InLine(m), current)
                          /\ Inside(m)' <=> Inside(m) \/ InLine(m) = <<>>
           /\ Enters(m) => /\ InLine(m) # <<>> /\ ~ Inside(m)
                           /\ InLine(m)' = InLine(m) /\ Inside(m)'
           /\ Leaves(m) => /\ Inside(m) /\ InLine(m)' = Tail(InLine(m)) /\ ~ Inside(m)'
           /\ ~ magic'[m] => InLine(m)' = <<>> /\ ~ Inside(m)'
           /\ Renewed(m) => InLine(m)' = InLine(m) /\ ~ Inside(m) /\ ~ Inside(m)'
<1>1. FrontsRight /\ FrontsRight'
  <2>1. LInv' => FrontsRight'
    BY LInvFronts, PTL
  <2> QED BY <2>1, LInvFronts
<1>2. /\ waitq[m] \in Seq(Threads) /\ waitq'[m] \in Seq(Threads)
      /\ magic[m] \in BOOLEAN /\ magic'[m] \in BOOLEAN
      /\ MInv /\ None \notin Threads
      /\ \A t \in ToSet(waitq[m]) : t \in Acquiring(m)
      /\ waitq[m] = <<>> <=> ToSet(waitq[m]) = {}
  BY WaitersCounted, ConstantTypes DEF LInv, MInv, KInv, IInv, TypeOK, MutexTypes
<1>3. Line!InLine(m, current) <=> \E i \in DOMAIN InLine(m) : InLine(m)[i] = current
  BY DEF Line!InLine
<1>4. ASSUME Joins(m)
      PROVE  /\ current \in Threads /\ ~ Line!InLine(m, current)
             /\ InLine(m)' = Append(InLine(m), current)
             /\ Inside(m)' <=> Inside(m) \/ InLine(m) = <<>>
  <2>1. CASE Counted(m) = {}
    <3>1. /\ magic[m] /\ magic'[m] /\ current \in Threads /\ holder'[m] = current
          /\ waitq'[m] = waitq[m] /\ Owners(m)' = {current}
      BY <1>4, <2>1 DEF Joins
    <3>2. InLine(m) = <<>> /\ waitq[m] = <<>>
      <4>1. Owners(m) \cup Granted(m) = {}
        BY <2>1 DEF Counted, Granted
      <4> QED BY <1>1, <3>1, <4>1 DEF FrontsRight
    <3>3. InLine(m)' = <<current>> \o waitq'[m]
      BY <1>1, <1>2, <3>1 DEF FrontsRight
    <3>4. InLine(m)' = <<current>> /\ Append(InLine(m), current) = <<current>>
      <4>1. \A x \in Threads : <<x>> \o <<>> = <<x>> /\ Append(<<>>, x) = <<x>>
        OBVIOUS
      <4> QED BY <3>1, <3>2, <3>3, <4>1
    <3>5. ~ Line!InLine(m, current)
      BY <1>3, <3>2
    <3>6. Inside(m)'
      BY <1>2, <3>1 DEF Inside
    <3> QED BY <3>1, <3>2, <3>4, <3>5, <3>6
  <2>2. CASE Counted(m) # {}
    <3>1. /\ magic[m] /\ magic'[m] /\ current \in Threads /\ current \notin Counted(m)
          /\ holder'[m] = holder[m] /\ waitq'[m] = Append(waitq[m], current)
          /\ Owners(m)' = Owners(m) /\ Granted(m)' = Granted(m)
      BY <1>4, <2>2 DEF Joins
    <3>2. PICK t \in Threads : /\ Owners(m) \cup Granted(m) = {t}
                               /\ InLine(m) = <<t>> \o waitq[m]
      BY <1>1, <2>2, <3>1 DEF FrontsRight
    <3>3. InLine(m)' = <<t>> \o Append(waitq[m], current)
      <4>1. Owners(m)' \cup Granted(m)' = {t}
        BY <3>1, <3>2
      <4>2. PICK u \in Threads : /\ Owners(m)' \cup Granted(m)' = {u}
                                 /\ InLine(m)' = <<u>> \o waitq'[m]
        <5>1. waitq'[m] # <<>>
          BY <1>2, <3>1
        <5> QED BY <1>1, <3>1, <5>1 DEF FrontsRight
      <4> QED BY <3>1, <4>1, <4>2
    <3>4. t # current /\ \A i \in DOMAIN waitq[m] : waitq[m][i] # current
      <4>1. t \in Counted(m)
        BY <3>2 DEF Counted, Granted
      <4>2. \A u \in ToSet(waitq[m]) : u \in Counted(m)
        BY <1>2 DEF Counted
      <4> QED BY <3>1, <4>1, <4>2 DEF ToSet
    <3>5. \A i \in DOMAIN InLine(m) : InLine(m)[i] # current
      BY <1>2, <3>2, <3>4
    <3>6. /\ InLine(m)' = Append(InLine(m), current) /\ InLine(m) # <<>>
      BY <1>2, <3>1, <3>2, <3>3
    <3> QED BY <1>3, <3>1, <3>5, <3>6 DEF Inside
  <2> QED BY <2>1, <2>2
<1>5. ASSUME Enters(m)
      PROVE  /\ InLine(m) # <<>> /\ ~ Inside(m)
             /\ InLine(m)' = InLine(m) /\ Inside(m)'
  <2>1. /\ magic[m] /\ magic'[m] /\ Granted(m) = {current} /\ Owners(m)' = {current}
        /\ holder'[m] = current /\ waitq'[m] = waitq[m] /\ current \in Threads
    BY <1>5 DEF Enters, LInv, MInv, KInv, IInv, TypeOK
  <2>2. InLine(m) = <<current>> \o waitq[m] /\ holder[m] = None
    BY <1>1, <2>1 DEF FrontsRight
  <2>3. InLine(m)' = <<current>> \o waitq[m]
    BY <1>1, <1>2, <2>1 DEF FrontsRight
  <2> QED BY <1>2, <2>1, <2>2, <2>3 DEF Inside
<1>6. ASSUME Leaves(m)
      PROVE  Inside(m) /\ InLine(m)' = Tail(InLine(m)) /\ ~ Inside(m)'
  <2>1. /\ magic[m] /\ magic'[m] /\ Owners(m) = {current} /\ holder'[m] = None
    BY <1>6 DEF Leaves
  <2>2. InLine(m) = <<current>> \o waitq[m] /\ holder[m] = current /\ holder[m] # None
    <3>1. holder[m] # None
      BY <1>1, <2>1 DEF FrontsRight
    <3> QED BY <1>1, <2>1, <3>1 DEF FrontsRight
  <2>3. InLine(m)' = waitq[m]
    <3>1. CASE waitq[m] # <<>>
      <4>1. Granted(m)' = {Head(waitq[m])} /\ waitq'[m] = Tail(waitq[m])
        BY <1>6, <3>1 DEF Leaves
      <4>2. InLine(m)' = <<Head(waitq[m])>> \o waitq'[m]
        BY <1>1, <2>1, <4>1 DEF FrontsRight
      <4> QED BY <1>2, <3>1, <4>1, <4>2
    <3>2. CASE waitq[m] = <<>>
      <4>1. Counted(m)' = {}
        BY <1>6, <3>2 DEF Leaves
      <4>2. Owners(m)' \cup Granted(m)' = {}
        BY <4>1 DEF Counted, Granted
      <4> QED BY <1>1, <2>1, <3>2, <4>2 DEF FrontsRight
    <3> QED BY <3>1, <3>2
  <2> QED BY <1>2, <2>1, <2>2, <2>3 DEF Inside
<1>7. ~ magic'[m] => InLine(m)' = <<>> /\ ~ Inside(m)'
  BY DEF InLine, Inside
<1>8. ASSUME Renewed(m)
      PROVE  InLine(m)' = InLine(m) /\ ~ Inside(m) /\ ~ Inside(m)'
  <2>1. ~ magic[m] /\ magic'[m] /\ holder'[m] = None /\ Counted(m)' = {}
    BY <1>8 DEF Renewed
  <2>2. Owners(m)' \cup Granted(m)' = {}
    BY <2>1 DEF Counted, Granted
  <2>3. InLine(m)' = <<>>
    BY <1>1, <2>1, <2>2 DEF FrontsRight
  <2> QED BY <2>1, <2>3 DEF InLine, Inside
<1> QED BY <1>4, <1>5, <1>6, <1>7, <1>8

\* Where nobody gives a timeout a mutex is the line of MutexLine: whatever the
\* priorities and the preemptions, mutex_acquire joins it at the end and
\* mutex_release lets the first one out and the next one in.
THEOREM MutexIsLine == ASSUME Timeouts = {} PROVE MutexSpec => LineSpec
<1>1. MutexInit => Line!Init
  <2> SUFFICES ASSUME MutexInit, NEW m \in WaitQueues
               PROVE  InLine(m) = <<>> /\ (magic[m] /\ holder[m] # None) = FALSE
    BY DEF Line!Init
  <2>1. /\ holder[m] = None /\ magic[m] /\ Granted(m) = {} /\ waitq[m] = <<>>
    BY ConstantTypes DEF MutexInit, Granted, Acquiring, NoCall, Init
  <2>2. InLine(m) = SetToSeq({}) \o <<>>
    BY <2>1 DEF InLine
  <2> QED BY <2>1, <2>2, NoElement
<1>2. LInv /\ [MutexNext]_mvars => [Line!Next]_(Line!vars)
  <2> SUFFICES ASSUME LInv, [MutexNext]_mvars PROVE [Line!Next]_(Line!vars)
    OBVIOUS
  <2>1. LInv' /\ LineEffect
    BY LInvKeeps, LineEffects
  <2> DEFINE line == [m \in WaitQueues |-> InLine(m)]
             inside == [m \in WaitQueues |-> magic[m] /\ holder[m] # None]
  <2>2. /\ line' = [m \in WaitQueues |-> InLine(m)']
        /\ inside' = [m \in WaitQueues |-> Inside(m)']
        /\ inside = [m \in WaitQueues |-> Inside(m)]
    BY DEF Inside
  <2>3. CASE \A m \in WaitQueues : Untouched(m)
    <3>1. line' = line /\ inside' = inside
      BY <2>2, <2>3, UntouchedLine
    <3> QED BY <3>1 DEF Line!vars
  <2>4. CASE \E m \in WaitQueues :
                /\ \A v \in WaitQueues : v # m => Untouched(v)
                /\ Joins(m) \/ Enters(m) \/ Leaves(m) \/ ~ magic'[m] \/ Renewed(m)
    <3>1. PICK m \in WaitQueues :
             /\ \A v \in WaitQueues : v # m => Untouched(v)
             /\ Joins(m) \/ Enters(m) \/ Leaves(m) \/ ~ magic'[m] \/ Renewed(m)
      BY <2>4
    <3>2. \A v \in WaitQueues : v # m => InLine(v)' = InLine(v) /\ Inside(v)' = Inside(v)
      BY <3>1, UntouchedLine
    <3>3. /\ line' = [line EXCEPT ![m] = InLine(m)']
          /\ inside' = [inside EXCEPT ![m] = Inside(m)']
      BY <2>2, <3>2
    <3>4. line[m] = InLine(m) /\ inside[m] = Inside(m)
      BY <2>2
    <3>5. CASE Joins(m)
      <4>1. /\ current \in Threads /\ ~ Line!InLine(m, current)
            /\ InLine(m)' = Append(InLine(m), current)
            /\ Inside(m)' <=> Inside(m) \/ InLine(m) = <<>>
        BY <2>1, <3>5, LineOf
      <4>2. PICK t \in Threads : t = current
        BY <4>1
      <4>3. ~ Line!InLine(m, t)
        BY <4>1, <4>2 DEF Line!InLine
      <4>4. Line!Join(m, t)
        BY <3>3, <3>4, <4>1, <4>2, <4>3 DEF Line!Join, Inside
      <4> QED BY <4>4 DEF Line!Next
    <3>6. CASE Enters(m)
      <4>1. /\ InLine(m) # <<>> /\ ~ Inside(m)
            /\ InLine(m)' = InLine(m) /\ Inside(m)'
        BY <2>1, <3>6, LineOf
      <4>2. Line!Enter(m)
        BY <3>3, <3>4, <4>1 DEF Line!Enter
      <4> QED BY <4>2 DEF Line!Next
    <3>7. CASE Leaves(m)
      <4>1. Inside(m) /\ InLine(m)' = Tail(InLine(m)) /\ ~ Inside(m)'
        BY <2>1, <3>7, LineOf
      <4>2. Line!Leave(m)
        BY <3>3, <3>4, <4>1 DEF Line!Leave
      <4> QED BY <4>2 DEF Line!Next
    <3>8. CASE ~ magic'[m]
      <4>1. InLine(m)' = <<>> /\ ~ Inside(m)'
        BY <2>1, <3>8, LineOf
      <4>2. Line!Close(m)
        BY <3>3, <4>1 DEF Line!Close
      <4> QED BY <4>2 DEF Line!Next
    <3>9. CASE Renewed(m)
      <4>1. InLine(m)' = InLine(m) /\ ~ Inside(m) /\ ~ Inside(m)'
        BY <2>1, <3>9, LineOf
      <4>2. line' = line /\ inside' = inside
        BY <3>3, <3>4, <4>1
      <4> QED BY <4>2 DEF Line!vars
    <3> QED BY <3>1, <3>5, <3>6, <3>7, <3>8, <3>9
  <2> QED BY <2>1, <2>3, <2>4 DEF LineEffect
<1> QED BY <1>1, <1>2, UntimedLInv, PTL DEF MutexSpec, LineSpec, Line!Spec

-----------------------------------------------------------------------------
(* Events                                                                   *)

EventTypes ==
    /\ signalled \in [WaitQueues -> BOOLEAN]
    /\ alive \in [WaitQueues -> BOOLEAN]
    /\ waitingAt \in [Threads -> WaitQueues \cup {None}]

\* The threads inside wait_queue_block are those inside event_wait_timeout,
\* each on the queue of the event it waits at.
WaitsAt ==
    \A t \in Threads :
        /\ pc[t] = "block" <=> waitingAt[t] # None
        /\ state[t] = "BLOCKED" => waitingAt[t] = blockedOn[t]

EInv == KInv /\ EventTypes /\ WaitsAt /\ SignalledHasNoWaiters

LEMMA EInvEventInv == EInv => EventInv
BY DEF EInv, EventInv, EventTypeOK, EventTypes, WaitsAt

-----------------------------------------------------------------------------
(* Every step of the kernel under the events                               *)

\* The steps that leave the events alone.
LEMMA EventKernelStepIsRest == EventKernelStep => RestStep
BY DEF EventKernelStep, RestStep

\* What a call of the events is to the kernel.
LEMMA EventStepIsKernel ==
    ASSUME EventNext
    PROVE  [KernelNext]_vars
<1>1. EventKernelStep => KernelNext
  BY EventKernelStepIsRest, RestIsKernelNext
<1>2. return_from_wait => KernelNext
  BY DEF return_from_wait, KernelNext, ReturnStep
<1>3. TRUE \in BOOLEAN /\ "NO_ERROR" \in Results /\ "ERR_OBJECT_DESTROYED" \in Results
  BY DEF Results
<1>4. ASSUME NEW e \in WaitQueues, NEW d \in Timeouts \cup {None}, event_wait_timeout(e, d)
      PROVE  [KernelNext]_vars
  BY <1>4 DEF event_wait_timeout, KernelNext, WaitCall
<1>5. ASSUME NEW e \in WaitQueues, NEW r \in BOOLEAN, event_signal(e, r)
      PROVE  [KernelNext]_vars
  BY <1>3, <1>5 DEF event_signal, KernelNext, WaitCall
<1>6. ASSUME NEW e \in WaitQueues, irq_event_signal(e)
      PROVE  [KernelNext]_vars
  BY <1>3, <1>6 DEF irq_event_signal, KernelNext, IrqCall
<1>7. ASSUME NEW e \in WaitQueues, event_destroy(e)
      PROVE  [KernelNext]_vars
  BY <1>3, <1>7 DEF event_destroy, KernelNext, WaitCall
<1>8. ASSUME NEW e \in WaitQueues, event_unsignal(e) \/ event_init(e)
      PROVE  [KernelNext]_vars
  BY <1>8 DEF event_unsignal, event_init
<1> QED BY <1>1, <1>2, <1>4, <1>5, <1>6, <1>7, <1>8 DEF EventNext, EventStep

\* Nobody waits at an event whose queue is empty, but for threads that have
\* their result already.
LEMMA QueueHoldsWaiters ==
    ASSUME IInv, WaitsAt, NEW e \in WaitQueues
    PROVE  \A t \in Threads : t \in ToSet(waitq[e]) <=>
                              state[t] = "BLOCKED" /\ waitingAt[t] = e
BY DEF IInv, WaitQueueInv, WaitQueueOK, WaitsAt

LEMMA EmptyQueue ==
    ASSUME IInv, NEW w \in WaitQueues
    PROVE  /\ waitq[w] = <<>> <=> \A t \in Threads : t \notin ToSet(waitq[w])
           /\ wcount[w] > 0 <=> waitq[w] # <<>>
<1>1. waitq[w] \in Seq(Threads) /\ wcount[w] = Len(waitq[w])
  BY DEF IInv, TypeOK, WaitQueueInv, WaitQueueOK
<1>2. waitq[w] # <<>> => waitq[w][1] \in Threads /\ waitq[w][1] \in ToSet(waitq[w])
  <2> SUFFICES ASSUME waitq[w] # <<>>
               PROVE  waitq[w][1] \in Threads /\ waitq[w][1] \in ToSet(waitq[w])
    OBVIOUS
  <2>1. 1 \in DOMAIN waitq[w]
    BY <1>1
  <2> QED BY <1>1, <2>1 DEF ToSet
<1>3. waitq[w] = <<>> => ToSet(waitq[w]) = {}
  BY DEF ToSet
<1>4. Len(waitq[w]) > 0 <=> waitq[w] # <<>>
  BY <1>1
<1> QED BY <1>1, <1>2, <1>3, <1>4
-----------------------------------------------------------------------------
(* The invariant                                                           *)

LEMMA InitEInv == EventInit => EInv
<1> SUFFICES ASSUME EventInit PROVE EInv
  OBVIOUS
<1>1. /\ KInv
      /\ signalled = [e \in WaitQueues |-> FALSE] /\ alive = [e \in WaitQueues |-> TRUE]
      /\ waitingAt = [t \in Threads |-> None]
      /\ state = [t \in Threads |-> IF t = Idle THEN "RUNNING"
                                    ELSE IF t \in BootThreads THEN "READY" ELSE "NONE"]
      /\ pc = [t \in Threads |-> IF t = Idle THEN "run" ELSE "fresh"]
  BY InitKInv DEF EventInit, Init
<1>2. EventTypes /\ WaitsAt /\ SignalledHasNoWaiters
  BY <1>1 DEF EventTypes, WaitsAt, SignalledHasNoWaiters
<1> QED BY <1>1, <1>2 DEF EInv

\* Between the calls on events the kernel only releases waiters.
LEMMA RestEInv ==
    ASSUME EInv, RestStep, UNCHANGED eventVars
    PROVE  EInv'
<1>1. /\ KInv' /\ IInv /\ KInv /\ FrameInv
      /\ waitq \in [WaitQueues -> Seq(Threads)]
      /\ state \in [Threads -> States] /\ blockedOn \in [Threads -> WaitQueues \cup {None}]
  BY RestIsKernelNext, KernelKeeps DEF EInv, KInv, IInv, TypeOK
<1>2. UNCHANGED <<signalled, alive, waitingAt>>
  BY DEF eventVars
<1>3. \A t \in Threads : pc'[t] = "block" <=> pc[t] = "block"
  BY <1>1, RestFrames
<1>4. CASE WaitersStay
  <2>1. WaitsAt'
    BY <1>1, <1>2, <1>3, <1>4 DEF EInv, WaitsAt, WaitersStay, FrameInv
  <2>2. SignalledHasNoWaiters'
    BY <1>2, <1>4 DEF EInv, SignalledHasNoWaiters, WaitersStay
  <2> QED BY <1>1, <1>2, <2>1, <2>2 DEF EInv, EventTypes
<1>5. ASSUME NEW t \in Threads, NEW w \in WaitQueues, NEW err, Released(t, w, err),
             waking = None \/ waking.wait = w
      PROVE  EInv'
  <2>1. \A u \in Threads : /\ state'[u] = IF u = t THEN "READY" ELSE state[u]
                           /\ u # t => blockedOn'[u] = blockedOn[u]
    BY <1>1, <1>5 DEF Released
  <2>2. WaitsAt'
    BY <1>1, <1>2, <1>3, <2>1 DEF EInv, WaitsAt
  <2>3. SignalledHasNoWaiters'
    <3>1. t \in ToSet(waitq[w])
      BY <1>1, <1>5 DEF Released, IInv, WaitQueueInv, WaitQueueOK
    <3>2. waitq[w] # <<>>
      BY <1>1, <3>1, EmptyQueue
    <3>3. /\ waking' = waking
          /\ \A v \in WaitQueues : v # w => waitq'[v] = waitq[v]
      BY <1>5 DEF Released
    <3>4. waking = None => ~ signalled[w]
      BY <3>2 DEF EInv, SignalledHasNoWaiters
    <3> QED BY <1>2, <1>5, <3>3, <3>4 DEF EInv, SignalledHasNoWaiters
  <2> QED BY <1>1, <1>2, <2>2, <2>3 DEF EInv, EventTypes
<1>6. CASE \E t \in Threads, w \in WaitQueues :
              \/ waking # None /\ w = waking.wait /\ Released(t, w, waking.err)
              \/ waking = None /\ Released(t, w, "ERR_TIMED_OUT")
  BY <1>5, <1>6
<1> QED BY <1>1, <1>4, <1>6, RestStepShape

\* A thread that is in its own code waits nowhere.
LEMMA CallerWaitsNowhere ==
    ASSUME EInv, Interruptible
    PROVE  /\ current \in Threads /\ waking = None /\ pc[current] = "run"
           /\ waitingAt[current] = None /\ state[current] # "BLOCKED"
<1>1. current \in Threads /\ FrameInv /\ pc[current] = "run" /\ waking = None
  BY DEF EInv, KInv, IInv, TypeOK, Interruptible
<1> QED BY <1>1 DEF EInv, WaitsAt, FrameInv

LEMMA WaitEInv ==
    ASSUME EInv, NEW e \in WaitQueues, NEW d \in Timeouts \cup {None},
           event_wait_timeout(e, d)
    PROVE  EInv'
<1>1. /\ KInv' /\ KInv /\ EventTypes /\ alive' = alive
      /\ current \in Threads /\ waking = None /\ waitingAt[current] = None
  <2>1. [KernelNext]_vars
    BY EventStepIsKernel DEF EventNext, EventStep
  <2>2. Interruptible
    BY DEF event_wait_timeout, Calls
  <2> QED BY <2>1, <2>2, KernelKeeps, CallerWaitsNowhere DEF EInv, event_wait_timeout
<1>2. CASE signalled[e]
  <2>1. /\ signalled' = [signalled EXCEPT ![e] = e \notin Autounsignal]
        /\ UNCHANGED <<pc, state, blockedOn, waitq, waking, waitingAt>>
    BY <1>2 DEF event_wait_timeout, vars, schedVars, waitVars
  <2>2. \A v \in WaitQueues : signalled'[v] => signalled[v]
    BY <1>1, <1>2, <2>1 DEF EventTypes
  <2>3. EventTypes'
    BY <1>1, <2>1 DEF EventTypes
  <2> QED BY <1>1, <2>1, <2>2, <2>3 DEF EInv, WaitsAt, SignalledHasNoWaiters
<1>3. CASE ~ signalled[e]
  <2>1. /\ wait_queue_block(e, d)
        /\ waitingAt' = [waitingAt EXCEPT ![current] = e]
        /\ signalled' = signalled
    BY <1>3 DEF event_wait_timeout
  <2>2. /\ waking' = waking
        /\ \A t \in Threads :
              /\ state'[t] = "BLOCKED" <=> t = current \/ state[t] = "BLOCKED"
              /\ pc'[t] = IF t = current THEN "block" ELSE pc[t]
              /\ blockedOn'[t] = IF t = current THEN e ELSE blockedOn[t]
        /\ \A v \in WaitQueues : v # e => waitq'[v] = waitq[v]
    BY <1>1, <2>1, BlockShape
  <2>3. /\ e # None
        /\ \A t \in Threads : waitingAt'[t] = IF t = current THEN e ELSE waitingAt[t]
    BY <1>1, <2>1, ConstantTypes DEF EventTypes
  <2>4. WaitsAt'
    BY <2>2, <2>3 DEF EInv, WaitsAt
  <2>5. SignalledHasNoWaiters'
    BY <1>1, <1>3, <2>1, <2>2 DEF EInv, SignalledHasNoWaiters
  <2>6. EventTypes'
    BY <1>1, <2>1 DEF EventTypes
  <2> QED BY <1>1, <2>4, <2>5, <2>6 DEF EInv
<1> QED BY <1>2, <1>3
LEMMA ReturnEInv ==
    ASSUME EInv, return_from_wait
    PROVE  EInv'
<1>1. /\ KInv' /\ KInv /\ EventTypes
      /\ UNCHANGED <<signalled, alive>>
      /\ waitingAt' = [waitingAt EXCEPT ![current] = None]
  <2>1. [KernelNext]_vars
    BY EventStepIsKernel DEF EventNext
  <2> QED BY <2>1, KernelKeeps DEF EInv, return_from_wait
<1>2. /\ current \in Threads /\ state[current] = "RUNNING"
      /\ \A t \in Threads : pc'[t] = IF t = current THEN "run" ELSE pc[t]
      /\ UNCHANGED <<state, waitq, blockedOn, waking>>
  BY <1>1, ReturnShape DEF return_from_wait, waitVars
<1>3. \A t \in Threads : waitingAt'[t] = IF t = current THEN None ELSE waitingAt[t]
  BY <1>1 DEF EventTypes
<1>4. EventTypes'
  BY <1>1 DEF EventTypes
<1> QED BY <1>1, <1>2, <1>3, <1>4 DEF EInv, WaitsAt, SignalledHasNoWaiters

\* What waking one waiter and starting to wake all do, with what the signaller
\* does to the event.
LEMMA WokenEInv ==
    ASSUME EInv, KInv', NEW e \in WaitQueues, NEW err, OneWoken(e, err),
           ~ signalled[e], UNCHANGED eventVars
    PROVE  EInv'
<1> PICK t : t = Head(waitq[e])
  OBVIOUS
<1>1. /\ t \in Threads
      /\ \A u \in Threads :
            /\ state'[u] = "BLOCKED" <=> u # t /\ state[u] = "BLOCKED"
            /\ blockedOn'[u] = IF u = t THEN None ELSE blockedOn[u]
            /\ pc'[u] = "block" <=> pc[u] = "block"
      /\ \A v \in WaitQueues : v # e => waitq'[v] = waitq[v]
      /\ waking' = waking
  BY DEF OneWoken
<1>2. UNCHANGED <<signalled, alive, waitingAt>>
  BY DEF eventVars
<1> QED BY <1>1, <1>2 DEF EInv, EventTypes, WaitsAt, SignalledHasNoWaiters

LEMMA WakingEInv ==
    ASSUME EInv, KInv', NEW e \in WaitQueues, NEW b \in BOOLEAN, waking = None,
           waking' # None, waking'.wait = e,
           \A t \in Threads : state'[t] = "BLOCKED" <=> state[t] = "BLOCKED",
           UNCHANGED <<pc, waitVars, waitingAt>>, alive' \in [WaitQueues -> BOOLEAN],
           signalled' = [signalled EXCEPT ![e] = b]
    PROVE  EInv'
<1>1. UNCHANGED <<waitq, blockedOn>>
  BY DEF waitVars
<1>2. /\ \A v \in WaitQueues : v # e => signalled'[v] = signalled[v]
      /\ EventTypes'
  BY DEF EInv, EventTypes
<1> QED BY <1>1, <1>2 DEF EInv, WaitsAt, SignalledHasNoWaiters

LEMMA QuietEInv ==
    ASSUME EInv, UNCHANGED <<vars, waitingAt>>, NEW e \in WaitQueues, NEW b \in BOOLEAN,
           alive' \in [WaitQueues -> BOOLEAN],
           signalled' = [signalled EXCEPT ![e] = b], b => waitq[e] = <<>>
    PROVE  EInv'
<1>1. KInv'
  BY KernelKeeps DEF EInv
<1>2. UNCHANGED <<pc, state, blockedOn, waitq, waking>>
  BY DEF vars, schedVars, waitVars
<1>3. /\ \A v \in WaitQueues : v # e => signalled'[v] = signalled[v]
      /\ signalled'[e] = b
      /\ EventTypes'
  BY DEF EInv, EventTypes
<1> QED BY <1>1, <1>2, <1>3 DEF EInv, WaitsAt, SignalledHasNoWaiters

\* event_signal, whoever calls it.
LEMMA SignalEInv ==
    ASSUME EInv, NEW e \in WaitQueues,
           (\E r \in BOOLEAN : event_signal(e, r)) \/ irq_event_signal(e)
    PROVE  EInv'
<1>1. /\ KInv' /\ KInv /\ EventTypes /\ waking = None
      /\ ~ signalled[e] /\ UNCHANGED <<alive, waitingAt>>
      /\ "NO_ERROR" \in Results /\ TRUE \in BOOLEAN
  <2>1. [KernelNext]_vars
    BY EventStepIsKernel DEF EventNext, EventStep
  <2>2. Interruptible
    BY DEF event_signal, irq_event_signal, Calls
  <2> QED BY <2>1, <2>2, KernelKeeps DEF EInv, Interruptible, Results, event_signal,
                                         irq_event_signal
<1>2. CASE /\ waitq[e] # <<>> /\ UNCHANGED signalled
           /\ \/ \E r \in BOOLEAN : wait_queue_wake_one(e, r, "NO_ERROR")
              \/ irq_wake_one(e, "NO_ERROR")
  <2>1. OneWoken(e, "NO_ERROR")
    BY <1>1, <1>2, WakeOneShape
  <2> QED BY <1>1, <1>2, <2>1, WokenEInv DEF eventVars
<1>3. CASE /\ signalled' = [signalled EXCEPT ![e] = TRUE]
           /\ \/ \E r \in BOOLEAN : wait_queue_wake_all(e, r, "NO_ERROR")
              \/ irq_wake_all(e, "NO_ERROR")
  <2>1. /\ waking' # None /\ waking'.wait = e
        /\ \A t \in Threads : state'[t] = "BLOCKED" <=> state[t] = "BLOCKED"
        /\ UNCHANGED <<pc, waitVars>>
    BY <1>1, <1>3, WakeAllShape
  <2> QED BY <1>1, <1>3, <2>1, WakingEInv DEF EventTypes
<1>4. CASE /\ waitq[e] = <<>> /\ UNCHANGED vars
           /\ signalled' = [signalled EXCEPT ![e] = TRUE]
  BY <1>1, <1>4, QuietEInv DEF EventTypes
<1> QED BY <1>2, <1>3, <1>4 DEF event_signal, irq_event_signal

\* Clearing an event, destroying it, and a new one on its storage.
LEMMA ClearEInv ==
    ASSUME EInv, NEW e \in WaitQueues,
           event_unsignal(e) \/ event_init(e) \/ event_destroy(e)
    PROVE  EInv'
<1>1. /\ KInv' /\ KInv /\ EventTypes /\ waking = None
      /\ alive' \in [WaitQueues -> BOOLEAN] /\ waitingAt' = waitingAt
      /\ signalled' = [signalled EXCEPT ![e] = FALSE]
      /\ "ERR_OBJECT_DESTROYED" \in Results /\ FALSE \in BOOLEAN /\ TRUE \in BOOLEAN
  <2>1. [KernelNext]_vars
    BY EventStepIsKernel DEF EventNext, EventStep
  <2>2. Interruptible
    BY DEF event_unsignal, event_init, event_destroy, Calls
  <2>3. EventTypes
    BY DEF EInv
  <2>4. /\ waitingAt' = waitingAt /\ signalled' = [signalled EXCEPT ![e] = FALSE]
        /\ alive' \in [WaitQueues -> BOOLEAN]
    BY <2>3 DEF EventTypes, event_unsignal, event_init, event_destroy
  <2> QED BY <2>1, <2>2, <2>3, <2>4, KernelKeeps DEF EInv, Interruptible, Results
<1>2. CASE UNCHANGED vars
  BY <1>1, <1>2, QuietEInv
<1>3. CASE wait_queue_wake_all(e, TRUE, "ERR_OBJECT_DESTROYED")
  <2>1. /\ waking' # None /\ waking'.wait = e
        /\ \A t \in Threads : state'[t] = "BLOCKED" <=> state[t] = "BLOCKED"
        /\ UNCHANGED <<pc, waitVars>>
    BY <1>1, <1>3, WakeAllShape
  <2> QED BY <1>1, <2>1, WakingEInv
<1> QED BY <1>2, <1>3 DEF event_unsignal, event_init, event_destroy

LEMMA EInvKeeps == EInv /\ [EventNext]_evars => EInv'
<1> SUFFICES ASSUME EInv, [EventNext]_evars PROVE EInv'
  OBVIOUS
<1>1. CASE UNCHANGED evars
  <2>1. KInv' /\ UNCHANGED <<vars, eventVars>>
    BY <1>1, KernelKeeps DEF EInv, evars
  <2> QED BY <2>1 DEF EInv, EventTypes, WaitsAt, SignalledHasNoWaiters, vars, schedVars,
                      waitVars, eventVars
<1>2. CASE EventKernelStep
  BY <1>2, EventKernelStepIsRest, RestEInv DEF EventKernelStep
<1>3. CASE EventStep
  BY <1>3, WaitEInv, SignalEInv, ClearEInv DEF EventStep
<1> QED BY <1>1, <1>2, <1>3, ReturnEInv DEF EventNext

LEMMA SpecEInv == EventSpec => []EInv
BY InitEInv, EInvKeeps, PTL DEF EventSpec

\* event.c: no wake-up is lost on a waiter.  Whoever signals, waits, gives up
\* or destroys, and wherever interrupts and preemptions come, nobody is left in
\* the queue of an event that is signalled.
THEOREM NoWakeupLost == EventSpec => []EventInv
BY SpecEInv, EInvEventInv, PTL
-----------------------------------------------------------------------------
(* The events keep the rules of EventPromise                               *)

\* Where no wake-up loop is on its way, the results still pending are those of
\* the blocked threads, and the waiters of an event are the threads in its queue.
LEMMA PendingAre ==
    ASSUME EInv, waking = None
    PROVE  /\ \A t \in Threads : ResultOf(t) = "pending" <=>
                                 waitingAt[t] = None \/ state[t] = "BLOCKED"
           /\ \A e \in WaitQueues : Promise!Waiters(e) = ToSet(waitq[e])
<1>1. /\ IInv /\ WaitsAt /\ blockRet \in [Threads -> Results]
      /\ waitq \in [WaitQueues -> Seq(Threads)]
  BY DEF EInv, KInv, IInv, TypeOK
<1>2. \A t \in Threads : blockRet[t] # "pending"
  BY <1>1 DEF Results
<1>3. \A t \in Threads : ResultOf(t) = "pending" <=>
                         waitingAt[t] = None \/ state[t] = "BLOCKED"
  BY <1>2 DEF ResultOf
<1>4. ASSUME NEW e \in WaitQueues PROVE Promise!Waiters(e) = ToSet(waitq[e])
  <2>1. e # None
    BY ConstantTypes
  <2>2. Promise!Waiters(e) = {t \in Threads : waitingAt[t] = e /\ ResultOf(t) = "pending"}
    BY DEF Promise!Waiters
  <2>3. \A t \in Threads : t \in ToSet(waitq[e]) <=> state[t] = "BLOCKED" /\ waitingAt[t] = e
    BY <1>1, QueueHoldsWaiters
  <2>4. ToSet(waitq[e]) \subseteq Threads
    BY <1>1 DEF ToSet
  <2> QED BY <1>3, <2>1, <2>2, <2>3, <2>4
<1> QED BY <1>3, <1>4

\* The results become r for the threads of who, and no other changes.
Tells(who, r) ==
    \A t \in Threads : ResultOf(t)' = IF t \in who THEN r ELSE ResultOf(t)

LEMMA TellsRelease ==
    ASSUME NEW who, NEW r, Tells(who, r)
    PROVE  Promise!Release(who, r)
BY DEF Tells, Promise!Release

LEMMA TellsNobody ==
    ASSUME NEW r, Tells({}, r)
    PROVE  [t \in Threads |-> ResultOf(t)]' = [t \in Threads |-> ResultOf(t)]
<1>1. \A t \in Threads : ResultOf(t)' = ResultOf(t)
  BY DEF Tells
<1> QED BY <1>1

\* A step of the kernel that is no call on an event tells nobody anything, but
\* for the timeouts that expire.
LEMMA RestTells ==
    ASSUME EInv, RestStep, UNCHANGED eventVars
    PROVE  \/ Tells({}, "pending")
           \/ \E t \in Threads : /\ waitingAt[t] # None /\ ResultOf(t) = "pending"
                                 /\ Tells({t}, "ERR_TIMED_OUT")
<1>1. /\ KInv /\ IInv /\ FrameInv /\ WaitsAt
      /\ state \in [Threads -> States] /\ blockRet \in [Threads -> Results]
      /\ waking \in WakeLoops \cup {None} /\ None \notin WaitQueues
  BY ConstantTypes DEF EInv, KInv, IInv, TypeOK
<1>2. waitingAt' = waitingAt
  BY DEF eventVars
<1>3. CASE WaitersStay
  <2>1. \A t \in Threads : waitingAt[t] # None => /\ blockRet'[t] = blockRet[t]
                                                  /\ state'[t] = "BLOCKED" <=> state[t] = "BLOCKED"
    BY <1>1, <1>3 DEF WaitersStay, WaitsAt
  <2>2. CASE waking' = waking
    BY <1>2, <2>1, <2>2 DEF Tells, ResultOf
  <2>3. CASE waking # None /\ waking' = None /\ waitq[waking.wait] = <<>>
    <3>1. waking.wait \in WaitQueues /\ ToSet(waitq[waking.wait]) = {}
      BY <1>1, <2>3 DEF WakeLoops, ToSet
    <3>2. \A t \in Threads : state[t] = "BLOCKED" => waitingAt[t] # waking.wait
      BY <1>1, <3>1, QueueHoldsWaiters
    <3> QED BY <1>2, <2>1, <2>3, <3>2 DEF Tells, ResultOf
  <2> QED BY <1>3, <2>2, <2>3 DEF WaitersStay
<1>4. ASSUME NEW t \in Threads, NEW w \in WaitQueues, NEW err, Released(t, w, err)
      PROVE  /\ waitingAt[t] = w /\ w # None /\ waking' = waking
             /\ state[t] = "BLOCKED" /\ state'[t] = "READY" /\ blockRet'[t] = err
             /\ \A u \in Threads : u # t => state'[u] = state[u] /\ blockRet'[u] = blockRet[u]
  BY <1>1, <1>4 DEF Released, WaitsAt
<1>5. ASSUME NEW t \in Threads, NEW w \in WaitQueues,
             waking # None, w = waking.wait, Released(t, w, waking.err)
      PROVE  Tells({}, "pending")
  BY <1>2, <1>4, <1>5 DEF Tells, ResultOf
<1>6. ASSUME NEW t \in Threads, NEW w \in WaitQueues,
             waking = None, Released(t, w, "ERR_TIMED_OUT")
      PROVE  /\ waitingAt[t] # None /\ ResultOf(t) = "pending"
             /\ Tells({t}, "ERR_TIMED_OUT")
  BY <1>2, <1>4, <1>6 DEF Tells, ResultOf
<1> QED BY <1>1, <1>3, <1>5, <1>6, RestStepShape

\* A wait, a return from a wait, one waiter woken, all waiters woken.
LEMMA BlockTells ==
    ASSUME EInv, NEW e \in WaitQueues, NEW d \in Timeouts \cup {None},
           wait_queue_block(e, d), waitingAt' = [waitingAt EXCEPT ![current] = e]
    PROVE  Tells({}, "pending")
<1>1. /\ current \in Threads /\ waking = None /\ waitingAt[current] = None
      /\ None \notin WaitQueues
  BY CallerWaitsNowhere, ConstantTypes DEF wait_queue_block, Calls
<1>2. /\ waking' = waking
      /\ \A t \in Threads : /\ state'[t] = "BLOCKED" <=> t = current \/ state[t] = "BLOCKED"
                            /\ t # current => blockRet'[t] = blockRet[t]
  BY BlockShape DEF EInv
<1>3. \A t \in Threads : waitingAt'[t] = IF t = current THEN e ELSE waitingAt[t]
  BY DEF EInv, EventTypes
<1> QED BY <1>1, <1>2, <1>3 DEF Tells, ResultOf

LEMMA ReturnTells ==
    ASSUME EInv, return_from_wait
    PROVE  /\ current \in Threads /\ waitingAt[current] # None
           /\ ResultOf(current) # "pending" /\ Tells({current}, "pending")
<1>1. /\ KInv /\ return_from_block /\ waking = None
      /\ waitingAt' = [waitingAt EXCEPT ![current] = None]
  BY DEF EInv, return_from_wait, return_from_block, InCall
<1>2. /\ current \in Threads /\ pc[current] = "block" /\ state[current] = "RUNNING"
      /\ UNCHANGED <<state, blockRet, waking>>
  BY <1>1, ReturnShape DEF waitVars
<1>3. \A t \in Threads : waitingAt'[t] = IF t = current THEN None ELSE waitingAt[t]
  BY <1>1 DEF EInv, EventTypes
<1>4. waitingAt[current] # None
  BY <1>2 DEF EInv, WaitsAt
<1>5. ResultOf(current) # "pending"
  BY <1>1, <1>2, <1>4, PendingAre
<1>6. Tells({current}, "pending")
  BY <1>1, <1>2, <1>3 DEF Tells, ResultOf
<1> QED BY <1>2, <1>4, <1>5, <1>6

LEMMA OneTells ==
    ASSUME EInv, NEW e \in WaitQueues, NEW err, waking = None, OneWoken(e, err),
           waitingAt' = waitingAt
    PROVE  /\ Head(waitq[e]) \in Promise!Waiters(e)
           /\ Tells({Head(waitq[e])}, err)
<1> PICK t : t = Head(waitq[e])
  OBVIOUS
<1>1. /\ t \in Threads /\ state[t] = "BLOCKED" /\ blockedOn[t] = e /\ waking' = waking
      /\ \A u \in Threads :
            /\ state'[u] = "BLOCKED" <=> u # t /\ state[u] = "BLOCKED"
            /\ blockRet'[u] = IF u = t THEN err ELSE blockRet[u]
  BY DEF OneWoken
<1>2. waitingAt[t] = e /\ e # None
  BY <1>1, ConstantTypes DEF EInv, WaitsAt
<1>3. t \in Promise!Waiters(e)
  <2>1. t \in ToSet(waitq[e])
    BY <1>1, <1>2, QueueHoldsWaiters DEF EInv, KInv
  <2> QED BY <2>1, PendingAre
<1>4. Tells({t}, err)
  BY <1>1, <1>2 DEF Tells, ResultOf
<1> QED BY <1>3, <1>4

LEMMA AllTell ==
    ASSUME EInv, NEW e \in WaitQueues, NEW err, waking = None,
           waking' # None, waking'.wait = e, waking'.err = err,
           \A t \in Threads : state'[t] = "BLOCKED" <=> state[t] = "BLOCKED",
           UNCHANGED <<waitVars, waitingAt>>
    PROVE  Tells(Promise!Waiters(e), err)
<1>1. blockRet' = blockRet /\ e # None
  BY ConstantTypes DEF waitVars
<1>2. \A t \in Threads : t \in Promise!Waiters(e) <=> state[t] = "BLOCKED" /\ waitingAt[t] = e
  BY PendingAre, QueueHoldsWaiters DEF EInv, KInv
<1> QED BY <1>1, <1>2 DEF Tells, ResultOf
LEMMA NobodyTold ==
    ASSUME UNCHANGED <<vars, waitingAt>>
    PROVE  \A r : Tells({}, r)
BY DEF Tells, ResultOf, vars, schedVars, waitVars

\* Each call on an event is the step of EventPromise its name says; the start
\* of a loop that wakes all waiters counts as the release of all of them.
LEMMA WaitPromised ==
    ASSUME EInv, NEW e \in WaitQueues, NEW d \in Timeouts \cup {None},
           event_wait_timeout(e, d)
    PROVE  Promise!Next
<1>1. CASE signalled[e]
  <2>1. /\ signalled' = [signalled EXCEPT ![e] = e \notin Autounsignal]
        /\ UNCHANGED <<vars, waitingAt>>
    BY <1>1 DEF event_wait_timeout
  <2>2. [t \in Threads |-> ResultOf(t)]' = [t \in Threads |-> ResultOf(t)]
    BY <2>1, NobodyTold, TellsNobody
  <2>3. Promise!Pass(e)
    BY <1>1, <2>1, <2>2 DEF Promise!Pass
  <2> QED BY <2>3 DEF Promise!Next
<1>2. CASE ~ signalled[e]
  <2>1. /\ wait_queue_block(e, d) /\ signalled' = signalled
        /\ waitingAt' = [waitingAt EXCEPT ![current] = e]
    BY <1>2 DEF event_wait_timeout
  <2>2. [t \in Threads |-> ResultOf(t)]' = [t \in Threads |-> ResultOf(t)]
    BY <2>1, BlockTells, TellsNobody
  <2>3. current \in Threads /\ waitingAt[current] = None
    BY <2>1, CallerWaitsNowhere DEF wait_queue_block, Calls
  <2>4. PICK t \in Threads : t = current
    BY <2>3
  <2>5. Promise!Wait(t, e)
    BY <1>2, <2>1, <2>2, <2>3, <2>4 DEF Promise!Wait
  <2> QED BY <2>5 DEF Promise!Next
<1> QED BY <1>1, <1>2

LEMMA SignalPromised ==
    ASSUME EInv, NEW e \in WaitQueues,
           (\E r \in BOOLEAN : event_signal(e, r)) \/ irq_event_signal(e)
    PROVE  Promise!Next
<1>1. /\ waking = None /\ KInv /\ ~ signalled[e] /\ waitingAt' = waitingAt
      /\ "NO_ERROR" \in Results
  BY DEF EInv, event_signal, irq_event_signal, Calls, Interruptible, Results
<1>2. CASE /\ e \in Autounsignal /\ waitq[e] # <<>> /\ UNCHANGED signalled
           /\ \/ \E r \in BOOLEAN : wait_queue_wake_one(e, r, "NO_ERROR")
              \/ irq_wake_one(e, "NO_ERROR")
  <2>1. OneWoken(e, "NO_ERROR")
    BY <1>1, <1>2, WakeOneShape
  <2>2. PICK t : t = Head(waitq[e])
    OBVIOUS
  <2>3. t \in Promise!Waiters(e) /\ Tells({t}, "NO_ERROR")
    BY <1>1, <2>1, <2>2, OneTells
  <2>4. Promise!Signal(e)
    BY <1>1, <1>2, <2>3, TellsRelease DEF Promise!Signal
  <2> QED BY <2>4 DEF Promise!Next
<1>3. ASSUME e \in Autounsignal => Promise!Waiters(e) = {},
             Tells(Promise!Waiters(e), "NO_ERROR"),
             signalled' = [signalled EXCEPT ![e] = TRUE]
      PROVE  Promise!Next
  <2>1. Promise!Signal(e)
    BY <1>1, <1>3, TellsRelease DEF Promise!Signal
  <2> QED BY <2>1 DEF Promise!Next
<1>4. CASE /\ e \notin Autounsignal /\ signalled' = [signalled EXCEPT ![e] = TRUE]
           /\ \/ \E r \in BOOLEAN : wait_queue_wake_all(e, r, "NO_ERROR")
              \/ irq_wake_all(e, "NO_ERROR")
  <2>1. /\ waking' # None /\ waking'.wait = e /\ waking'.err = "NO_ERROR"
        /\ \A t \in Threads : state'[t] = "BLOCKED" <=> state[t] = "BLOCKED"
        /\ UNCHANGED waitVars
    BY <1>1, <1>4, WakeAllShape
  <2>2. Tells(Promise!Waiters(e), "NO_ERROR")
    BY <1>1, <2>1, AllTell
  <2> QED BY <1>3, <1>4, <2>2
<1>5. CASE /\ waitq[e] = <<>> /\ UNCHANGED vars
           /\ signalled' = [signalled EXCEPT ![e] = TRUE]
  <2>1. Promise!Waiters(e) = {}
    BY <1>1, <1>5, PendingAre DEF ToSet
  <2>2. Tells({}, "NO_ERROR")
    BY <1>1, <1>5, NobodyTold
  <2> QED BY <1>3, <1>5, <2>1, <2>2
<1> QED BY <1>2, <1>4, <1>5 DEF event_signal, irq_event_signal

LEMMA ClearPromised ==
    ASSUME EInv, NEW e \in WaitQueues,
           event_unsignal(e) \/ event_init(e) \/ event_destroy(e)
    PROVE  Promise!Next
<1>1. /\ waking = None /\ KInv /\ waitingAt' = waitingAt
      /\ signalled' = [signalled EXCEPT ![e] = FALSE]
      /\ "ERR_OBJECT_DESTROYED" \in Results /\ TRUE \in BOOLEAN
  <2>1. waking = None /\ waitingAt' = waitingAt
    BY DEF event_unsignal, event_init, event_destroy, Calls, Interruptible
  <2>2. signalled' = [signalled EXCEPT ![e] = FALSE]
    BY DEF event_unsignal, event_init, event_destroy
  <2> QED BY <2>1, <2>2 DEF EInv, Results
<1>2. CASE UNCHANGED vars
  <2>1. [t \in Threads |-> ResultOf(t)]' = [t \in Threads |-> ResultOf(t)]
    BY <1>1, <1>2, NobodyTold, TellsNobody
  <2>2. Promise!Unsignal(e)
    BY <1>1, <2>1 DEF Promise!Unsignal
  <2> QED BY <2>2 DEF Promise!Next
<1>3. CASE wait_queue_wake_all(e, TRUE, "ERR_OBJECT_DESTROYED")
  <2>1. /\ waking' # None /\ waking'.wait = e /\ waking'.err = "ERR_OBJECT_DESTROYED"
        /\ \A t \in Threads : state'[t] = "BLOCKED" <=> state[t] = "BLOCKED"
        /\ UNCHANGED waitVars
    BY <1>1, <1>3, WakeAllShape
  <2>2. Promise!Destroy(e)
    BY <1>1, <2>1, AllTell, TellsRelease DEF Promise!Destroy
  <2> QED BY <2>2 DEF Promise!Next
<1> QED BY <1>2, <1>3 DEF event_unsignal, event_init, event_destroy

\* The events of the kernel keep the rules of events, on any number of threads
\* and with any timeouts: each signal releases one waiter or all, or is kept
\* until somebody passes; a timeout that expires after the signal takes nothing
\* back; a destruction releases everybody.
THEOREM EventsKeepRules == EventSpec => PromiseSpec
<1>1. EventInit => Promise!Init
  BY DEF EventInit, Promise!Init, ResultOf
<1>2. EInv /\ [EventNext]_evars => [Promise!Next]_(Promise!vars)
  <2> SUFFICES ASSUME EInv, [EventNext]_evars PROVE [Promise!Next]_(Promise!vars)
    OBVIOUS
  <2> DEFINE result == [t \in Threads |-> ResultOf(t)]
  <2>1. CASE UNCHANGED evars
    <3>1. UNCHANGED <<vars, waitingAt, signalled>>
      BY <2>1 DEF evars, eventVars
    <3>2. result' = result
      BY <3>1, NobodyTold, TellsNobody
    <3> QED BY <3>1, <3>2 DEF Promise!vars
  <2>2. CASE EventKernelStep
    <3>1. RestStep /\ UNCHANGED eventVars /\ UNCHANGED <<waitingAt, signalled>>
      BY <2>2, EventKernelStepIsRest DEF EventKernelStep, eventVars
    <3>2. CASE Tells({}, "pending")
      <4>1. result' = result
        BY <3>2, TellsNobody
      <4> QED BY <3>1, <4>1 DEF Promise!vars
    <3>3. ASSUME NEW t \in Threads, waitingAt[t] # None, ResultOf(t) = "pending",
                 Tells({t}, "ERR_TIMED_OUT")
          PROVE  Promise!Next
      <4>1. Promise!Expire(t)
        BY <3>1, <3>3, TellsRelease DEF Promise!Expire
      <4> QED BY <4>1 DEF Promise!Next
    <3> QED BY <3>1, <3>2, <3>3, RestTells
  <2>3. CASE EventStep
    BY <2>3, WaitPromised, SignalPromised, ClearPromised DEF EventStep
  <2>4. CASE return_from_wait
    <3>1. /\ current \in Threads /\ waitingAt[current] # None
          /\ ResultOf(current) # "pending" /\ Tells({current}, "pending")
      BY <2>4, ReturnTells
    <3>2. PICK t \in Threads : t = current
      BY <3>1
    <3>3. /\ waitingAt' = [waitingAt EXCEPT ![t] = None] /\ signalled' = signalled
          /\ waitingAt[t] # None /\ result[t] # "pending" /\ Promise!Release({t}, "pending")
      BY <2>4, <3>1, <3>2, TellsRelease DEF return_from_wait
    <3>4. Promise!Return(t)
      BY <3>3 DEF Promise!Return
    <3> QED BY <3>4 DEF Promise!Next
  <2> QED BY <2>1, <2>2, <2>3, <2>4 DEF EventNext
<1> QED BY <1>1, <1>2, SpecEInv, PTL DEF EventSpec, PromiseSpec, Promise!Spec

-----------------------------------------------------------------------------
(* Deferred procedure calls                                                 *)

DpcTypes == dpc_list \in Seq(Threads) /\ dpc \in Threads \cup {None}

\* Only the DPC thread waits, and at its own event.
OnlyDpcWaits ==
    \A t \in Threads :
        waitingAt[t] # None => t = DpcThread /\ waitingAt[t] = dpc_event

DInv == /\ EInv /\ waking = None
        /\ DpcTypes /\ OnlyDpcWaits /\ DeadAreQueued /\ QueuedIsSignalled

LEMMA DpcConstants ==
    DpcThread \in Threads /\ dpc_event \in WaitQueues /\ dpc_event \notin Autounsignal
<1>1. DpcThread \in BootThreads /\ dpc_event \in WaitQueues \ Autounsignal
  BY DpcAssumption DEF DpcAssumption
<1>2. PICK p \in Priorities : DpcThread \in ToSet(BootQueues[p])
  BY <1>1 DEF BootThreads
<1>3. BootQueues[p] \in Seq(Threads)
  BY ConstantTypes
<1>4. DpcThread \in Threads
  BY <1>2, <1>3 DEF ToSet
<1> QED BY <1>1, <1>4

LEMMA InitDInv == DpcInit => DInv
<1> SUFFICES ASSUME DpcInit PROVE DInv
  OBVIOUS
<1>1. /\ EInv /\ waking = None /\ dpc_list = <<>> /\ dpc = None
      /\ waitingAt = [t \in Threads |-> None]
      /\ state = [t \in Threads |-> IF t = Idle THEN "RUNNING"
                                    ELSE IF t \in BootThreads THEN "READY" ELSE "NONE"]
  BY InitEInv DEF DpcInit, EventInit, Init
<1>2. DeadAreQueued
  BY <1>1 DEF DeadAreQueued, IsInjective, ToSet
<1> QED BY <1>1, <1>2 DEF DInv, DpcTypes, OnlyDpcWaits, QueuedIsSignalled

-----------------------------------------------------------------------------
(* The steps of the kernel between the calls                               *)

\* The steps of the kernel under Dpc that let no thread die and free none.
LivingStep ==
    \/ thread_become_idle \/ return_from_resched \/ irq_tick \/ HandlerStep \/ stopped
    \/ thread_yield
    \/ \E t \in Threads : thread_resume(t)
    \/ \E t \in Threads, p \in NewPriorities : thread_create(t, p)

LEMMA LivingIsRest == LivingStep => RestStep
BY DEF LivingStep, RestStep

\* Switching from states in which the same threads are dead.
LEMMA SwitchDeaths ==
    ASSUME IInv, Top, NEW st \in [Threads -> States], NEW q, NEW qn, NEW c,
           thread_resched(st, q, qn, c),
           \A t \in Threads : st[t] = "DEATH" <=> state[t] = "DEATH"
    PROVE  \A t \in Threads : state'[t] = "DEATH" <=> state[t] = "DEATH"
<1>1. state' = [st EXCEPT ![current'] = "RUNNING"]
  BY DEF thread_resched
<1>2. current' = current \/ state[current'] \in {"READY", "SUSPENDED", "BLOCKED"}
  BY DEF Top
<1>3. state[current] # "DEATH"
  BY DEF IInv, CurrentInv
<1>4. \A t \in Threads : state'[t] = IF t = current' THEN "RUNNING" ELSE st[t]
  BY <1>1
<1> QED BY <1>2, <1>3, <1>4

LEMMA LivingDeaths ==
    ASSUME KInv, waking = None, LivingStep
    PROVE  /\ waking' = None
           /\ \A t \in Threads : state'[t] = "DEATH" <=> state[t] = "DEATH"
<1>0. /\ IInv /\ IInv' /\ Top /\ state \in [Threads -> States]
      /\ current \in Threads /\ state[current] \in {"READY", "RUNNING"}
      /\ timers \in Seq(TimerEntries) /\ Ordered(timers) /\ SleepersOf(timers, state)
  BY LivingIsRest, RestIsKernelNext, NextKeeps DEF KInv, IInv, TypeOK, CurrentInv
<1>1. waking' = None
  BY DEF LivingStep, HandlerStep, thread_become_idle, return_from_resched, LeaveCall,
         irq_tick, thread_sleep_handler, wait_queue_timeout_handler, timer_tick_done,
         thread_preempt, stopped, vars, thread_yield, thread_resume, thread_create
<1>2. ASSUME NEW t \in Threads, state[t] # "DEATH", NEW s \in States, s # "DEATH",
             NEW st, st = [state EXCEPT ![t] = s]
      PROVE  /\ st \in [Threads -> States]
             /\ \A u \in Threads : st[u] = "DEATH" <=> state[u] = "DEATH"
  BY <1>0, <1>2
<1>3. "READY" \in States /\ "SUSPENDED" \in States
  BY DEF States
<1>4. CASE UNCHANGED state
  BY <1>1, <1>4
<1>5. CASE thread_yield \/ thread_preempt
  <2>1. PICK st : st = [state EXCEPT ![current] = "READY"]
    OBVIOUS
  <2>2. \E q, qn, c : thread_resched(st, q, qn, c)
    BY <1>5, <2>1 DEF thread_yield, thread_preempt
  <2>3. state[current] # "DEATH"
    BY <1>0
  <2>4. /\ st \in [Threads -> States]
        /\ \A u \in Threads : st[u] = "DEATH" <=> state[u] = "DEATH"
    BY <1>0, <1>3, <2>1, <2>3
  <2> QED BY <1>0, <1>1, <2>2, <2>4, SwitchDeaths
<1>6. ASSUME NEW t \in Threads, thread_resume(t)
      PROVE  \A u \in Threads : state'[u] = "DEATH" <=> state[u] = "DEATH"
  <2>1. PICK st : st = [state EXCEPT ![t] = "READY", ![current] = "READY"]
    OBVIOUS
  <2>2. \E q, qn, c : thread_resched(st, q, qn, c)
    BY <1>6, <2>1 DEF thread_resume
  <2>3. state[t] = "SUSPENDED"
    BY <1>6 DEF thread_resume
  <2>4. /\ st \in [Threads -> States]
        /\ \A u \in Threads : st[u] = "DEATH" <=> state[u] = "DEATH"
    BY <1>0, <1>3, <2>1, <2>3
  <2> QED BY <1>0, <2>2, <2>4, SwitchDeaths
<1>7. ASSUME NEW t \in Threads, NEW p \in NewPriorities, thread_create(t, p)
      PROVE  \A u \in Threads : state'[u] = "DEATH" <=> state[u] = "DEATH"
  <2>1. state[t] = "NONE" /\ state' = [state EXCEPT ![t] = "SUSPENDED"]
    BY <1>7 DEF thread_create
  <2> QED BY <1>2, <1>3, <2>1
<1>8. CASE thread_sleep_handler
  <2> DEFINE t == Head(timers).thread
  <2>1. /\ timers # <<>> /\ Head(timers).cb = "sleep"
        /\ state' = [state EXCEPT ![t] = "READY"]
    BY <1>8 DEF thread_sleep_handler, Expired
  <2>2. t \in Threads /\ Head(timers) \in ToSet(timers)
    BY <1>0, <2>1, FirstLeaves
  <2>3. state[t] = "SLEEPING"
    BY <1>0, <2>1, <2>2 DEF SleepersOf, ToSet
  <2> HIDE DEF t
  <2> QED BY <1>1, <1>2, <1>3, <2>1, <2>2, <2>3
<1>9. CASE wait_queue_timeout_handler
  <2> DEFINE t == Head(timers).thread
  <2>1. /\ timers # <<>>
        /\ \/ state[t] = "BLOCKED" /\ state' = [state EXCEPT ![t] = "READY"]
           \/ state' = state
    BY <1>9 DEF wait_queue_timeout_handler, Expired
  <2>2. t \in Threads
    BY <1>0, <2>1, FirstLeaves
  <2> HIDE DEF t
  <2> QED BY <1>1, <1>2, <1>3, <2>1, <2>2
<1> QED BY <1>1, <1>4, <1>5, <1>6, <1>7, <1>8, <1>9
     DEF LivingStep, HandlerStep, thread_become_idle, return_from_resched, LeaveCall,
         irq_tick, timer_tick_done, stopped, vars, schedVars
-----------------------------------------------------------------------------
(* A thread that dies                                                      *)

\* The DPC thread, when it waits, is alone in the queue of its event.
LEMMA AloneInQueue ==
    ASSUME DInv, waitq[dpc_event] # <<>>
    PROVE  /\ state[DpcThread] = "BLOCKED" /\ blockedOn[DpcThread] = dpc_event
           /\ ToSet(waitq[dpc_event]) = {DpcThread} /\ Len(waitq[dpc_event]) = 1
<1> PICK s : s = waitq[dpc_event]
  OBVIOUS
<1>1. /\ IInv /\ WaitsAt /\ dpc_event \in WaitQueues /\ dpc_event # None
      /\ s \in Seq(Threads) /\ IsInjective(s) /\ s # <<>>
      /\ ToSet(s) = {u \in Threads : state[u] = "BLOCKED" /\ blockedOn[u] = dpc_event}
  BY DpcConstants, ConstantTypes DEF DInv, EInv, KInv, IInv, TypeOK, WaitQueueInv, WaitQueueOK
<1>2. \A u \in ToSet(s) : u = DpcThread
  BY <1>1 DEF WaitsAt, DInv, OnlyDpcWaits
<1>3. s[1] \in ToSet(s) /\ 1 \in DOMAIN s /\ DOMAIN s = 1 .. Len(s) /\ Len(s) \in Nat
  BY <1>1 DEF ToSet
<1>4. \A i \in DOMAIN s : s[i] = s[1]
  BY <1>2, <1>3 DEF ToSet
<1>5. \A i \in DOMAIN s : i = 1
  BY <1>1, <1>3, <1>4 DEF IsInjective
<1>6. Len(s) = 1
  <2>1. Len(s) >= 2 => 2 \in DOMAIN s
    BY <1>3
  <2>2. ~ (Len(s) >= 2)
    BY <1>5, <2>1
  <2>3. Len(s) \in Nat /\ Len(s) >= 1
    BY <1>3
  <2>4. \A n \in Nat : n >= 1 /\ ~ (n >= 2) => n = 1
    OBVIOUS
  <2> QED BY <2>2, <2>3, <2>4
<1>7. ToSet(s) = {DpcThread}
  BY <1>2, <1>3
<1> QED BY <1>1, <1>6, <1>7

LEMMA AwakeIfEmpty ==
    ASSUME DInv
    PROVE  state[DpcThread] = "BLOCKED" <=> waitq[dpc_event] # <<>>
<1>1. /\ IInv /\ WaitsAt /\ DpcThread \in Threads /\ dpc_event \in WaitQueues
      /\ None \notin WaitQueues
  BY DpcConstants, ConstantTypes DEF DInv, EInv, KInv
<1>2. waitq[dpc_event] # <<>> => state[DpcThread] = "BLOCKED"
  BY AloneInQueue
<1>3. ASSUME state[DpcThread] = "BLOCKED" PROVE waitq[dpc_event] # <<>>
  <2>1. blockedOn[DpcThread] \in WaitQueues
    BY <1>1, <1>3 DEF IInv, WaitQueueInv, WaitQueueOK
  <2>2. blockedOn[DpcThread] = dpc_event
    BY <1>1, <1>3, <2>1 DEF WaitsAt, DInv, OnlyDpcWaits
  <2>3. DpcThread \in ToSet(waitq[dpc_event])
    BY <1>1, <1>3, <2>2 DEF IInv, WaitQueueInv, WaitQueueOK
  <2> QED BY <1>1, <2>3, EmptyQueue
<1> QED BY <1>2, <1>3

\* The states a thread that dies switches away from.
Dying(st) ==
    \A t \in Threads :
        st[t] = IF t = current THEN "DEATH"
                ELSE IF t = DpcThread /\ state[t] = "BLOCKED" THEN "READY"
                ELSE state[t]

LEMMA ExitQuietly ==
    ASSUME DInv, exit_with_dpc, signalled[dpc_event] \/ waitq[dpc_event] = <<>>
    PROVE  /\ KInv' /\ \E st \in [Threads -> States] :
                         /\ Dying(st) /\ Switched(st)
                         /\ state' = [st EXCEPT ![current'] = "RUNNING"]
           /\ waitq[dpc_event] = <<>> /\ UNCHANGED waitVars
<1>0. /\ KInv /\ IInv /\ waking = None /\ dpc_event \in WaitQueues
      /\ DpcThread \in Threads /\ state \in [Threads -> States]
      /\ quantum \in [Threads -> 0..Quantum]
  BY DpcConstants DEF DInv, EInv, KInv, IInv, TypeOK
<1> PICK st : st = [state EXCEPT ![current] = "DEATH"]
  OBVIOUS
<1>1. Calls /\ thread_resched(st, runq, quantum, 1) /\ thread_exit /\ UNCHANGED waitVars
  BY DEF exit_with_dpc, thread_exit
<1>2. /\ current \in Threads /\ state[current] = "RUNNING" /\ current # Idle
      /\ state[Idle] = "READY" /\ runq \in RunQueues
      /\ \A t \in Threads : state[t] = "RUNNING" => t = current
  BY <1>0, <1>1, CallFacts
<1>3. KInv'
  BY <1>0, <1>1, ThreadStepKInv DEF ThreadStep
<1>4. waitq[dpc_event] = <<>>
  BY <1>0 DEF DInv, EInv, SignalledHasNoWaiters
<1>5. RunQueueOK(st, runq, priority) /\ st \in [Threads -> States]
  BY <1>0, <1>1, CallerGone
<1>6. Dying(st) /\ (\A t \in Threads : st[t] # "RUNNING") /\ st[Idle] = "READY"
  BY <1>0, <1>2, <1>4, AwakeIfEmpty, ConstantTypes DEF Dying
<1>7. Switched(st)
  <2>1. 1 \in Int
    OBVIOUS
  <2> QED BY <1>0, <1>1, <1>2, <1>5, <1>6, <2>1, SwitchStep
<1>8. state' = [st EXCEPT ![current'] = "RUNNING"]
  BY <1>1 DEF thread_resched
<1> QED BY <1>1, <1>3, <1>4, <1>5, <1>6, <1>7, <1>8

LEMMA ExitWaking ==
    ASSUME DInv, exit_with_dpc, ~ signalled[dpc_event], waitq[dpc_event] # <<>>
    PROVE  /\ KInv' /\ \E st \in [Threads -> States] :
                         /\ Dying(st) /\ Switched(st)
                         /\ state' = [st EXCEPT ![current'] = "RUNNING"]
           /\ waitq' = [waitq EXCEPT ![dpc_event] = <<>>]
           /\ blockedOn' = [blockedOn EXCEPT ![DpcThread] = None]
<1>0. /\ KInv /\ IInv /\ waking = None /\ dpc_event \in WaitQueues
      /\ DpcThread \in Threads /\ state \in [Threads -> States]
      /\ quantum \in [Threads -> 0..Quantum] /\ pc \in [Threads -> Frames]
      /\ timers \in Seq(TimerEntries) /\ SleepersOf(timers, state)
      /\ priority \in [Threads -> Priorities] /\ irq \in {"none", "tick", "preempt"}
  BY DpcConstants DEF DInv, EInv, KInv, IInv, TypeOK
<1> PICK dying, st, q, woken :
        /\ dying = [state EXCEPT ![current] = "DEATH"]
        /\ st = [dying EXCEPT ![DpcThread] = "READY"]
        /\ q = insert_in_run_queue_head(runq, DpcThread)
        /\ woken = [state EXCEPT ![DpcThread] = "READY"]
  OBVIOUS
<1>1. /\ Calls /\ Unblock(DpcThread, dpc_event, <<>>, "NO_ERROR")
      /\ thread_resched(st, q, quantum, 1)
      /\ pc' = [pc EXCEPT ![current] = "dead"]
      /\ UNCHANGED <<priority, idle, timers, irq, waking>>
  BY DEF exit_with_dpc
<1>2. /\ current \in Threads /\ state[current] = "RUNNING" /\ current # Idle
      /\ state[Idle] = "READY" /\ runq \in RunQueues
      /\ \A t \in Threads : state[t] = "RUNNING" => t = current
      /\ pc[current] = "run" /\ irq = "none"
  BY <1>0, <1>1, CallFacts DEF Calls, Interruptible
<1>3. /\ state[DpcThread] = "BLOCKED" /\ blockedOn[DpcThread] = dpc_event
      /\ ToSet(waitq[dpc_event]) = {DpcThread} /\ Len(waitq[dpc_event]) = 1
  BY AloneInQueue
<1>4. /\ <<>> \in Seq(Threads) /\ IsInjective(<<>>)
      /\ Len(<<>>) = Len(waitq[dpc_event]) - 1
      /\ ToSet(<<>>) = ToSet(waitq[dpc_event]) \ {DpcThread}
      /\ "NO_ERROR" \in Results
  BY <1>3 DEF IsInjective, ToSet, Results
<1>5. /\ waitq' \in [WaitQueues -> Seq(Threads)]
      /\ wcount' \in [WaitQueues -> Int]
      /\ blockedOn' \in [Threads -> WaitQueues \cup {None}]
      /\ blockRet' \in [Threads -> Results]
      /\ WaitQueueOK(woken, waitq', wcount', blockedOn')
      /\ woken \in [Threads -> States]
      /\ q \in RunQueues
      /\ SleepersOf(timers, woken)
      /\ DpcThread # current /\ DpcThread # Idle
  BY <1>0, <1>1, <1>3, <1>4, Woken
<1>6. RunQueueOK(dying, runq, priority) /\ dying \in [Threads -> States]
  BY <1>0, <1>1, CallerGone
<1>7. /\ st \in [Threads -> States]
      /\ \A t \in Threads : /\ woken[t] = IF t = DpcThread THEN "READY" ELSE state[t]
                            /\ dying[t] = IF t = current THEN "DEATH" ELSE state[t]
                            /\ st[t] = IF t = DpcThread THEN "READY" ELSE dying[t]
  BY <1>0, <1>2, <1>5, <1>6 DEF States
<1>8. RunQueueOK(st, q, priority)
  <2>1. dying[DpcThread] # "READY"
    BY <1>0, <1>3, <1>5, <1>7
  <2> QED BY <1>0, <1>2, <1>5, <1>6, <2>1, InsertReady
<1>9. Dying(st) /\ Readied(st)
  BY <1>0, <1>3, <1>5, <1>7 DEF Dying, Readied
<1>10. /\ \A t \in Threads : st[t] # "RUNNING"
       /\ st[Idle] = "READY"
       /\ \A t \in Threads : /\ woken[t] = "BLOCKED" <=> st[t] = "BLOCKED"
                             /\ state[t] = "SLEEPING" => st[t] = "SLEEPING"
                             /\ st[t] \in {"BLOCKED", "SLEEPING"} => st[t] = state[t]
       /\ \A t \in Threads \ {current} : st[t] \in {state[t], "READY"}
  BY <1>0, <1>2, <1>3, <1>5, <1>7, ConstantTypes
<1>11. Switched(st)
  <2>1. 1 \in Int
    OBVIOUS
  <2> QED BY <1>0, <1>1, <1>5, <1>7, <1>8, <1>10, <2>1, SwitchStep
<1>12. WaitQueueOK(st, waitq', wcount', blockedOn') /\ SleepersOf(timers', st)
  <2>1. WaitQueueOK(st, waitq', wcount', blockedOn')
    <3>1. \A t \in Threads : woken[t] = "BLOCKED" <=> st[t] = "BLOCKED"
      BY <1>10
    <3>2. WaitQueueOK(woken, waitq', wcount', blockedOn')
      BY <1>5
    <3> QED BY <3>1, <3>2, SameBlocked
  <2>2. SleepersOf(timers, st)
    BY <1>0, <1>10, SameSleepers
  <2> QED BY <1>1, <2>1, <2>2
<1>13. pc' \in [Threads -> Frames] /\ "dead" \in Frames
  BY <1>0, <1>1 DEF Frames
<1>14. IInv'
  BY <1>0, <1>1, <1>5, <1>9, <1>11, <1>12, <1>13, AfterSwitch
<1>15. KInv'
  BY <1>0, <1>1, <1>2, <1>7, <1>10, <1>13, <1>14, QuietSwitch
<1>16. state' = [st EXCEPT ![current'] = "RUNNING"]
  BY <1>1 DEF thread_resched
<1> QED BY <1>1, <1>7, <1>9, <1>11, <1>15, <1>16 DEF Unblock

\* The dead threads in the order in which they will be freed.
Queued == IF dpc = None THEN dpc_list ELSE <<dpc>> \o dpc_list

LEMMA QueuedDead ==
    DeadAreQueued <=> /\ IsInjective(Queued)
                      /\ ToSet(Queued) = {t \in Threads : state[t] = "DEATH"}
BY DEF DeadAreQueued, Queued

LEMMA QueuedType == DpcTypes => Queued \in Seq(Threads)
<1>1. \A S : \A s \in Seq(S), x \in S : <<x>> \o s \in Seq(S)
  OBVIOUS
<1> QED BY <1>1 DEF DpcTypes, Queued

\* Steps that queue nothing, free nothing and let nobody die.
LEMMA SameDead ==
    ASSUME DeadAreQueued, Queued' = Queued,
           \A t \in Threads : state'[t] = "DEATH" <=> state[t] = "DEATH"
    PROVE  DeadAreQueued'
<1>1. {t \in Threads : state'[t] = "DEATH"} = {t \in Threads : state[t] = "DEATH"}
  OBVIOUS
<1>2. DeadAreQueued' <=> /\ IsInjective(Queued')
                         /\ ToSet(Queued') = {t \in Threads : state'[t] = "DEATH"}
  BY DEF DeadAreQueued, Queued
<1> QED BY <1>1, <1>2, QueuedDead

\* thread_exit: the thread that dies is queued last, and the DPC thread is
\* awake when it is gone.
LEMMA ExitDInv ==
    ASSUME DInv, exit_with_dpc
    PROVE  DInv'
<1>0. /\ EInv /\ KInv /\ EventTypes /\ WaitsAt /\ DpcTypes /\ waking = None
      /\ dpc_event \in WaitQueues /\ DpcThread \in Threads /\ None \notin Threads
      /\ pc \in [Threads -> Frames] /\ waitq \in [WaitQueues -> Seq(Threads)]
      /\ blockedOn \in [Threads -> WaitQueues \cup {None}]
  BY DpcConstants, ConstantTypes DEF DInv, EInv, KInv, IInv, TypeOK
<1>1. /\ Calls /\ dpc_list' = Append(dpc_list, current)
      /\ signalled' = [signalled EXCEPT ![dpc_event] = TRUE]
      /\ pc' = [pc EXCEPT ![current] = "dead"]
      /\ UNCHANGED <<waking, alive, waitingAt, dpc>>
  BY DEF exit_with_dpc, dpc_queue
<1>2. current \in Threads /\ state[current] = "RUNNING" /\ pc[current] = "run"
  BY <1>0, <1>1, CallFacts DEF KInv, Calls, Interruptible
<1>3. /\ KInv' /\ \E st \in [Threads -> States] :
                      /\ Dying(st) /\ Switched(st)
                      /\ state' = [st EXCEPT ![current'] = "RUNNING"]
      /\ waitq'[dpc_event] = <<>>
      /\ \A w \in WaitQueues : w # dpc_event => waitq'[w] = waitq[w]
      /\ \A t \in Threads : t # DpcThread => blockedOn'[t] = blockedOn[t]
  <2>1. CASE signalled[dpc_event] \/ waitq[dpc_event] = <<>>
    BY <2>1, ExitQuietly DEF waitVars
  <2>2. CASE ~ signalled[dpc_event] /\ waitq[dpc_event] # <<>>
    BY <1>0, <2>2, ExitWaking
  <2> QED BY <2>1, <2>2
<1>4. PICK st \in [Threads -> States] :
         Dying(st) /\ Switched(st) /\ state' = [st EXCEPT ![current'] = "RUNNING"]
  BY <1>3
<1>5. \A t \in Threads :
         /\ state'[t] = "DEATH" <=> t = current \/ state[t] = "DEATH"
         /\ state'[t] = "BLOCKED" => t # DpcThread /\ state[t] = "BLOCKED"
  <2>1. st[current'] = "READY" /\ current' \in Threads
    BY <1>4 DEF Switched
  <2>2. \A t \in Threads : state'[t] = IF t = current' THEN "RUNNING" ELSE st[t]
    BY <1>4
  <2> QED BY <1>0, <1>2, <1>4, <2>1, <2>2 DEF Dying
<1>6. \A t \in Threads : pc'[t] = "block" <=> pc[t] = "block"
  BY <1>0, <1>1, <1>2
<1>7. EInv' /\ waking' = None
  <2>1. EventTypes'
    BY <1>0, <1>1 DEF EventTypes
  <2>2. WaitsAt'
    BY <1>0, <1>1, <1>3, <1>5, <1>6 DEF WaitsAt
  <2>3. SignalledHasNoWaiters'
    BY <1>0, <1>1, <1>3 DEF EInv, SignalledHasNoWaiters, EventTypes
  <2> QED BY <1>0, <1>1, <1>3, <2>1, <2>2, <2>3 DEF EInv
<1>8. DpcTypes' /\ OnlyDpcWaits' /\ QueuedIsSignalled'
  BY <1>0, <1>1, <1>2, <1>5 DEF DpcTypes, DInv, OnlyDpcWaits, QueuedIsSignalled, EventTypes
<1>9. DeadAreQueued'
  <2> PICK q : q = Queued
    OBVIOUS
  <2>1. q \in Seq(Threads) /\ IsInjective(q) /\ ToSet(q) = {t \in Threads : state[t] = "DEATH"}
    BY <1>0, QueuedType, QueuedDead DEF DInv
  <2>2. \A S : \A s \in Seq(S), x \in S, y \in S : <<x>> \o Append(s, y) = Append(<<x>> \o s, y)
    OBVIOUS
  <2>3. Queued' = Append(q, current)
    BY <1>0, <1>1, <1>2, <2>2 DEF DpcTypes, Queued
  <2>4. IsInjective(Queued') /\ ToSet(Queued') = ToSet(q) \cup {current}
    BY <1>2, <2>1, <2>3, PushBack
  <2>5. ToSet(Queued') = {t \in Threads : state'[t] = "DEATH"}
    BY <1>2, <1>5, <2>1, <2>4
  <2> QED BY <2>4, <2>5 DEF DeadAreQueued, Queued
<1> QED BY <1>7, <1>8, <1>9 DEF DInv

-----------------------------------------------------------------------------
(* The DPC thread, and the rest of the kernel                              *)

LEMMA WaitDInv ==
    ASSUME DInv, dpc_wait
    PROVE  DInv'
<1>0. /\ EInv /\ KInv /\ IInv /\ DpcTypes /\ waking = None /\ EventTypes
      /\ dpc_event \in WaitQueues /\ dpc_event \notin Autounsignal
      /\ DpcThread \in Threads /\ state \in [Threads -> States]
  BY DpcConstants DEF DInv, EInv, KInv, IInv, TypeOK
<1>1. /\ current = DpcThread /\ dpc = None /\ event_wait_timeout(dpc_event, None)
      /\ UNCHANGED <<dpc_list, dpc>>
  BY DEF dpc_wait, IsDpcThread
<1>2. EInv'
  BY <1>0, <1>1, WaitEInv
<1>3. Queued' = Queued
  BY <1>1 DEF Queued
<1>4. CASE signalled[dpc_event]
  <2>1. /\ UNCHANGED <<vars, waitingAt>>
        /\ signalled' = [signalled EXCEPT ![dpc_event] = dpc_event \notin Autounsignal]
    BY <1>1, <1>4 DEF event_wait_timeout
  <2>2. state' = state /\ waking' = waking /\ signalled' = signalled
    BY <1>0, <1>4, <2>1 DEF vars, schedVars, EventTypes
  <2>3. DeadAreQueued'
    BY <1>3, <2>2, SameDead DEF DInv
  <2> QED BY <1>0, <1>1, <1>2, <2>1, <2>2, <2>3
          DEF DInv, DpcTypes, OnlyDpcWaits, QueuedIsSignalled
<1>5. CASE ~ signalled[dpc_event]
  <2>1. /\ wait_queue_block(dpc_event, None)
        /\ waitingAt' = [waitingAt EXCEPT ![current] = dpc_event]
    BY <1>1, <1>5 DEF event_wait_timeout
  <2>2. dpc_list = <<>>
    BY <1>5 DEF DInv, QueuedIsSignalled
  <2>3. waking' = waking
    BY <2>1 DEF wait_queue_block
  <2>4. \A t \in Threads : state'[t] = "DEATH" <=> state[t] = "DEATH"
    <3> PICK st : st = [state EXCEPT ![current] = "BLOCKED"]
      OBVIOUS
    <3>1. thread_resched(st, runq, quantum, 2) /\ Calls
      BY <2>1 DEF wait_queue_block
    <3>2. state[current] = "RUNNING"
      BY <1>0, <3>1, CallFacts
    <3>3. st \in [Threads -> States] /\ \A t \in Threads : st[t] = "DEATH" <=> state[t] = "DEATH"
      BY <1>0, <1>1, <3>2 DEF States
    <3>4. Top
      BY <1>0, <2>1, NextKeeps DEF KernelNext, WaitCall
    <3> QED BY <1>0, <3>1, <3>3, <3>4, SwitchDeaths
  <2>5. DeadAreQueued'
    BY <1>3, <2>4, SameDead DEF DInv
  <2>6. OnlyDpcWaits'
    BY <1>0, <1>1, <2>1 DEF DInv, OnlyDpcWaits, EventTypes
  <2> QED BY <1>0, <1>1, <1>2, <2>2, <2>3, <2>5, <2>6 DEF DInv, DpcTypes, QueuedIsSignalled
<1> QED BY <1>4, <1>5

\* Taking an entry moves it out of the list and frees nothing yet; the event is
\* cleared only when the list is empty.
LEMMA TakeDInv ==
    ASSUME DInv, dpc_take
    PROVE  DInv'
<1>0. /\ EInv /\ DpcTypes /\ waking = None /\ EventTypes /\ None \notin Threads
      /\ dpc_event \in WaitQueues /\ dpc_list \in Seq(Threads)
  BY DpcConstants, ConstantTypes DEF DInv, EInv, DpcTypes
<1>1. /\ dpc = None /\ UNCHANGED <<vars, alive, waitingAt>>
      /\ current = DpcThread /\ Calls
  BY DEF dpc_take, IsDpcThread
<1>2. state' = state /\ waking' = waking
  BY <1>1 DEF vars, schedVars
<1>3. CASE /\ dpc_list # <<>> /\ dpc' = Head(dpc_list) /\ dpc_list' = Tail(dpc_list)
           /\ UNCHANGED signalled
  <2>1. EInv'
    BY <1>0, <1>1, <1>3, EInvKeeps DEF evars, eventVars
  <2>2. \A S : \A s \in Seq(S) : s # <<>> => /\ <<Head(s)>> \o Tail(s) = s
                                            /\ Head(s) \in S /\ Tail(s) \in Seq(S)
    OBVIOUS
  <2>3. DpcTypes' /\ dpc' # None /\ Queued' = Queued
    BY <1>0, <1>1, <1>3, <2>2 DEF DpcTypes, Queued
  <2>4. DeadAreQueued'
    BY <1>2, <2>3, SameDead DEF DInv
  <2>5. QueuedIsSignalled'
    BY <1>2, <1>3 DEF DInv, QueuedIsSignalled
  <2> QED BY <1>0, <1>1, <1>2, <2>1, <2>3, <2>4, <2>5 DEF DInv, OnlyDpcWaits
<1>4. CASE /\ dpc_list = <<>> /\ signalled' = [signalled EXCEPT ![dpc_event] = FALSE]
           /\ UNCHANGED <<dpc_list, dpc>>
  <2>1. EInv'
    BY <1>0, <1>1, <1>4, QuietEInv DEF EventTypes
  <2>2. Queued' = Queued
    BY <1>4 DEF Queued
  <2>3. DeadAreQueued'
    BY <1>2, <2>2, SameDead DEF DInv
  <2> QED BY <1>0, <1>1, <1>2, <1>4, <2>1, <2>3
          DEF DInv, DpcTypes, OnlyDpcWaits, QueuedIsSignalled
<1> QED BY <1>3, <1>4 DEF dpc_take

\* The rest of the kernel keeps the DPC thread awake or asleep.
LEMMA RestKeepsAwake ==
    ASSUME KInv, RestStep
    PROVE  \A t \in Threads : state'[t] = "BLOCKED" => state[t] = "BLOCKED"
<1>1. state \in [Threads -> States]
  BY DEF KInv, IInv, TypeOK
<1>2. ASSUME NEW t \in Threads, NEW w, NEW err, Released(t, w, err)
      PROVE  \A u \in Threads : state'[u] = "BLOCKED" => state[u] = "BLOCKED"
  BY <1>1, <1>2 DEF Released
<1>3. CASE WaitersStay
  BY <1>3 DEF WaitersStay
<1> QED BY <1>2, <1>3, RestStepShape

\* The callback frees the thread at the head of the queue, which is dead.
LEMMA CallDInv ==
    ASSUME DInv, dpc_call
    PROVE  DInv'
<1>0. /\ EInv /\ KInv /\ DpcTypes /\ waking = None /\ dpc \in Threads
      /\ dpc_list \in Seq(Threads) /\ state \in [Threads -> States]
      /\ DpcThread \in Threads
  BY DpcConstants DEF DInv, DpcTypes, EInv, KInv, IInv, TypeOK, dpc_call
<1>1. /\ dpc # None /\ dpc' = None /\ thread_cleanup(dpc)
      /\ UNCHANGED <<eventVars, dpc_list>> /\ dpc_list' = dpc_list
  BY DEF dpc_call
<1>2. EInv' /\ RestStep
  BY <1>0, <1>1, RestEInv DEF RestStep
<1>3. UNCHANGED <<signalled, alive, waitingAt, waking>>
  BY <1>1 DEF eventVars, thread_cleanup
<1>4. \A t \in Threads : state'[t] = "DEATH" <=> t # dpc /\ state[t] = "DEATH"
  BY <1>0, <1>1 DEF thread_cleanup
<1>5. DeadAreQueued'
  <2> PICK q : q = Queued
    OBVIOUS
  <2>1. q \in Seq(Threads) /\ IsInjective(q) /\ ToSet(q) = {t \in Threads : state[t] = "DEATH"}
    BY <1>0, QueuedType, QueuedDead DEF DInv
  <2>2. \A S : \A s \in Seq(S), x \in S : /\ Head(<<x>> \o s) = x /\ Tail(<<x>> \o s) = s
                                          /\ <<x>> \o s # <<>>
    OBVIOUS
  <2>3. Head(q) = dpc /\ Tail(q) = dpc_list /\ q # <<>>
    BY <1>0, <1>1, <2>2 DEF Queued
  <2>4. Queued' = Tail(q)
    BY <1>1, <2>3 DEF Queued
  <2>5. IsInjective(Queued') /\ ToSet(Queued') = ToSet(q) \ {dpc}
    BY <2>1, <2>3, <2>4, PopFront
  <2>6. ToSet(Queued') = {t \in Threads : state'[t] = "DEATH"}
    BY <1>4, <2>1, <2>5
  <2> QED BY <2>5, <2>6 DEF DeadAreQueued, Queued
<1>6. QueuedIsSignalled'
  BY <1>0, <1>1, <1>2, <1>3, RestKeepsAwake DEF DInv, QueuedIsSignalled
<1> QED BY <1>0, <1>1, <1>2, <1>3, <1>5, <1>6 DEF DInv, DpcTypes, OnlyDpcWaits

LEMMA LivingDInv ==
    ASSUME DInv, LivingStep, UNCHANGED <<eventVars, dpc_list, dpc>>
    PROVE  DInv'
<1>0. /\ EInv /\ KInv /\ waking = None /\ RestStep /\ DpcThread \in Threads
  BY LivingIsRest, DpcConstants DEF DInv, EInv
<1>1. EInv'
  BY <1>0, RestEInv
<1>2. /\ waking' = None
      /\ \A t \in Threads : state'[t] = "DEATH" <=> state[t] = "DEATH"
  BY <1>0, LivingDeaths
<1>3. UNCHANGED <<signalled, alive, waitingAt, dpc_list, dpc>> /\ Queued' = Queued
  BY DEF eventVars, Queued
<1>4. DeadAreQueued'
  BY <1>2, <1>3, SameDead DEF DInv
<1>5. QueuedIsSignalled'
  BY <1>0, <1>3, RestKeepsAwake DEF DInv, QueuedIsSignalled
<1> QED BY <1>1, <1>2, <1>3, <1>4, <1>5 DEF DInv, DpcTypes, OnlyDpcWaits

LEMMA ReturnDInv ==
    ASSUME DInv, DpcReturn
    PROVE  DInv'
<1>0. /\ EInv /\ KInv /\ EventTypes /\ return_from_wait
      /\ UNCHANGED <<dpc_list, dpc, signalled>> /\ Queued' = Queued
      /\ waitingAt' = [waitingAt EXCEPT ![current] = None]
  BY DEF DInv, EInv, DpcReturn, return_from_wait, Queued
<1>1. current \in Threads /\ UNCHANGED <<state, waking>>
  BY <1>0, ReturnShape DEF return_from_wait
<1>2. EInv'
  BY <1>0, ReturnEInv
<1>3. DeadAreQueued'
  BY <1>0, <1>1, SameDead DEF DInv
<1> QED BY <1>0, <1>1, <1>2, <1>3
        DEF DInv, DpcTypes, OnlyDpcWaits, QueuedIsSignalled, EventTypes

LEMMA DInvKeeps == DInv /\ [DpcNext]_dvars => DInv'
<1> SUFFICES ASSUME DInv, [DpcNext]_dvars PROVE DInv'
  OBVIOUS
<1>1. CASE UNCHANGED dvars
  <2>1. /\ EInv' /\ UNCHANGED <<state, waking, signalled, waitingAt, dpc_list, dpc>>
        /\ Queued' = Queued
    BY <1>1, EInvKeeps DEF DInv, dvars, evars, eventVars, vars, schedVars, Queued
  <2>2. DeadAreQueued'
    BY <2>1, SameDead DEF DInv
  <2> QED BY <2>1, <2>2 DEF DInv, DpcTypes, OnlyDpcWaits, QueuedIsSignalled
<1>2. CASE DpcStep
  BY <1>2, WaitDInv, TakeDInv, CallDInv DEF DpcStep
<1>3. CASE exit_with_dpc
  BY <1>3, ExitDInv
<1>4. CASE OtherThreads \/ DpcKernelStep
  <2>1. LivingStep /\ UNCHANGED <<eventVars, dpc_list, dpc>>
    BY <1>4 DEF OtherThreads, DpcKernelStep, LivingStep
  <2> QED BY <2>1, LivingDInv
<1>5. CASE DpcReturn
  BY <1>5, ReturnDInv
<1> QED BY <1>1, <1>2, <1>3, <1>4, <1>5 DEF DpcNext

\* dpc.c, thread_exit: each dead thread is queued for its cleanup exactly once
\* and nobody else is, so no structure is freed twice, freed under a living
\* thread or leaked; and the DPC thread never sleeps on a queued entry.
THEOREM DeadQueuedOnce == DpcSpec => []DpcInv
<1>1. DpcInit => DInv
  BY InitDInv
<1>2. DInv /\ [DpcNext]_dvars => DInv'
  BY DInvKeeps
<1>3. DInv => DpcInv
  BY DEF DInv, DpcInv
<1> QED BY <1>1, <1>2, <1>3, PTL DEF DpcSpec

=============================================================================
