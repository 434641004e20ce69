------------------------------- MODULE MCMutex -------------------------------
(* Small instances of Mutex for TLC. *)
EXTENDS Mutex, TLC

CONSTANTS idle_, t1, t2, t3, m1

\* Three threads of one priority.
Equal == [p \in Priorities |-> IF p = 1 THEN <<t1, t2, t3>> ELSE <<>>]

\* Without timed acquires nobody returns from one.
UntimedNext == MutexStep \/ return_from_acquire \/ KernelStep

UntimedSpec == MutexInit /\ [][UntimedNext]_mvars /\ MutexFairness

=============================================================================
