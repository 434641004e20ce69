-------------------------------- MODULE MCSync --------------------------------
(***************************************************************************)
(* Events and timed mutexes for TLC, in two scenarios of one instance: two  *)
(* threads of one priority, a third above them and interrupts use an event  *)
(* of each kind, or the threads take one mutex with and without timeouts    *)
(* and sleep.                                                               *)
(***************************************************************************)
EXTENDS Event, Mutex, TLC

CONSTANTS idle_, t1, t2, t3, q1, q2

VARIABLE scenario

syncvars == <<vars, eventVars, mutexVars, scenario>>

Above == [p \in Priorities |-> CASE p = 1 -> <<t1, t2>>
                                 [] p = 2 -> <<t3>>
                                 [] OTHER -> <<>>]

SyncInit == EventInit /\ MutexInit /\ scenario \in {"events", "mutex"}

OneMutex == count'[q2] = 0 /\ magic'[q2]

SyncNext ==
    \/ scenario = "events" /\ EventNext /\ UNCHANGED <<mutexVars, scenario>>
    \/ scenario = "mutex" /\ MutexNext /\ OneMutex /\ UNCHANGED <<eventVars, scenario>>

SyncSpec == SyncInit /\ [][SyncNext]_syncvars

=============================================================================
