--------------------------------- MODULE Pcom ---------------------------------
(***************************************************************************)
(* The clocks of the msm7227 (platform/msm7227/clock.c): the modem keeps    *)
(* them, and is asked through a few words of shared memory that hold one    *)
(* command at a time (platform/msm_shared/proc_comm.c).  proc_comm.c has no *)
(* lock of its own; clk_mutex is what keeps two threads apart.              *)
(***************************************************************************)
EXTENDS Integers

CONSTANTS
    Drivers,     \* the threads that use clocks
    ClockIds     \* the clocks

VARIABLES
    words,       \* APP_COMMAND, APP_DATA1, APP_DATA2, APP_STATUS
    modem,       \* ready to take a command; notified
    holder,      \* of clk_mutex
    asks,        \* per thread: where it is in msm_proc_comm, its command, its result
    served       \* the threads whose present command the modem carried out

pcomvars == <<words, modem, holder, asks, served>>

CMD_DONE == "PCOM_CMD_DONE"
NoOne == "no one"
Resting == [at |-> "rest", cmd |-> CMD_DONE, data1 |-> 0, data2 |-> 0, ret |-> -1]
AsksAt(t, p) == asks[t].at = p
Moves(t, p) == asks' = [asks EXCEPT ![t].at = p]

PcomInit ==
    /\ words = [cmd |-> CMD_DONE, data1 |-> 0, data2 |-> 0, status |-> "success"]
    /\ modem = [ready |-> FALSE, notified |-> FALSE]
    /\ holder = NoOne
    /\ asks = [t \in Drivers |-> Resting]
    /\ served = {}

\* Fault: no lock.
clk_mutex_free_Always == TRUE
clk_mutex_free == holder = NoOne

Asks(t, cmd, data1, data2) ==
    /\ AsksAt(t, "rest") /\ clk_mutex_free
    /\ holder' = t
    /\ asks' = [asks EXCEPT ![t] = [at |-> "ready", cmd |-> cmd, data1 |-> data1,
                                    data2 |-> data2, ret |-> -1]]
    /\ served' = served \ {t}
    /\ UNCHANGED <<words, modem>>

pcom_clock_enable(t, id) == Asks(t, "ENABLE", id, 0)
pcom_clock_disable(t, id) == Asks(t, "DISABLE", id, 0)
pcom_clock_set_rate(t, id, rate) == Asks(t, "SET_RATE", id, rate)

\* Both waits are without an end, should the modem be gone.
wait_ready(t) == /\ AsksAt(t, "ready") /\ modem.ready /\ Moves(t, "command")
                 /\ UNCHANGED <<words, modem, holder, served>>

pcom_write(t) ==
    /\ \/ /\ AsksAt(t, "command") /\ words' = [words EXCEPT !.cmd = asks[t].cmd]
          /\ Moves(t, "data1")
       \/ /\ AsksAt(t, "data1") /\ words' = [words EXCEPT !.data1 = asks[t].data1]
          /\ Moves(t, "data2")
       \/ /\ AsksAt(t, "data2") /\ words' = [words EXCEPT !.data2 = asks[t].data2]
          /\ Moves(t, "notify")
    /\ UNCHANGED <<modem, holder, served>>

notify_other_proc_comm(t) ==
    /\ AsksAt(t, "notify") /\ modem' = [modem EXCEPT !.notified = TRUE] /\ Moves(t, "done")
    /\ UNCHANGED <<words, holder, served>>

wait_done(t) ==
    /\ AsksAt(t, "done") /\ words.cmd = CMD_DONE
    /\ asks' = [asks EXCEPT ![t].at = "end",
                            ![t].ret = IF words.status = "fail" THEN -1 ELSE 0]
    /\ UNCHANGED <<words, modem, holder, served>>

pcom_end(t) ==
    /\ AsksAt(t, "end") /\ asks' = [asks EXCEPT ![t] = Resting] /\ holder' = NoOne
    /\ UNCHANGED <<words, modem, served>>

\* The modem starts, takes the command it finds when it is notified, and answers.
modem_starts == /\ ~modem.ready /\ modem' = [modem EXCEPT !.ready = TRUE]
                /\ UNCHANGED <<words, holder, asks, served>>

modem_answers ==
    /\ modem.ready /\ modem.notified /\ modem' = [modem EXCEPT !.notified = FALSE]
    /\ \E s \in {"success", "fail"} :
         /\ words' = [words EXCEPT !.cmd = CMD_DONE, !.status = s]
         /\ served' = IF s = "fail" THEN served
                      ELSE served \cup {t \in Drivers :
                               <<asks[t].cmd, asks[t].data1, asks[t].data2>>
                               = <<words.cmd, words.data1, words.data2>>}
    /\ UNCHANGED <<holder, asks>>

PcomNext ==
    \/ \E t \in Drivers :
         \/ \E id \in ClockIds : \/ pcom_clock_enable(t, id) \/ pcom_clock_disable(t, id)
                                 \/ \E rate \in 1 .. 2 : pcom_clock_set_rate(t, id, rate)
         \/ wait_ready(t) \/ pcom_write(t) \/ notify_other_proc_comm(t) \/ wait_done(t)
         \/ pcom_end(t)
    \/ modem_starts \/ modem_answers

PcomSpec == PcomInit /\ [][PcomNext]_pcomvars

-----------------------------------------------------------------------------
\* A clock call that returns 0 was carried out by the modem, for its own clock
\* and rate: two threads in msm_proc_comm at once would overwrite each other's
\* words and both take the one answer for theirs.
ClockCallDone == \A t \in Drivers : (AsksAt(t, "end") /\ asks[t].ret = 0) => t \in served

=============================================================================
