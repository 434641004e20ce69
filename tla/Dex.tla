---------------------------------- MODULE Dex ----------------------------------
(***************************************************************************)
(* The DEX mailbox to the ARM9 in shared memory, dex_comm.c of both targets, *)
(* and the regulators of dex_vreg.c on it.  Two threads send commands; the  *)
(* ARM9 takes what it finds when the interrupt reaches it, at its own pace,  *)
(* and may be later than the ten seconds a caller waits.                     *)
(***************************************************************************)
EXTENDS Integers

CONSTANTS
    Callers,     \* the threads that send commands
    Targets,     \* of "msm7200a" and "msm7227", the board's dex_comm.c
    Vregs,       \* regulators
    MaxCalls     \* bound: commands

VARIABLES
    target,
    box,         \* the words of the shared memory
    dex_mutex,   \* its holder, or "free"
    call,        \* where each thread is in msm_dex_comm, and its locals
    a9,          \* the ARM9: initialised, interrupted, the job it is about
    done,        \* the commands the ARM9 carried out, with their numbers
    refcnt,      \* of each regulator
    halt,        \* halt_done, and whether the reset line was pulled
    calls

dexvars == <<target, box, dex_mutex, call, a9, done, refcnt, halt, calls>>

\* dex_set_vibrate leaves has_data as the stack had it.  The commands of the
\* regulators carry 1 << vreg->id, and every id in the table is 0.
Command(cmd, has, data) == [cmd |-> cmd, has |-> has, data |-> IF has THEN data ELSE "0"]
Plain == {Command("VIBRA", has, "junk") : has \in BOOLEAN}
REG_ON == Command("REG_ON", TRUE, "bit 0")
REG_OFF == Command("REG_OFF", TRUE, "bit 0")
Reboot == Command("REBOOT", FALSE, "0")

Idle9 == Command("none", FALSE, "0")
Away == [pc |-> "out", in |-> Idle9, vreg |-> 0, num |-> 0]
DexAt(t, p) == call[t].pc = p /\ ~halt.pulled
Goes(t, p) == call' = [call EXCEPT ![t].pc = p]

\* msm7227: what is not initialised is cleared at every command.
Cleared == [box EXCEPT !.data = "0", !.serial = 0, !.check = 0, !.status = "0"]

-----------------------------------------------------------------------------
(* msm_dex_comm, one word of the shared memory at a time.                   *)

Send(t, in, id) == call' = [call EXCEPT ![t] = [Away EXCEPT !.pc = "acquire", !.in = in, !.vreg = id]]

\* Fault: two commands at a time.
dex_acquire_Free(t) ==
    /\ DexAt(t, "acquire") /\ dex_mutex' = t /\ Goes(t, "ready")
    /\ UNCHANGED <<target, box, a9, done, refcnt, halt, calls>>

dex_acquire(t) ==
    /\ DexAt(t, "acquire") /\ dex_mutex = "free" /\ dex_mutex' = t /\ Goes(t, "ready")
    /\ UNCHANGED <<target, box, a9, done, refcnt, halt, calls>>

\* wait_dex_ready, or init_dex_locked on the msm7227.
dex_ready(t) ==
    /\ DexAt(t, "ready") /\ Goes(t, "command")
    /\ \/ target = "msm7200a" /\ a9.init /\ UNCHANGED box
       \/ target = "msm7227" /\ box' = IF a9.init THEN box ELSE Cleared
    /\ UNCHANGED <<target, dex_mutex, a9, done, refcnt, halt, calls>>

\* Only the low byte: DEX_HAS_DATA stays for a moment as the last command left it.
write_command(t) ==
    /\ DexAt(t, "command") /\ Goes(t, "data")
    /\ box' = [box EXCEPT !.cmd = call[t].in.cmd]
    /\ UNCHANGED <<target, dex_mutex, a9, done, refcnt, halt, calls>>

write_data(t) ==
    /\ DexAt(t, "data") /\ Goes(t, "post")
    /\ box' = [box EXCEPT !.has = call[t].in.has, !.data = call[t].in.data]
    /\ UNCHANGED <<target, dex_mutex, a9, done, refcnt, halt, calls>>

post(t) ==
    /\ DexAt(t, "post")
    /\ call' = [call EXCEPT ![t].pc = "wait", ![t].num = box.serial + 1]
    /\ box' = [box EXCEPT !.serial = @ + 1]
    /\ a9' = [a9 EXCEPT !.irq = TRUE]
    /\ UNCHANGED <<target, dex_mutex, done, refcnt, halt, calls>>

\* Fault: any answer will do.
wait_answer_Any(t) ==
    /\ DexAt(t, "wait") /\ box.status # "0" /\ Goes(t, "status")
    /\ UNCHANGED <<target, box, dex_mutex, a9, done, refcnt, halt, calls>>

wait_answer(t) ==
    /\ DexAt(t, "wait") /\ box.check = call[t].num /\ Goes(t, "status")
    /\ UNCHANGED <<target, box, dex_mutex, a9, done, refcnt, halt, calls>>

\* Fault: the caller waits for as long as it takes.
wait_times_out_Never(t) == FALSE /\ wait_answer(t)

wait_times_out(t) ==
    /\ DexAt(t, "wait") /\ Goes(t, "end")
    /\ UNCHANGED <<target, box, dex_mutex, a9, done, refcnt, halt, calls>>

\* A failure, or the answer to another command, is only printed.
read_status(t) ==
    /\ DexAt(t, "status") /\ Goes(t, "end")
    /\ box' = [box EXCEPT !.status = "0"]
    /\ UNCHANGED <<target, dex_mutex, a9, done, refcnt, halt, calls>>

\* The result is 0 whatever happened, so that the regulator's count follows.
dex_end(t) ==
    /\ DexAt(t, "end")
    /\ call' = [call EXCEPT ![t] = IF @.in = Reboot THEN [@ EXCEPT !.pc = "reset"] ELSE Away]
    /\ box' = [box EXCEPT !.status = "0"]
    /\ dex_mutex' = "free"
    /\ refcnt' = IF call[t].vreg = 0 THEN refcnt
                 ELSE [refcnt EXCEPT ![call[t].vreg] =
                          IF call[t].in = REG_ON THEN @ + 1
                          ELSE IF call[t].in = REG_OFF THEN @ - 1 ELSE @]
    /\ UNCHANGED <<target, a9, done, halt, calls>>

-----------------------------------------------------------------------------
(* The callers.                                                             *)

Start(t) == /\ DexAt(t, "out") /\ calls < MaxCalls /\ calls' = calls + 1
            /\ UNCHANGED <<target, box, dex_mutex, a9, done>>

dex_set_vibrate(t) == \E in \in Plain : Start(t) /\ Send(t, in, 0) /\ UNCHANGED <<refcnt, halt>>

\* One thread owns the regulators: the counts are changed without a lock.
vreg_free == \A t \in Callers : call[t].vreg = 0

dex_vreg_enable(t, id) ==
    /\ Start(t) /\ vreg_free /\ UNCHANGED halt
    /\ IF refcnt[id] = 0 THEN Send(t, REG_ON, id) /\ UNCHANGED refcnt
       ELSE refcnt' = [refcnt EXCEPT ![id] = @ + 1] /\ UNCHANGED call

dex_vreg_disable(t, id) ==
    /\ Start(t) /\ vreg_free /\ UNCHANGED halt
    /\ \/ refcnt[id] = 0 /\ UNCHANGED <<refcnt, call>>
       \/ refcnt[id] = 1 /\ Send(t, REG_OFF, id) /\ UNCHANGED refcnt
       \/ refcnt[id] > 1 /\ refcnt' = [refcnt EXCEPT ![id] = @ - 1] /\ UNCHANGED call

dex_vreg_set_level(t, id) ==
    /\ Start(t) /\ vreg_free /\ UNCHANGED <<halt, refcnt>>
    /\ Send(t, Command("REG_VOLTAGE", TRUE, "bit 0"), id)

dex_reboot(t) ==
    /\ Start(t) /\ UNCHANGED refcnt
    /\ \/ halt.done /\ UNCHANGED <<call, halt>>
       \/ /\ ~halt.done
          /\ \/ target = "msm7200a" /\ halt' = [halt EXCEPT !.done = TRUE] /\ Send(t, Reboot, 0)
             \/ target = "msm7227" /\ halt' = [done |-> TRUE, pulled |-> TRUE] /\ UNCHANGED call

reset_line(t) ==
    /\ DexAt(t, "reset") /\ halt' = [halt EXCEPT !.pulled = TRUE]
    /\ UNCHANGED <<target, box, dex_mutex, call, a9, done, refcnt, calls>>

\* With interrupts off and past the mutex; nothing else runs any more.
dex_power_off(t) ==
    /\ DexAt(t, "out") /\ calls < MaxCalls /\ calls' = calls + 1
    /\ \/ halt.done /\ UNCHANGED <<box, a9, halt>>
       \/ /\ ~halt.done
          /\ box' = [box EXCEPT !.cmd = "POWER_OFF", !.serial = @ + 1]
          /\ a9' = [a9 EXCEPT !.irq = TRUE]
          /\ halt' = [done |-> TRUE, pulled |-> TRUE]
    /\ UNCHANGED <<target, dex_mutex, call, done, refcnt>>

-----------------------------------------------------------------------------
(* The ARM9.  It reads the command, does it, and answers.                   *)

a9_init == /\ ~a9.init /\ a9' = [a9 EXCEPT !.init = TRUE]
           /\ UNCHANGED <<target, box, dex_mutex, call, done, refcnt, halt, calls>>

a9_take ==
    /\ a9.init /\ a9.irq /\ a9.job = Idle9
    /\ LET in == Command(box.cmd, box.has, box.data)
       IN  /\ a9' = [a9 EXCEPT !.irq = FALSE, !.job = in, !.num = box.serial]
           /\ done' = done \cup {[in |-> in, num |-> box.serial]}
    /\ UNCHANGED <<target, box, dex_mutex, call, refcnt, halt, calls>>

a9_answer ==
    /\ a9.job # Idle9 /\ a9' = [a9 EXCEPT !.job = Idle9, !.num = 0]
    /\ \E s \in {a9.job.cmd, "failed"} : box' = [box EXCEPT !.status = s, !.check = a9.num]
    /\ UNCHANGED <<target, dex_mutex, call, done, refcnt, halt, calls>>

-----------------------------------------------------------------------------
DexInit ==
    /\ target \in Targets
    /\ box = [cmd |-> "none", has |-> FALSE, data |-> "0", serial |-> 0, check |-> 0, status |-> "0"]
    /\ dex_mutex = "free"
    /\ call = [t \in Callers |-> Away]
    /\ a9 \in [init : {target = "msm7200a"}, irq : {FALSE}, job : {Idle9},
               num : {0}]
    /\ done = {} /\ refcnt = [id \in Vregs |-> 0]
    /\ halt = [done |-> FALSE, pulled |-> FALSE] /\ calls = 0

Calling(t) ==
    \/ dex_acquire(t) \/ dex_ready(t) \/ write_command(t) \/ write_data(t) \/ post(t)
    \/ wait_answer(t) \/ read_status(t) \/ dex_end(t) \/ reset_line(t)

Arm9 == a9_init \/ a9_take \/ a9_answer

DexNext ==
    \/ \E t \in Callers :
          \/ Calling(t) \/ wait_times_out(t)
          \/ dex_set_vibrate(t) \/ dex_reboot(t) \/ dex_power_off(t)
          \/ \E id \in Vregs : \/ dex_vreg_enable(t, id) \/ dex_vreg_disable(t, id)
                               \/ dex_vreg_set_level(t, id)
    \/ Arm9

\* The threads are scheduled, the ten seconds pass, and the ARM9 is ready one
\* day; nothing says that it answers.
DexFairness ==
    /\ WF_dexvars(a9_init)
    /\ \A t \in Callers : WF_dexvars(Calling(t)) /\ WF_dexvars(wait_times_out(t))

DexSpec == DexInit /\ [][DexNext]_dexvars /\ DexFairness

-----------------------------------------------------------------------------
\* A caller that saw its own number come back had its command carried out, with
\* its own data, however late the answers to others are: the mutex keeps the
\* words of a command together, and the number is raised after them.
AnsweredWasDone ==
    \A t \in Callers :
        call[t].pc = "status" => [in |-> call[t].in, num |-> call[t].num] \in done

\* A command ends, whether the ARM9 answers, is late or never does, unless the
\* machine is switched off or reset meanwhile.
CommandEnds ==
    \A t \in Callers : call[t].pc # "out" ~> (call[t].pc = "out" \/ halt.pulled)

=============================================================================
