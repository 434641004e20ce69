-------------------------------- MODULE Delay --------------------------------
(***************************************************************************)
(* mdelay and udelay of src/platform/msm_shared/timer.c: a delay counts on  *)
(* the one general purpose counter, which it clears and starts, and leaves  *)
(* stopped.  A delay of an interrupt handler (gpio_key_irq debounces a key  *)
(* with it) runs in the middle of a thread's, on the same counter.          *)
(***************************************************************************)
EXTENDS Integers

CONSTANTS
    Handlers,     \* interrupt handlers that delay, beside the one thread
    Usecs, Msecs, \* the delays asked for
    PerMsec,      \* counts to a millisecond (33 in the code)
    MaxDelays     \* bound: delays that are started

VARIABLES
    count, enabled,   \* GPT_COUNT_VAL, GPT_ENABLE
    until,            \* the count each delay waits for
    within,           \* where in its delay each caller is
    passed,           \* periods of the counter's clock since a delay started it
    disturbed,        \* another delay was started during this one
    delays

delayvars == <<count, enabled, until, within, passed, disturbed, delays>>

Callers == {"thread"} \cup Handlers

DelayInit == /\ count = 0 /\ enabled = FALSE
             /\ until = [c \in Callers |-> 0] /\ within = [c \in Callers |-> "out"]
             /\ passed = [c \in Callers |-> 0] /\ disturbed = [c \in Callers |-> FALSE]
             /\ delays = 0

\* A handler ends before anyone else goes on.
Steps(c, from, to) == /\ \A h \in Handlers \ {c} : within[h] = "out"
                      /\ within[c] = from
                      /\ within' = [within EXCEPT ![c] = to]

\* One count at the least for any microseconds.
mdelay(msecs) == msecs * PerMsec
udelay(usecs) == (usecs * PerMsec + 1000 - PerMsec) \div 1000
Counts == {mdelay(m) : m \in Msecs} \cup {udelay(u) : u \in Usecs}

Starts(c, counts) ==
    /\ Steps(c, "out", "clear")
    /\ delays < MaxDelays /\ delays' = delays + 1
    /\ until' = [until EXCEPT ![c] = counts]
    /\ passed' = [passed EXCEPT ![c] = 0]
    /\ disturbed' = [o \in Callers |-> IF o = c THEN FALSE ELSE disturbed[o] \/ within[o] # "out"]
    /\ UNCHANGED <<count, enabled>>

clear(c) == /\ Steps(c, "clear", "disable") /\ count' = 0
            /\ UNCHANGED <<enabled, until, passed, disturbed, delays>>
disable(c) == /\ Steps(c, "disable", "zero") /\ enabled' = FALSE
              /\ UNCHANGED <<count, until, passed, disturbed, delays>>
zero(c) == /\ Steps(c, "zero", "enable") /\ count = 0
           /\ UNCHANGED <<count, enabled, until, passed, disturbed, delays>>
enable(c) == /\ Steps(c, "enable", "count") /\ enabled' = TRUE
             /\ UNCHANGED <<count, until, passed, disturbed, delays>>
enough(c) == /\ Steps(c, "count", "stop") /\ count >= until[c]
             /\ UNCHANGED <<count, enabled, until, passed, disturbed, delays>>

\* Fault: the counter goes on after a delay.
stop_Not(c) == /\ Steps(c, "stop", "reset") /\ UNCHANGED enabled
               /\ UNCHANGED <<count, until, passed, disturbed, delays>>
stop(c) == /\ Steps(c, "stop", "reset") /\ enabled' = FALSE
           /\ UNCHANGED <<count, until, passed, disturbed, delays>>

\* Fault: it keeps the count of the delay.
reset_Not(c) == /\ Steps(c, "reset", "out") /\ UNCHANGED count
                /\ UNCHANGED <<enabled, until, passed, disturbed, delays>>
reset(c) == /\ Steps(c, "reset", "out") /\ count' = 0
            /\ UNCHANGED <<enabled, until, passed, disturbed, delays>>

Delaying(c) == \/ clear(c) \/ disable(c) \/ zero(c) \/ enable(c) \/ enough(c)
               \/ stop(c) \/ reset(c)

\* A period of the clock.  What is enough for every delay is not counted further.
period == /\ \E c \in Callers : within[c] # "out"
          /\ count' = IF enabled /\ \E n \in Counts : count < n THEN count + 1 ELSE count
          /\ passed' = [c \in Callers |-> IF within[c] = "count" /\ passed[c] < until[c]
                                          THEN passed[c] + 1 ELSE passed[c]]
          /\ UNCHANGED <<enabled, until, within, disturbed, delays>>

DelayNext == \/ \E c \in Callers : Delaying(c) \/ (\E n \in Counts : Starts(c, n))
             \/ period

DelaySpec == DelayInit /\ [][DelayNext]_delayvars /\ WF_delayvars(period)
             /\ \A c \in Callers : WF_delayvars(Delaying(c))

-----------------------------------------------------------------------------
\* A delay that ends took the periods it was to take, whatever delays came in
\* between: what they leave on the counter makes none shorter.
DelayLongEnough == \A c \in Callers : within[c] \in {"stop", "reset"} => passed[c] >= until[c]

\* A delay that no other disturbs ends.  (One that is disturbed finds the counter
\* stopped, and waits for ever unless another delay comes to start it.)
DelayEnds == \A c \in Callers :
    [](within[c] # "out" => <>(within[c] = "out" \/ \E o \in Callers : disturbed[o]))

=============================================================================
