-------------------------------- MODULE Keypad --------------------------------
(***************************************************************************)
(* The key matrix of the HD Mini: src/dev/keys/gpio_keypad.c drives one     *)
(* output of the matrix after the other, with a timer that lets each settle,*)
(* and posts the keys whose state changed to src/dev/keys/keys.c.  The      *)
(* outputs are active low and driven when they are inactive                 *)
(* (GPIOKPF_DRIVE_INACTIVE), as the board asks for.  A key may move between *)
(* any two ticks.                                                           *)
(***************************************************************************)
EXTENDS Integers, FiniteSets

CONSTANTS
    noutputs, ninputs,
    Wired            \* the crossings with a key, as numbers out * ninputs + in

VARIABLES
    held,            \* the keys that are held
    gpio_out,        \* the outputs that are low, that is active
    current_output,  \* noutputs: between two scans
    timer,           \* the timer is set
    full_scan,       \* the event
    keys_pressed,    \* the keys taken to be held, also those posted to keys.c
    caller,          \* where gpio_keypad_init is
    moved            \* the keys that moved since the scan started

kpvars == <<held, gpio_out, current_output, timer, full_scan, keys_pressed, caller, moved>>

Outputs == 0 .. noutputs - 1
Inputs == 0 .. ninputs - 1
KeyIndex(out, in) == out * ninputs + in

\* An input is low when a key that is held connects it to an active output.
gpio_get(in) == IF \E out \in gpio_out : KeyIndex(out, in) \in held THEN 0 ELSE 1
gpio_set(out, on) == IF on = 0 THEN gpio_out \cup {out} ELSE gpio_out \ {out}

KeypadInit ==
    /\ held \in SUBSET Wired
    /\ gpio_out = Outputs              \* 0 at reset
    /\ current_output = noutputs /\ timer = FALSE /\ full_scan = FALSE
    /\ keys_pressed = {} /\ caller = "called" /\ moved = {}

\* All outputs are made inactive, and the timer starts the first scan.
gpio_keypad_init ==
    /\ caller = "called"
    /\ gpio_out' = {} /\ current_output' = noutputs /\ timer' = TRUE
    /\ caller' = "waits"
    /\ UNCHANGED <<held, full_scan, keys_pressed, moved>>

\* event_wait; the event unsignals itself.
event_wait ==
    /\ caller = "waits" /\ full_scan
    /\ caller' = "returned" /\ full_scan' = FALSE
    /\ UNCHANGED <<held, gpio_out, current_output, timer, keys_pressed, moved>>

\* The keys of the output whose turn it is, as the inputs show them.
\* keys_post_event follows each change.
check_output(out) ==
    {k \in keys_pressed : k \div ninputs # out}
    \cup {KeyIndex(out, in) : in \in {n \in Inputs : gpio_get(n) = 0}}

start_scan == current_output = noutputs

\* Fault: the output that was looked at stays active beside the next one.
next_output_Kept(out) == IF out < noutputs THEN gpio_set(out, 0) ELSE gpio_out

\* The output that was looked at is made inactive, and the next one active.
next_output(out) ==
    LET inactive == IF start_scan THEN gpio_out ELSE gpio_set(current_output, 1)
    IN IF out < noutputs THEN inactive \cup {out} ELSE inactive

gpio_keypad_timer_func ==
    LET out == IF start_scan THEN 0 ELSE current_output + 1 IN
    /\ timer
    /\ keys_pressed' = IF start_scan THEN keys_pressed ELSE check_output(current_output)
    /\ gpio_out' = next_output(out)
    /\ current_output' = out
    /\ timer' = TRUE                  \* settle_time or poll_time
    /\ full_scan' = (full_scan \/ out = noutputs)
    /\ moved' = IF start_scan THEN {} ELSE moved
    /\ UNCHANGED <<held, caller>>

Move(k) ==
    /\ held' = IF k \in held THEN held \ {k} ELSE held \cup {k}
    /\ moved' = moved \cup {k}
    /\ UNCHANGED <<gpio_out, current_output, timer, full_scan, keys_pressed, caller>>

KeypadNext == gpio_keypad_init \/ event_wait \/ gpio_keypad_timer_func
              \/ \E k \in Wired : Move(k)

\* The timer goes off, and the caller runs when it may.
KeypadSpec == /\ KeypadInit /\ [][KeypadNext]_kpvars
              /\ WF_kpvars(gpio_keypad_init) /\ WF_kpvars(gpio_keypad_timer_func)
              /\ WF_kpvars(event_wait)

-----------------------------------------------------------------------------
\* Once gpio_keypad_init has returned, every key that rested during the last
\* whole scan is known for what it is, and no crossing without a key is ever
\* taken for one that is held: the board asks for its keys right after.
ScanIsRight ==
    /\ keys_pressed \subseteq Wired
    /\ (caller = "returned" /\ current_output = noutputs) =>
           \A k \in Wired \ moved : k \in keys_pressed <=> k \in held

\* At most one output is active once the scans have started: a second one would
\* let a key of one row pass for its neighbour's.
OneOutput == caller # "called" => Cardinality(gpio_out) <= 1

\* gpio_keypad_init returns.
KeypadInitEnds == <>(caller = "returned")

=============================================================================
