--------------------------------- MODULE Keys ---------------------------------
(***************************************************************************)
(* The keys of the MSM7200A boards: pins of one GPIO bank whose edges       *)
(* interrupt (platform/msm7200a/gpio.c, interrupts.c), a handler that waits *)
(* for the pin to settle (target/msm7200a_htc_wince/gpio_keys.c), and the   *)
(* map of the keys that are held (dev/keys/keys.c).  All keys are active    *)
(* low, as on both boards that have them.  A pin may move between any two   *)
(* register accesses; the bank latches an edge of the polarity int_pos      *)
(* selects, and the interrupt controller an edge of the bank's line.        *)
(***************************************************************************)
EXTENDS Integers, FiniteSets, FiniteSetsExt

CONSTANTS
    Pins,         \* the pins with keys, all in one bank
    Samples,      \* how often the handler looks at the pin again: 5
    LoopLimit     \* bound: rounds of the edge detection: 101

VARIABLES
    in,           \* the pins that are high: released keys
    int_pos,      \* the pins whose rising edge is latched, the others' falling
    int_status, int_en,   \* latched; enabled
    vic,          \* the interrupt controller has latched the bank's line
    isr,          \* where the interrupt handler is, and its locals
    key_bitmap    \* the keys taken to be held

keyvars == <<in, int_pos, int_status, int_en, vic, isr, key_bitmap>>

Idle == [at |-> "idle", todo |-> {}, pending |-> {}, val |-> {}, stat |-> {}, round |-> 0,
         state |-> FALSE, n |-> 0]
At(p) == isr.at = p
Line(status, enabled) == status \cap enabled # {}

\* The line rises: the interrupt controller, set to edges, sees it.
Latch == vic' = (vic \/ (Line(int_status', int_en') /\ ~Line(int_status, int_en)))

-----------------------------------------------------------------------------
KeyInit ==
    /\ in \in SUBSET Pins
    /\ int_pos = {}
    /\ int_status = {} /\ int_en = {} /\ vic = FALSE
    /\ isr = Idle /\ key_bitmap = {}

\* register_gpio_int_handler and unmask_gpio_interrupt; no key moves meanwhile.
gpio_keys_init(p) ==
    /\ At("idle") /\ ~vic /\ p \notin int_en
    /\ int_pos' = int_pos \cup (Pins \ in)
    /\ int_en' = int_en \cup {p}
    /\ UNCHANGED <<in, int_status, isr, key_bitmap>>
    /\ Latch

\* A pin moves: its edge is latched if int_pos says so.
Move(p) ==
    /\ in' = IF p \in in THEN in \ {p} ELSE in \cup {p}
    /\ int_status' = IF (p \in in') = (p \in int_pos) THEN int_status \cup {p} ELSE int_status
    /\ UNCHANGED <<int_pos, int_en, isr, key_bitmap>>
    /\ Latch

\* The interrupt is cleared in the controller, and the bank read once.
platform_irq ==
    /\ vic /\ At("idle")
    /\ vic' = FALSE
    /\ isr' = [Idle EXCEPT !.at = "ack", !.todo = int_status \cap int_en]
    /\ UNCHANGED <<in, int_pos, int_status, int_en, key_bitmap>>

msm_gpio_irq_clear ==
    /\ At("ack") /\ isr.todo # {}
    /\ int_status' = int_status \ {Min(isr.todo)}
    /\ isr' = [isr EXCEPT !.at = "val", !.round = 0]
    /\ UNCHANGED <<in, int_pos, int_en, vic, key_bitmap>>

\* msm_gpio_update_both_edge_detect, one register access at a time.
read_val ==
    /\ At("val") /\ isr' = [isr EXCEPT !.at = "pol", !.val = in]
    /\ UNCHANGED <<in, int_pos, int_status, int_en, vic, key_bitmap>>

\* Fault: the polarity is left alone.
write_pol_Not ==
    /\ At("pol") /\ isr' = [isr EXCEPT !.at = "stat"]
    /\ UNCHANGED <<in, int_pos, int_status, int_en, vic, key_bitmap>>

\* Bits are only ever set: a pin that is high again keeps its rising edge.
write_pol ==
    /\ At("pol")
    /\ int_pos' = int_pos \cup (Pins \ isr.val)
    /\ isr' = [isr EXCEPT !.at = "stat"]
    /\ UNCHANGED <<in, int_status, int_en, vic, key_bitmap>>

read_stat ==
    /\ At("stat") /\ isr' = [isr EXCEPT !.at = "val2", !.stat = int_status]
    /\ UNCHANGED <<in, int_pos, int_status, int_en, vic, key_bitmap>>

\* Until no pin moved unnoticed, or often enough.
read_val2 ==
    LET moved == (isr.val \ in) \cup (in \ isr.val)
        p == Min(isr.todo)
    IN
    /\ At("val2")
    /\ isr' = IF moved \subseteq isr.stat \/ isr.round = LoopLimit
              THEN [isr EXCEPT !.at = "ack", !.todo = @ \ {p}, !.pending = @ \cup {p}]
              ELSE [isr EXCEPT !.at = "val", !.round = @ + 1]
    /\ UNCHANGED <<in, int_pos, int_status, int_en, vic, key_bitmap>>

\* Fault: the interrupt is cleared in the controller when all is done.
call_handler_Clears ==
    /\ At("ack") /\ isr.todo = {}
    /\ isr' = IF isr.pending = {} THEN Idle ELSE [isr EXCEPT !.at = "sample", !.n = 0]
    /\ vic' = (vic /\ isr.pending # {})
    /\ UNCHANGED <<in, int_pos, int_status, int_en, key_bitmap>>

\* The handlers of the pins that were found, one after the other.
call_handler ==
    /\ At("ack") /\ isr.todo = {}
    /\ isr' = IF isr.pending = {} THEN Idle ELSE [isr EXCEPT !.at = "sample", !.n = 0]
    /\ UNCHANGED <<in, int_pos, int_status, int_en, vic, key_bitmap>>

handled == [isr EXCEPT !.at = "ack", !.pending = @ \ {Min(@)}]

keys_post_event(p, held) ==
    key_bitmap' = IF held THEN key_bitmap \cup {p} ELSE key_bitmap \ {p}

\* 25 ms, a look at the pin, and Samples more every 10 ms: one that differs
\* ends the handler without an event.
gpio_key_irq ==
    LET p == Min(isr.pending)
        now == p \in in
    IN
    /\ At("sample")
    /\ CASE isr.n = 0 -> isr' = [isr EXCEPT !.state = now, !.n = 1] /\ UNCHANGED key_bitmap
         [] isr.n > 0 /\ now # isr.state -> isr' = handled /\ UNCHANGED key_bitmap
         [] isr.n \in 1 .. Samples - 1 /\ now = isr.state ->
                isr' = [isr EXCEPT !.n = @ + 1] /\ UNCHANGED key_bitmap
         [] isr.n = Samples /\ now = isr.state ->
                isr' = handled /\ keys_post_event(p, ~isr.state)
    /\ UNCHANGED <<in, int_pos, int_status, int_en, vic>>

KeyNext == \/ \E p \in Pins : gpio_keys_init(p) \/ Move(p)
           \/ platform_irq \/ msm_gpio_irq_clear \/ read_val \/ write_pol \/ read_stat
           \/ read_val2 \/ call_handler \/ gpio_key_irq

KeySpec == KeyInit /\ [][KeyNext]_keyvars

-----------------------------------------------------------------------------
\* No handler runs and none will, until an edge of the bank's line comes.
Quiet == At("idle") /\ ~vic

\* That edge cannot come: a pin was latched after the handler's one look at the
\* bank and before it cleared the last pin it had found, so that the line, up for
\* the one or the other all the time, never fell.  No key interrupts any more.
LineLost == Quiet /\ Line(int_status, int_en)

\* Nothing is latched, and no handler runs.
Settled == Quiet /\ ~LineLost

OneKey == \A p, q \in int_en : p = q

\* A key that was let go of is not taken to be held when nothing is under way,
\* whatever bounces, and whichever register access it falls between; with one
\* exception that gpio.c and interrupts.c have.  When the line was lost, the
\* release is latched and not posted, and the key is held for ever.  It takes a
\* second key: with one, no interrupt is lost.  aboot.c asks keys_get_state what
\* to boot.
NoStuckKey ==
    /\ Settled => key_bitmap \cap in = {}
    /\ LineLost => key_bitmap \cap in \subseteq int_status
    /\ OneKey => ~LineLost

\* What GPIO_IRQF_RISING, one half of the GPIO_IRQF_BOTH that gpio_keys.c asks for,
\* promises of a release: no handler being under way, no key that is up is taken
\* to be held.
ReleaseInterrupts == Quiet => key_bitmap \cap in = {}

\* Both edges of an enabled key's pin interrupt, as gpio_keys.c asks for with
\* GPIO_IRQF_BOTH, "GPIO_IRQF_RISING | GPIO_IRQF_FALLING" in dev/gpio.h: when
\* nothing is under way, a key that moves is latched.
BothEdges == [][\A p \in int_en : (Settled /\ Move(p)) => p \in int_status']_keyvars

=============================================================================
