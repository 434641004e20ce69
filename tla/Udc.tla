---------------------------------- MODULE Udc ----------------------------------
(***************************************************************************)
(* The USB device controller driver: src/platform/msm_shared/hsusb.c.      *)
(* Two requests share four endpoints: ep0req serves both directions of the *)
(* control endpoint, and the gadget's one request both bulk endpoints.     *)
(* udc_interrupt is split where the host and the controller can act while  *)
(* it runs; threads cannot.  What the gadget's callbacks do is left to the *)
(* module that composes with this one.  The controller and the host are    *)
(* external: they are modelled from how the driver uses them.              *)
(***************************************************************************)
EXTENDS Integers

CONSTANTS
    Controls,    \* the control requests the host makes
    MaxResets    \* bound: bus resets of a behaviour

\* "clear_in" and "clear_out" are CLEAR_FEATURE for a bulk endpoint; "ack" stands
\* for SET_ADDRESS and for CLEAR_FEATURE of endpoint 0.
ControlKinds == {"read", "ack", "clear_in", "clear_out", "config", "unconfig", "stall"}

ASSUME UdcAssumption == Controls \subseteq ControlKinds /\ MaxResets \in Nat

Bulk == {"in", "out"}
Epts == {"ep0in", "ep0out"} \cup Bulk
Requests == {"ep0req", "req"}

VARIABLES
    ept_req,        \* ept->req, "none" when nothing is queued
    info,           \* req->item->info
    ep0_complete,   \* ep0req->complete
    config_value,   \* usb_config_value
    isr,            \* where udc_interrupt is
    todo,           \* endpoints whose completion it has still to handle
    \* the controller
    usbsts,         \* USB_USBSTS
    setupstat,      \* the SETUP packet of ep0, USB_ENDPTSETUPSTAT
    endptcomplete,  \* USB_ENDPTCOMPLETE
    primed,         \* endpoints with a transfer the host may carry out
    bulk_enabled,   \* the endpoints enabled in USB_ENDPTCTRL(1)
    stalled,        \* ep0 answers STALL until the next SETUP packet
    \* the host
    stage,          \* of its control transfer
    resets

driverVars == <<ept_req, info, ep0_complete, config_value, isr, todo>>
controllerVars == <<usbsts, setupstat, endptcomplete, primed, bulk_enabled, stalled>>
hostVars == <<stage, resets>>
udcVars == <<driverVars, controllerVars, hostVars>>

ItemOf(e) == IF e \in Bulk THEN "req" ELSE "ep0req"

UdcInit ==
    /\ ept_req = [e \in Epts |-> "none"]
    /\ info = [r \in Requests |-> "free"]
    /\ ep0_complete = "none"
    /\ config_value = 0
    /\ isr = "none"
    /\ todo = {}
    /\ usbsts = {}
    /\ setupstat = "none"
    /\ endptcomplete = {}
    /\ primed = {}
    /\ bulk_enabled = {}
    /\ stalled = FALSE
    /\ stage = "idle"
    /\ resets = 0

-----------------------------------------------------------------------------
(* The driver                                                              *)

\* What queueing the request of e changes besides the callback.
Queued(e) ==
    /\ ept_req' = [ept_req EXCEPT ![e] = ItemOf(e)]
    /\ info' = [info EXCEPT ![ItemOf(e)] = "active"]
    /\ primed' = primed \cup {e}

\* Called by the gadget's thread for a bulk endpoint.
udc_request_queue(e) ==
    /\ isr = "none"
    /\ Queued(e)
    /\ UNCHANGED <<ep0_complete, config_value, isr, todo, usbsts, setupstat,
                   endptcomplete, bulk_enabled, stalled, hostVars>>

\* Fault: a reset does not error out the requests that are queued.
isr_reset_Forgets ==
    /\ endptcomplete' = {}
    /\ setupstat' = "none"
    /\ primed' = {}
    /\ bulk_enabled' = {}
    /\ config_value' = 0
    /\ UNCHANGED <<info, ept_req>>

\* Fault: the driver goes on as configured.
isr_reset_Configured ==
    /\ endptcomplete' = {}
    /\ setupstat' = "none"
    /\ primed' = {}
    /\ bulk_enabled' = {}
    /\ info' = [r \in Requests |-> IF \E e \in Epts : ept_req[e] = r
                                   THEN "halted" ELSE info[r]]
    /\ ept_req' = [e \in Epts |-> "none"]
    /\ UNCHANGED config_value

\* A bus reset: everything is flushed, and every queued request ends in error.
isr_reset ==
    /\ endptcomplete' = {}
    /\ setupstat' = "none"
    /\ primed' = {}
    /\ bulk_enabled' = {}
    /\ config_value' = 0
    /\ info' = [r \in Requests |-> IF \E e \in Epts : ept_req[e] = r
                                   THEN "halted" ELSE info[r]]
    /\ ept_req' = [e \in Epts |-> "none"]

\* udc_interrupt reads and acknowledges the status.
isr_status ==
    /\ isr = "none"
    /\ usbsts # {}
    /\ usbsts' = {}
    /\ isr' = IF "UI" \in usbsts THEN "setup" ELSE "none"
    /\ \/ /\ "URI" \in usbsts
          /\ isr_reset
       \/ /\ "URI" \notin usbsts
          /\ UNCHANGED <<endptcomplete, setupstat, primed, bulk_enabled,
                         config_value, info, ept_req>>
    /\ UNCHANGED <<ep0_complete, todo, stalled, hostVars>>

\* The endpoint of CLEAR_FEATURE.
Cleared == IF setupstat = "clear_in" THEN "in" ELSE "out"

\* The answers to a SETUP packet: setup_tx sends data, setup_ack an empty
\* packet, and what is not understood is stalled.  CLEAR_FEATURE enables its
\* endpoint, configured or not.
handle_setup ==
    /\ setupstat' = "none"
    /\ \/ /\ setupstat = "read"
          /\ ep0_complete' = "ep0in_complete"
          /\ Queued("ep0in")
          /\ UNCHANGED <<bulk_enabled, config_value, stalled>>
       \/ /\ setupstat = "ack"
          /\ ep0_complete' = "none"
          /\ Queued("ep0in")
          /\ UNCHANGED <<bulk_enabled, config_value, stalled>>
       \/ /\ setupstat \in {"clear_in", "clear_out"}
          /\ bulk_enabled' = bulk_enabled \cup {Cleared}
          /\ ep0_complete' = "none"
          /\ Queued("ep0in")
          /\ UNCHANGED <<config_value, stalled>>
       \/ /\ setupstat = "config"
          /\ bulk_enabled' = Bulk
          /\ config_value' = 1
          /\ ep0_complete' = "none"
          /\ Queued("ep0in")
          /\ UNCHANGED stalled
       \/ /\ setupstat = "unconfig"
          /\ bulk_enabled' = {}
          /\ config_value' = 0
          /\ ep0_complete' = "none"
          /\ Queued("ep0in")
          /\ UNCHANGED stalled
       \/ /\ setupstat = "stall"
          /\ stalled' = TRUE
          /\ UNCHANGED <<ept_req, info, primed, ep0_complete, bulk_enabled,
                         config_value>>

isr_setup ==
    /\ isr = "setup"
    /\ isr' = "collect"
    /\ \/ /\ setupstat # "none"
          /\ handle_setup
       \/ /\ setupstat = "none"
          /\ UNCHANGED <<ept_req, info, primed, ep0_complete, bulk_enabled,
                         config_value, stalled, setupstat>>
    /\ UNCHANGED <<todo, usbsts, endptcomplete, hostVars>>

\* Fault: the completions are read and not acknowledged.
isr_collect_Kept ==
    /\ isr = "collect"
    /\ todo' = endptcomplete
    /\ isr' = "complete"
    /\ UNCHANGED <<ept_req, info, ep0_complete, config_value, usbsts, setupstat,
                   endptcomplete, primed, bulk_enabled, stalled, hostVars>>

isr_collect ==
    /\ isr = "collect"
    /\ todo' = endptcomplete
    /\ endptcomplete' = {}
    /\ isr' = "complete"
    /\ UNCHANGED <<ept_req, info, ep0_complete, config_value, usbsts, setupstat,
                   primed, bulk_enabled, stalled, hostVars>>

\* ept_list holds the endpoint allocated last first.
NextEpt == CASE "out" \in todo -> "out"
             [] "in" \in todo -> "in"
             [] "ep0in" \in todo -> "ep0in"
             [] OTHER -> "ep0out"

\* Fault: a control read is not ended with the host's empty packet.
handle_ept_complete_NoStatus(e) ==
    /\ todo' = todo \ {e}
    /\ ept_req[e] # "none" => info[ept_req[e]] # "active"
    /\ ept_req' = [ept_req EXCEPT ![e] = "none"]
    /\ UNCHANGED <<info, primed, ep0_complete>>

\* Waits, interrupts off, until the controller has cleared the ACTIVE bit, and
\* completes the request.  ep0in_complete queues it again for the host's empty
\* packet, which ends a control read.
handle_ept_complete(e) ==
    /\ todo' = todo \ {e}
    /\ \/ /\ ept_req[e] = "none"
          /\ UNCHANGED <<ept_req, info, primed, ep0_complete>>
       \/ /\ ept_req[e] = "ep0req"
          /\ info["ep0req"] # "active"
          /\ IF ep0_complete = "ep0in_complete" /\ info["ep0req"] = "ok"
             THEN /\ ept_req' = [ept_req EXCEPT ![e] = "none", !["ep0out"] = "ep0req"]
                  /\ info' = [info EXCEPT !["ep0req"] = "active"]
                  /\ primed' = primed \cup {"ep0out"}
                  /\ ep0_complete' = "none"
             ELSE /\ ept_req' = [ept_req EXCEPT ![e] = "none"]
                  /\ UNCHANGED <<info, primed, ep0_complete>>
       \/ /\ ept_req[e] = "req"
          /\ info["req"] # "active"
          /\ ept_req' = [ept_req EXCEPT ![e] = "none"]
          /\ UNCHANGED <<info, primed, ep0_complete>>

isr_complete ==
    /\ isr = "complete"
    /\ todo # {}
    /\ handle_ept_complete(NextEpt)
    /\ UNCHANGED <<config_value, isr, usbsts, setupstat, endptcomplete,
                   bulk_enabled, stalled, hostVars>>

isr_return ==
    /\ isr = "complete"
    /\ todo = {}
    /\ isr' = "none"
    /\ UNCHANGED <<ept_req, info, ep0_complete, config_value, todo,
                   controllerVars, hostVars>>

-----------------------------------------------------------------------------
(* The host and the controller                                             *)

\* The host resets the bus and forgets the transfers it was making.
host_reset ==
    /\ resets < MaxResets
    /\ resets' = resets + 1
    /\ usbsts' = usbsts \cup {"URI"}
    /\ stage' = "idle"
    /\ UNCHANGED <<driverVars, setupstat, endptcomplete, primed, bulk_enabled,
                   stalled>>

\* After a reset the host waits, ten milliseconds at least, before it speaks.
host_setup(k) ==
    /\ stage = "idle"
    /\ "URI" \notin usbsts
    /\ resets > 0
    /\ setupstat' = k
    /\ stalled' = FALSE
    /\ usbsts' = usbsts \cup {"UI"}
    /\ stage' = IF k = "read" THEN "data" ELSE "status_in"
    /\ UNCHANGED <<driverVars, endptcomplete, primed, bulk_enabled, resets>>

host_sees_stall ==
    /\ stage # "idle"
    /\ stalled
    /\ stage' = "idle"
    /\ UNCHANGED <<driverVars, controllerVars, resets>>

\* The controller carries out the transfer of e: the item is written back, the
\* completion is noted and the interrupt raised.
Transferred(e, outcome) ==
    /\ e \in primed
    /\ "URI" \notin usbsts
    /\ primed' = primed \ {e}
    /\ info' = [info EXCEPT ![ItemOf(e)] = outcome]
    /\ endptcomplete' = endptcomplete \cup {e}
    /\ usbsts' = usbsts \cup {"UI"}
    /\ UNCHANGED <<ept_req, ep0_complete, config_value, isr, todo, setupstat,
                   bulk_enabled, stalled, resets>>

control_transfer(e) ==
    /\ \/ e = "ep0in" /\ stage = "data" /\ stage' = "status_out"
       \/ e = "ep0in" /\ stage = "status_in" /\ stage' = "idle"
       \/ e = "ep0out" /\ stage = "status_out" /\ stage' = "idle"
    /\ setupstat = "none"
    /\ Transferred(e, "ok")

bulk_transfer(e, outcome) ==
    /\ e \in bulk_enabled
    /\ Transferred(e, outcome)
    /\ UNCHANGED stage

-----------------------------------------------------------------------------
(* Properties                                                              *)

\* Type invariant; and both bulk endpoints are enabled while the driver says it
\* is configured.  They may be enabled without it, after CLEAR_FEATURE.
UdcTypeOK ==
    /\ ept_req \in [Epts -> Requests \cup {"none"}]
    /\ info \in [Requests -> {"free", "active", "ok", "halted"}]
    /\ ep0_complete \in {"none", "ep0in_complete"}
    /\ config_value \in 0 .. 1
    /\ isr \in {"none", "setup", "collect", "complete"}
    /\ todo \subseteq Epts
    /\ usbsts \subseteq {"URI", "UI"}
    /\ setupstat \in ControlKinds \cup {"none"}
    /\ endptcomplete \subseteq Epts
    /\ primed \subseteq Epts
    /\ bulk_enabled \subseteq Bulk
    /\ stalled \in BOOLEAN
    /\ stage \in {"idle", "data", "status_in", "status_out"}
    /\ resets \in 0 .. MaxResets
    /\ config_value = 1 => bulk_enabled = Bulk

\* The handler is about to wait for the ACTIVE bit of the item of e.
Waits(e) == /\ isr = "complete"
            /\ e \in todo
            /\ e = NextEpt
            /\ ept_req[e] # "none"
            /\ info[ept_req[e]] = "active"

\* The driver's comment on the wait says that the transfer whose completion was
\* signalled is done, and only its ACTIVE bit late.  For the bulk endpoints it
\* is so: their request is not queued again before its completion was handled.
BulkWaitsForTheDone == \A e \in Bulk : ~Waits(e)

\* The gadget hears of every bulk request it queues, and once: while the
\* controller may still transfer for it, or has and has not been heard, the
\* driver knows it, and a request the driver knows is never flushed in silence.
BulkOwed ==
    \A e \in Bulk :
        e \in primed \cup endptcomplete \cup todo <=> ept_req[e] = "req"

\* udc_interrupt returns, unless the host resets the bus while it waits.
InterruptReturns == isr # "none" ~> (isr = "none" \/ "URI" \in usbsts)

\* Control transfers end, though one request serves both directions: the host
\* goes back to idle unless it resets the bus.
ControlEnds == stage # "idle" ~> (stage = "idle" \/ "URI" \in usbsts)

=============================================================================
