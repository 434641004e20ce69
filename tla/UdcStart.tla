------------------------------- MODULE UdcStart -------------------------------
(***************************************************************************)
(* How the USB device controller of src/platform/msm_shared/hsusb.c is      *)
(* brought up, started and stopped: its endpoints, the list of descriptors  *)
(* that is searched for the host, and the moment from which the interrupt   *)
(* may be taken.  Module Udc goes on from there.                            *)
(***************************************************************************)
EXTENDS Integers, Sequences, FiniteSets

CONSTANTS
    MaxString,    \* the last string descriptor (255 in the code)
    MaxEndpoint,  \* the last endpoint (15 in the code)
    Strings,      \* of the device, in the order they are described
    MaxCalls,     \* bound: calls of the gadget's side
    NULL

VARIABLES
    the_device, the_gadget,    \* the endpoints of the gadget, or NULL
    desc_list,                 \* the newest first
    next_string_id,
    desc,                      \* the descriptor that is being made: its string indices
    ept_alloc_table, ept_list,
    clocks,                    \* USB_HS_CLK and USB_HS_PCLK are on
    int_handler, USB_USBINTR, unmasked, pullup,
    within, calls

upvars == <<the_device, the_gadget, desc_list, next_string_id, desc, ept_alloc_table,
            ept_list, clocks, int_handler, USB_USBINTR, unmasked, pullup, within, calls>>
lists == <<the_device, the_gadget, desc_list, next_string_id, desc, ept_alloc_table, ept_list>>
control == <<clocks, int_handler, USB_USBINTR, unmasked, pullup>>

\* The system that started this one may have left the controller running, but the
\* interrupts are masked.
UdcStartInit ==
    /\ the_device = FALSE /\ the_gadget = NULL
    /\ desc_list = <<>> /\ next_string_id = 1 /\ desc = <<>>
    /\ ept_alloc_table = {<<0, "in">>, <<0, "out">>} /\ ept_list = <<>>
    /\ clocks = TRUE /\ int_handler = FALSE
    /\ USB_USBINTR \in BOOLEAN /\ pullup \in BOOLEAN
    /\ unmasked = FALSE
    /\ within = "out" /\ calls = 0

Steps(from, to) == within = from /\ within' = to
Enter(to) == Steps("out", to) /\ calls < MaxCalls /\ calls' = calls + 1

-----------------------------------------------------------------------------
(* Descriptors                                                              *)

Descriptor(type, num, says) == [tag |-> <<type, num>>, says |-> says]
udc_descriptor_register(d) == desc_list' = <<d>> \o desc_list

\* Fault: a string has the number of the one before.
NextId_Same == next_string_id
NextId == next_string_id + 1

\* The index of a string is 0 if there is no number for it left, or no memory.
udc_string_desc_alloc(string) ==
    \/ /\ next_string_id <= MaxString
       /\ udc_descriptor_register(Descriptor("STRING", next_string_id, string))
       /\ desc' = Append(desc, [string |-> string, index |-> next_string_id])
       /\ next_string_id' = NextId
    \/ /\ desc' = Append(desc, [string |-> string, index |-> 0])
       /\ UNCHANGED <<desc_list, next_string_id>>

-----------------------------------------------------------------------------
(* udc_init: the clocks off and on again, twice, the PHY, and the            *)
(* controller's reset, with sleeps in between.                              *)

udc_init == /\ Enter("clocks off") /\ ~the_device
            /\ UNCHANGED <<lists, control>>
msm_otg_xceiv_off ==
    /\ Steps("clocks off", "clocks on") \/ Steps("clocks off again", "clocks on again")
    /\ clocks' = FALSE
    /\ UNCHANGED <<lists, int_handler, USB_USBINTR, unmasked, pullup, calls>>
msm_otg_xceiv_on ==
    /\ Steps("clocks on", "clocks off again") \/ Steps("clocks on again", "reset")
    /\ clocks' = TRUE
    /\ UNCHANGED <<lists, int_handler, USB_USBINTR, unmasked, pullup, calls>>
\* The reset clears the interrupt enables and the run bit.
udc_reset == /\ Steps("reset", "control endpoint")
             /\ USB_USBINTR' = FALSE /\ pullup' = FALSE
             /\ UNCHANGED <<lists, clocks, int_handler, unmasked, calls>>
\* The control endpoint, and the descriptor of the languages.
udc_init_ends ==
    /\ Steps("control endpoint", "out")
    /\ ept_list' = <<<<0, "in">>, <<0, "out">>>> \o ept_list
    /\ udc_descriptor_register(Descriptor("STRING", 0, "languages"))
    /\ the_device' = TRUE
    /\ UNCHANGED <<the_gadget, next_string_id, desc, ept_alloc_table, control, calls>>

-----------------------------------------------------------------------------
(* The gadget's calls                                                       *)

FreeEndpoints(in) == {n \in 1 .. MaxEndpoint : <<n, in>> \notin ept_alloc_table}

\* Fault: the endpoint that is handed out is not marked.
Taken_Not(e) == ept_alloc_table
Taken(e) == ept_alloc_table \cup {e}

\* The first that is free; udc_endpoint_free does nothing.
udc_endpoint_alloc(in) ==
    /\ Enter("out") /\ the_device /\ FreeEndpoints(in) # {}
    /\ LET e == <<CHOOSE n \in FreeEndpoints(in) : \A o \in FreeEndpoints(in) : n <= o, in>>
       IN ept_list' = <<e>> \o ept_list /\ ept_alloc_table' = Taken(e)
    /\ UNCHANGED <<the_device, the_gadget, desc_list, next_string_id, desc, control>>

\* A gadget has an endpoint of each direction.  There is one gadget.
udc_register_gadget ==
    /\ Enter("out") /\ the_gadget = NULL
    /\ \E i, o \in {ept_list[k] : k \in DOMAIN ept_list} :
           /\ i[2] = "in" /\ o[2] = "out" /\ i[1] > 0 /\ o[1] > 0
           /\ the_gadget' = <<i, o>>
    /\ UNCHANGED <<the_device, desc_list, next_string_id, desc, ept_alloc_table, ept_list, control>>

\* Refused without a device or a gadget.
udc_start == /\ Enter("device strings") /\ the_device /\ the_gadget # NULL
             /\ desc' = <<>>
             /\ UNCHANGED <<the_device, the_gadget, desc_list, next_string_id, ept_alloc_table,
                            ept_list, control>>

device_string == /\ within = "device strings" /\ UNCHANGED within
                 /\ Len(desc) < Len(Strings)
                 /\ udc_string_desc_alloc(Strings[Len(desc) + 1])
                 /\ UNCHANGED <<the_device, the_gadget, ept_alloc_table, ept_list, control, calls>>

device_descriptor == /\ Steps("device strings", "interface string")
                     /\ Len(desc) = Len(Strings)
                     /\ udc_descriptor_register(Descriptor("DEVICE", 0, desc)) /\ desc' = <<>>
                     /\ UNCHANGED <<the_device, the_gadget, next_string_id, ept_alloc_table,
                                    ept_list, control, calls>>

\* udc_ifc_desc_fill
interface_string == /\ Steps("interface string", "configuration")
                    /\ udc_string_desc_alloc("interface")
                    /\ UNCHANGED <<the_device, the_gadget, ept_alloc_table, ept_list, control, calls>>

configuration_descriptor ==
    /\ Steps("configuration", "handler")
    /\ udc_descriptor_register(Descriptor("CONFIGURATION", 0, desc)) /\ desc' = <<>>
    /\ UNCHANGED <<the_device, the_gadget, next_string_id, ept_alloc_table, ept_list, control, calls>>

\* Fault: the interrupt is let in first.
start_handler_Unmasks == /\ Steps("handler", "enable") /\ unmasked' = TRUE
                         /\ UNCHANGED <<lists, clocks, int_handler, USB_USBINTR, pullup, calls>>

start_handler == /\ Steps("handler", "enable") /\ int_handler' = TRUE
                 /\ UNCHANGED <<lists, clocks, USB_USBINTR, unmasked, pullup, calls>>
start_enable == /\ Steps("enable", "unmask") /\ USB_USBINTR' = TRUE
                /\ UNCHANGED <<lists, clocks, int_handler, unmasked, pullup, calls>>
start_unmask == /\ Steps("unmask", "run") /\ unmasked' = TRUE
                /\ UNCHANGED <<lists, clocks, int_handler, USB_USBINTR, pullup, calls>>
enable_pullup == /\ Steps("run", "out") /\ pullup' = TRUE
                 /\ UNCHANGED <<lists, clocks, int_handler, USB_USBINTR, unmasked, calls>>

udc_stop == /\ Enter("mask") /\ the_device /\ USB_USBINTR' = FALSE
            /\ UNCHANGED <<lists, clocks, int_handler, unmasked, pullup>>
stop_mask == /\ Steps("mask", "stop") /\ unmasked' = FALSE
             /\ UNCHANGED <<lists, clocks, int_handler, USB_USBINTR, pullup, calls>>
disable_pullup == /\ Steps("stop", "out") /\ pullup' = FALSE
                  /\ UNCHANGED <<lists, clocks, int_handler, USB_USBINTR, unmasked, calls>>

UdcStartNext ==
    \/ udc_init \/ msm_otg_xceiv_off \/ msm_otg_xceiv_on \/ udc_reset \/ udc_init_ends
    \/ udc_register_gadget \/ \E in \in {"in", "out"} : udc_endpoint_alloc(in)
    \/ udc_start \/ device_string \/ device_descriptor \/ interface_string
    \/ configuration_descriptor \/ start_handler \/ start_enable \/ start_unmask \/ enable_pullup
    \/ udc_stop \/ stop_mask \/ disable_pullup

UdcStartSpec == UdcStartInit /\ [][UdcStartNext]_upvars

-----------------------------------------------------------------------------
\* What handle_setup finds for the host: the first with the tag.
Having(tag) == {i \in DOMAIN desc_list : desc_list[i].tag = tag}
Found(tag) == desc_list[CHOOSE i \in Having(tag) : \A j \in Having(tag) : i <= j]

\* When the interrupt can be taken, there is a handler with a clock, a gadget it
\* may notify, and every descriptor a host must be given.
ServedWhenReady ==
    unmasked /\ USB_USBINTR =>
        /\ int_handler /\ clocks /\ the_gadget # NULL
        /\ \A tag \in {<<"STRING", 0>>, <<"DEVICE", 0>>, <<"CONFIGURATION", 0>>} : Having(tag) # {}

\* However often the controller is started, the descriptors the host is given name
\* strings that say what they should, or none.
StringsFound ==
    \A tag \in {<<"DEVICE", 0>>, <<"CONFIGURATION", 0>>} : Having(tag) # {} =>
        LET d == Found(tag) IN
        \A i \in DOMAIN d.says : d.says[i].index # 0 =>
            Found(<<"STRING", d.says[i].index>>).says = d.says[i].string

\* No two endpoints are the same.
EndpointsApart == \A i, j \in DOMAIN ept_list : ept_list[i] = ept_list[j] => i = j

=============================================================================
