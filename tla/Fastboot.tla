-------------------------------- MODULE Fastboot --------------------------------
(***************************************************************************)
(* The fastboot protocol: src/app/aboot/fastboot.c with the command        *)
(* handlers of src/app/aboot/aboot.c, on the USB driver of module Udc.  The *)
(* fastboot thread runs between interrupts, its two events are signalled by *)
(* udc_interrupt, and every bulk transfer goes through one request.  A      *)
(* download has any length in bytes and is read BUF_SIZE of them at a time, *)
(* the last time what remains; a transfer shorter than that ends it.        *)
(***************************************************************************)
EXTENDS Udc

CONSTANTS
    Commands,      \* the commands the host sends
    CommandLengths, \* how long they are, with their arguments
    BUF_SIZE,
    Lengths,       \* of downloads, up to download_max
    PatientHost    \* the host resets and configures the device only while that
                   \* waits for a command and no transfer is on its way

CommandKinds == {"getvar", "download", "toolarge", "flash", "continue", "unknown"}

ASSUME FastbootAssumption ==
    /\ Commands \subseteq CommandKinds
    /\ BUF_SIZE \in Nat \ {0}
    /\ CommandLengths \subseteq 1 .. BUF_SIZE - 1
    /\ Lengths \subseteq Nat
    /\ PatientHost \in BOOLEAN

VARIABLES
    fastboot_state,
    usb_online,     \* the event: signalled or not
    txn_done,       \* the event: signalled or not
    txn_status,     \* of the last transfer
    actual,         \* req->length after it, 0 until then
    pc,             \* where the thread is
    call,           \* the usb_read or usb_write it is inside, and what for
    cmd,            \* the command whose handler runs
    buffer,         \* the command that was read
    fresh,          \* it was read and not yet handled
    asked,          \* the length of the download, len of cmd_download
    left,           \* what usb_read has still to read of it
    download_size,
    memory,         \* bytes of the image that arrived since the download began
    running,        \* udc_stop was not called
    dialog          \* what the host does next: send a command, await its answer,
                    \* send the image

threadVars == <<pc, call, cmd, asked, left, download_size, running>>
fbVars == <<fastboot_state, usb_online, txn_done, txn_status, actual, threadVars,
            buffer, fresh, memory, dialog>>
allVars == <<udcVars, fbVars>>

Init ==
    /\ UdcInit
    /\ fastboot_state = "OFFLINE"
    /\ usb_online = FALSE
    /\ txn_done = FALSE
    /\ txn_status = 0
    /\ actual = 0
    /\ pc = "online"
    /\ call = "none"
    /\ cmd = "none"
    /\ buffer = "none"
    /\ fresh = FALSE
    /\ asked = 0
    /\ left = 0
    /\ download_size = 0
    /\ memory = 0
    /\ running = TRUE
    /\ dialog = "command"

-----------------------------------------------------------------------------
(* The fastboot thread                                                     *)

Runs(p) == isr = "none" /\ pc = p

\* fastboot_handler: event_wait(&usb_online), then the command loop.
wait_online ==
    /\ Runs("online")
    /\ pc' = IF usb_online THEN "loop" ELSE "blocked_online"
    /\ usb_online' = FALSE
    /\ UNCHANGED <<udcVars, fastboot_state, txn_done, txn_status, actual, call,
                   cmd, asked, left, download_size, running, buffer, fresh, memory,
                   dialog>>

Failed == fastboot_state \in {"ERROR", "OFFLINE"}

\* The head of fastboot_command_loop: read the next command.  The variables of
\* the handler that ran are gone.
command_loop ==
    /\ Runs("loop")
    /\ \/ /\ Failed
          /\ pc' = "online"
          /\ call' = "none"
       \/ /\ ~Failed
          /\ pc' = "check"
          /\ call' = "command"
    /\ cmd' = "none"
    /\ asked' = 0
    /\ left' = 0
    /\ UNCHANGED <<udcVars, fastboot_state, usb_online, txn_done, txn_status,
                   actual, download_size, running, buffer, fresh, memory, dialog>>

\* Where usb_read or usb_write returns to when it returns -1.
AfterError == IF call = "command" THEN "online" ELSE "loop"

Reads == {"command", "image"}
Answers == {"DATA", "OKAY", "FAIL"}
EndpointOf(c) == IF c \in Reads THEN "out" ELSE "in"

\* The state is looked at once, before the first transfer of the call.
usb_check ==
    /\ Runs("check")
    /\ call = "image" => left > 0 \/ Failed
    /\ \/ /\ Failed
          /\ fastboot_state' = "ERROR"
          /\ pc' = AfterError
       \/ /\ ~Failed
          /\ pc' = "queue"
          /\ UNCHANGED fastboot_state
    /\ UNCHANGED <<udcVars, usb_online, txn_done, txn_status, actual, call, cmd,
                   asked, left, download_size, running, buffer, fresh, memory, dialog>>

usb_queue ==
    /\ Runs("queue")
    /\ udc_request_queue(EndpointOf(call))
    /\ pc' = "wait"
    /\ actual' = 0
    /\ UNCHANGED <<fastboot_state, usb_online, txn_done, txn_status, call,
                   cmd, asked, left, download_size, running, buffer, fresh, memory,
                   dialog>>

\* Fault: the event stays signalled.
usb_wait_Kept ==
    /\ Runs("wait")
    /\ pc' = IF txn_done THEN "done" ELSE "blocked_txn"
    /\ UNCHANGED <<udcVars, fastboot_state, usb_online, txn_done, txn_status,
                   actual, call, cmd, asked, left, download_size, running, buffer, fresh,
                   memory, dialog>>

\* event_wait(&txn_done).
usb_wait ==
    /\ Runs("wait")
    /\ pc' = IF txn_done THEN "done" ELSE "blocked_txn"
    /\ txn_done' = FALSE
    /\ UNCHANGED <<udcVars, fastboot_state, usb_online, txn_status, actual, call,
                   cmd, asked, left, download_size, running, buffer, fresh, memory,
                   dialog>>

transaction_failed ==
    /\ Runs("done")
    /\ txn_status < 0
    /\ fastboot_state' = "ERROR"
    /\ pc' = AfterError
    /\ UNCHANGED <<udcVars, usb_online, txn_done, txn_status, actual, call, cmd,
                   asked, left, download_size, running, buffer, fresh, memory, dialog>>

\* fastboot_ack: the state is COMPLETE whatever it was, then the answer goes.
Ack(code) ==
    /\ fastboot_state' = "COMPLETE"
    /\ call' = code
    /\ pc' = "check"

\* A command was read: it is looked up.  A handler of its own runs for those
\* that are known.
command_read ==
    /\ Runs("done")
    /\ txn_status >= 0
    /\ call = "command"
    /\ fresh' = FALSE
    /\ \/ /\ buffer = "unknown"
          /\ Ack("FAIL")
          /\ cmd' = "none"
       \/ /\ buffer # "unknown"
          /\ fastboot_state' = "COMMAND"
          /\ cmd' = buffer
          /\ pc' = "handler"
          /\ UNCHANGED call
    /\ UNCHANGED <<udcVars, usb_online, txn_done, txn_status, actual, asked, left,
                   download_size, running, buffer, memory, dialog>>

\* cmd_getvar, cmd_continue up to its answer, cmd_flash and cmd_erase.
handler_acks ==
    /\ Runs("handler")
    /\ \/ cmd \in {"getvar", "continue", "flash"} /\ Ack("OKAY")
       \/ cmd = "flash" /\ Ack("FAIL")
    /\ UNCHANGED <<udcVars, usb_online, txn_done, txn_status, actual, cmd, asked, left,
                   download_size, running, buffer, fresh, memory, dialog>>

\* A download of length 0: usb_read has nothing to read.
empty_download ==
    /\ Runs("check")
    /\ ~Failed
    /\ call = "image"
    /\ left = 0
    /\ download_size' = asked
    /\ Ack("OKAY")
    /\ UNCHANGED <<udcVars, usb_online, txn_done, txn_status, actual, cmd, asked,
                   left, running, buffer, fresh, memory, dialog>>

\* Fault: the size of the last download stays until the new one is there.
cmd_download_Keeps ==
    /\ Runs("handler")
    /\ cmd \in {"download", "toolarge"}
    /\ memory' = 0
    /\ \/ /\ cmd = "toolarge"
          /\ Ack("FAIL")
          /\ UNCHANGED <<asked, left>>
       \/ /\ cmd = "download"
          /\ asked' \in Lengths
          /\ left' = asked'
          /\ call' = "DATA"
          /\ pc' = "check"
          /\ UNCHANGED fastboot_state
    /\ UNCHANGED <<udcVars, usb_online, txn_done, txn_status, actual, cmd,
                   running, buffer, fresh, dialog, download_size>>

cmd_download ==
    /\ Runs("handler")
    /\ cmd \in {"download", "toolarge"}
    /\ download_size' = 0
    /\ memory' = 0
    /\ \/ /\ cmd = "toolarge"
          /\ Ack("FAIL")
          /\ UNCHANGED <<asked, left>>
       \/ /\ cmd = "download"
          /\ asked' \in Lengths
          /\ left' = asked'
          /\ call' = "DATA"
          /\ pc' = "check"
          /\ UNCHANGED fastboot_state
    /\ UNCHANGED <<udcVars, usb_online, txn_done, txn_status, actual, cmd,
                   running, buffer, fresh, dialog>>

\* DATA was sent: read the image.
data_sent ==
    /\ Runs("done")
    /\ txn_status >= 0
    /\ call = "DATA"
    /\ call' = "image"
    /\ pc' = "check"
    /\ UNCHANGED <<udcVars, fastboot_state, usb_online, txn_done, txn_status,
                   actual, cmd, asked, left, download_size, running, buffer, fresh,
                   memory, dialog>>

\* What usb_read asks for next.
Xfer == IF left > BUF_SIZE THEN BUF_SIZE ELSE left

\* Fault: a short transfer ends the download as if it were whole.
image_read_Short ==
    /\ Runs("done")
    /\ txn_status >= 0
    /\ call = "image"
    /\ left' = left - actual
    /\ \/ /\ actual = Xfer /\ left > Xfer
          /\ pc' = "queue"
          /\ UNCHANGED <<fastboot_state, call, download_size>>
       \/ /\ actual # Xfer \/ left = Xfer
          /\ download_size' = asked
          /\ Ack("OKAY")
    /\ UNCHANGED <<udcVars, usb_online, txn_done, txn_status, actual, cmd, asked,
                   running, buffer, fresh, memory, dialog>>

\* Fault: one buffer too many is read.
image_read_More ==
    /\ Runs("done")
    /\ txn_status >= 0
    /\ call = "image"
    /\ left' = left - actual
    /\ \/ /\ actual = Xfer
          /\ pc' = "queue"
          /\ UNCHANGED <<fastboot_state, call, download_size>>
       \/ /\ actual # Xfer
          /\ fastboot_state' = "ERROR"
          /\ pc' = "loop"
          /\ UNCHANGED <<call, download_size>>
    /\ UNCHANGED <<udcVars, usb_online, txn_done, txn_status, actual, cmd, asked,
                   running, buffer, fresh, memory, dialog>>

\* A buffer of the image was read: the next one is queued without another look
\* at the state.  A transfer that did not fill what was asked for ends the
\* download in error; it succeeds when as much was read as was asked for.
image_read ==
    /\ Runs("done")
    /\ txn_status >= 0
    /\ call = "image"
    /\ left' = left - actual
    /\ \/ /\ actual = Xfer /\ left > Xfer
          /\ pc' = "queue"
          /\ UNCHANGED <<fastboot_state, call, download_size>>
       \/ /\ actual # Xfer
          /\ fastboot_state' = "ERROR"
          /\ pc' = "loop"
          /\ UNCHANGED <<call, download_size>>
       \/ /\ actual = Xfer /\ left = Xfer
          /\ download_size' = asked
          /\ Ack("OKAY")
    /\ UNCHANGED <<udcVars, usb_online, txn_done, txn_status, actual, cmd, asked,
                   running, buffer, fresh, memory, dialog>>

\* The handler returns after its answer; cmd_continue stops the controller and
\* boots, and comes back when what is in flash cannot be booted.
answer_sent ==
    /\ Runs("done")
    /\ txn_status >= 0
    /\ call \in {"OKAY", "FAIL"}
    /\ pc' = IF cmd = "continue" THEN "boot" ELSE "loop"
    /\ UNCHANGED <<udcVars, fastboot_state, usb_online, txn_done, txn_status,
                   actual, call, cmd, asked, left, download_size, running, buffer, fresh,
                   memory, dialog>>

boot_from_flash ==
    /\ Runs("boot")
    /\ running' = FALSE
    /\ cmd' = "none"
    /\ pc' \in {"booted", "loop"}
    /\ UNCHANGED <<udcVars, fastboot_state, usb_online, txn_done, txn_status,
                   actual, call, asked, left, download_size, buffer, fresh, memory,
                   dialog>>

ThreadStep ==
    \/ wait_online \/ command_loop \/ usb_check \/ usb_queue \/ usb_wait
    \/ transaction_failed \/ command_read \/ handler_acks \/ cmd_download
    \/ data_sent \/ empty_download \/ image_read \/ answer_sent
    \/ boot_from_flash

-----------------------------------------------------------------------------
(* Callbacks from udc_interrupt                                            *)

\* Fault: going online is not signalled.
notify_online_Silent ==
    /\ fastboot_state' = "COMPLETE"
    /\ UNCHANGED <<pc, usb_online>>

\* fastboot_notify(UDC_EVENT_ONLINE).
notify_online ==
    /\ fastboot_state' = "COMPLETE"
    /\ IF pc = "blocked_online"
       THEN pc' = "loop" /\ UNCHANGED usb_online
       ELSE usb_online' = TRUE /\ UNCHANGED pc

\* Fault: a failed transfer is reported as one that went well.
req_complete_Fine(status) ==
    /\ txn_status' = 0
    /\ actual' = actual
    /\ IF pc = "blocked_txn"
       THEN pc' = "done" /\ UNCHANGED txn_done
       ELSE txn_done' = TRUE /\ UNCHANGED pc

\* req_complete: the thread wakes, or finds the event signalled.  A failed
\* transfer has an actual length of 0.
req_complete(status) ==
    /\ txn_status' = status
    /\ actual' = IF status < 0 THEN 0 ELSE actual
    /\ IF pc = "blocked_txn"
       THEN pc' = "done" /\ UNCHANGED txn_done
       ELSE txn_done' = TRUE /\ UNCHANGED pc

NoCompletion == UNCHANGED <<txn_status, actual, pc, txn_done>>

restVars == <<call, cmd, asked, left, download_size, running, buffer, fresh, memory,
              dialog>>

irq_status ==
    /\ running
    /\ isr_status
    /\ IF "URI" \in usbsts
       THEN /\ fastboot_state' = "OFFLINE"
            /\ IF \E e \in Bulk : ept_req[e] = "req" THEN req_complete(-1)
                                                     ELSE NoCompletion
       ELSE UNCHANGED fastboot_state /\ NoCompletion
    /\ UNCHANGED <<usb_online, restVars>>

irq_setup ==
    /\ isr_setup
    /\ \/ setupstat = "config" /\ notify_online
       \/ /\ setupstat = "unconfig"
          /\ fastboot_state' = "OFFLINE"
          /\ UNCHANGED <<pc, usb_online>>
       \/ /\ setupstat \notin {"config", "unconfig"}
          /\ UNCHANGED <<fastboot_state, pc, usb_online>>
    /\ UNCHANGED <<txn_done, txn_status, actual, restVars>>

irq_complete ==
    /\ isr_complete
    /\ IF ept_req[NextEpt] = "req"
       THEN req_complete(IF info["req"] = "ok" THEN 0 ELSE -1)
       ELSE NoCompletion
    /\ UNCHANGED <<fastboot_state, usb_online, restVars>>

irq_other == (isr_collect \/ isr_return) /\ UNCHANGED fbVars

FastbootIsr == irq_status \/ irq_setup \/ irq_complete \/ irq_other

-----------------------------------------------------------------------------
(* The host                                                                *)

\* The thread is blocked until the host sends a command, or comes back.
Listens == pc = "blocked_online" \/ (pc = "blocked_txn" /\ call = "command")

reset ==
    /\ running
    /\ PatientHost => /\ Listens /\ dialog = "command"
                      /\ stage = "idle" /\ usbsts = {} /\ isr = "none"
    /\ host_reset
    /\ dialog' = "command"
    /\ UNCHANGED <<fastboot_state, usb_online, txn_done, txn_status, actual,
                   threadVars, buffer, fresh, memory>>

\* Configuring the device anew ends what the host was at.
control_setup(k) ==
    /\ running
    /\ PatientHost => Listens /\ dialog = "command"
    /\ host_setup(k)
    /\ IF k \in {"config", "unconfig"}
       THEN dialog' = "command" ELSE UNCHANGED dialog
    /\ UNCHANGED <<fastboot_state, usb_online, txn_done, txn_status, actual,
                   threadVars, buffer, fresh, memory>>

control_goes_on ==
    /\ running
    /\ host_sees_stall \/ \E e \in Epts : control_transfer(e)
    /\ UNCHANGED fbVars

\* The host sends a command to whatever read is queued on the bulk endpoint.  One
\* longer than what is left of an image overruns the transfer.
send_command(c, n) ==
    /\ running
    /\ stage = "idle"
    /\ dialog = "command"
    /\ bulk_transfer("out", IF call = "image" /\ n > Xfer THEN "halted" ELSE "ok")
    /\ dialog' = "response"
    /\ actual' = n
    /\ IF call = "command" THEN buffer' = c /\ fresh' = TRUE
                           ELSE UNCHANGED <<buffer, fresh>>
    /\ UNCHANGED <<fastboot_state, usb_online, txn_done, txn_status, threadVars,
                   memory>>

send_image ==
    /\ running
    /\ dialog = "image"
    /\ bulk_transfer("out", "ok")
    /\ actual' = Xfer
    /\ memory' = memory + Xfer
    /\ dialog' = IF memory' = asked THEN "response" ELSE dialog
    /\ UNCHANGED <<fastboot_state, usb_online, txn_done, txn_status, threadVars,
                   buffer, fresh>>

read_answer ==
    /\ running
    /\ dialog = "response"
    /\ bulk_transfer("in", "ok")
    /\ dialog' = CASE call # "DATA" -> "command"
                   [] call = "DATA" /\ asked > 0 -> "image"
                   [] call = "DATA" /\ asked = 0 -> "response"
    /\ UNCHANGED <<fastboot_state, usb_online, txn_done, txn_status, actual,
                   threadVars, buffer, fresh, memory>>

\* The controller gives a transfer up.
transfer_error(e) ==
    /\ running
    /\ bulk_transfer(e, "halted")
    /\ UNCHANGED fbVars

HostStep == \/ \E c \in Commands, n \in CommandLengths : send_command(c, n)
            \/ send_image
            \/ read_answer

Next == \/ ThreadStep
        \/ FastbootIsr
        \/ HostStep
        \/ \E k \in Controls : control_setup(k)
        \/ control_goes_on
        \/ reset
        \/ ~PatientHost /\ \E e \in Bulk : transfer_error(e)

Spec == Init /\ [][Next]_allVars

\* The thread is scheduled, the handler runs on, and the host ends the
\* transfers it began; it need not send another command.
FairSpec ==
    /\ Spec
    /\ WF_allVars(ThreadStep)
    /\ WF_allVars(FastbootIsr)
    /\ WF_allVars(send_image \/ read_answer)
    /\ WF_allVars(control_goes_on)

-----------------------------------------------------------------------------
(* Properties                                                              *)

\* Type invariant.
FastbootTypeOK ==
    /\ fastboot_state \in {"OFFLINE", "COMMAND", "COMPLETE", "ERROR"}
    /\ usb_online \in BOOLEAN /\ txn_done \in BOOLEAN
    /\ txn_status \in {0, -1}
    /\ actual \in 0 .. BUF_SIZE
    /\ pc \in {"online", "blocked_online", "loop", "check", "queue", "wait",
               "blocked_txn", "done", "handler", "boot", "booted"}
    /\ call \in {"none"} \cup Reads \cup Answers
    /\ cmd \in Commands \cup {"none"}
    /\ buffer \in Commands \cup {"none"}
    /\ fresh \in BOOLEAN /\ running \in BOOLEAN
    /\ asked \in Nat /\ left \in Nat /\ memory \in Nat /\ download_size \in Nat
    /\ dialog \in {"command", "response", "image"}

\* The thread and the driver agree on the one request they share: it is queued
\* on the endpoint the thread waits for and on no other, it is not queued when
\* the thread does not wait, and the event is signalled for no older transfer.
TxnMatches ==
    /\ \A e \in Bulk : ept_req[e] = "req" =>
          pc \in {"wait", "blocked_txn"} /\ e = EndpointOf(call)
    /\ pc = "blocked_txn" => ept_req[EndpointOf(call)] = "req"
    /\ txn_done => pc = "wait" /\ \A e \in Bulk : ept_req[e] = "none"

\* hsusb.c, fastboot.c: no bulk request is lost, completed twice or waited for
\* before it is done, and the thread and the driver agree on the one they share.
UsbInv == /\ UdcTypeOK /\ FastbootTypeOK
          /\ BulkWaitsForTheDone /\ BulkOwed /\ TxnMatches

\* n bytes are a number of whole buffers.
WholeBuffers(n) == \E k \in 0 .. n : n = k * BUF_SIZE

\* Whatever resets and errors come, a download is taken for complete only when
\* every whole buffer of it came from the host that was told to send it, and the
\* remainder too, with one exception that fastboot.c has: the state is not looked
\* at between two buffers and the length is all that is compared, so a command
\* sent after a reset, of the very length that remains, passes for the end of the
\* image.  An image of whole buffers is safe from that.
NoPartialDownload ==
    download_size # 0 =>
        \/ memory = download_size
        \/ /\ WholeBuffers(memory)
           /\ download_size - memory \in CommandLengths

\* Each command the host sent is carried out at most once, and none that it
\* did not send.
CommandOnce == [][pc = "done" /\ pc' = "handler" => fresh]_allVars

\* A patient host that configured the device finds it reading a command.
OnlineListens ==
    config_value = 1 ~> \/ pc \in {"wait", "blocked_txn"} /\ call = "command"
                        \/ config_value = 0
                        \/ ~running

\* A patient host gets an answer to every command.
CommandAnswered ==
    dialog = "response" ~> (dialog # "response" \/ "URI" \in usbsts)

=============================================================================
