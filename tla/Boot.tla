--------------------------------- MODULE Boot ---------------------------------
(***************************************************************************)
(* What the boot loader decides and does between power-on and the start of  *)
(* something: src/app/aboot/aboot.c and recovery.c, and the boot markers of *)
(* src/target/msm7200a_htc_wince/init.c.  Partitions are written as         *)
(* StoragePromise says: in between they hold nothing of use.  The power is  *)
(* cut at any moment.                                                       *)
(***************************************************************************)
EXTENDS Integers, FiniteSets

CONSTANTS
    Polls,                \* looks at the keys before the default boot (10)
    MaxCuts, MaxFaults    \* bounds: power cuts, failing flash calls

VARIABLES
    misc,           \* the recovery message, or Torn
    fota, cache,    \* the radio's firmware; the update in the cache partition
    image,          \* the boot and recovery partitions: good, foreign or Torn
    marker,         \* the word at LK_BOOTREASON_ADDR, which survives a reset
    boot_pc, msg, polls, boot_into_recovery,
    resetting,      \* dex_reboot pulled the reset line
    machine,        \* "lk", or what it started
    told,           \* an update that failed was reported in the message, ever
    verdict,        \* and what was reported of the last one asked for
    unset,          \* a message could not be written, or was cut short
    cuts, faults

storage == <<misc, fota, cache, image>>
ram == <<boot_pc, msg, polls, boot_into_recovery>>
history == <<told, verdict, unset>>
bvars == <<storage, ram, history, marker, resetting, machine, cuts, faults>>

Torn == [command |-> "torn", status |-> "torn"]
MessageCommands == {"none", "boot-recovery", "update-radio"}
Statuses == {"none", "OKAY", "invalid-update", "failed-update"}
Messages == [command : MessageCommands, status : Statuses]
Parts == {"boot", "recovery"}
NoMessage == [command |-> "none", status |-> "none"]

LK(p) == machine = "lk" /\ boot_pc = p
Goto(p) == boot_pc' = p
Spend(n) == faults + n <= MaxFaults /\ faults' = faults + n

-----------------------------------------------------------------------------
(* Start.                                                                   *)

\* RAM holds anything: the marker and its complement do not match.
power_on ==
    /\ machine = "off"
    /\ machine' = "lk" /\ boot_pc' = "reason" /\ marker' = "none"
    /\ polls' = 0 /\ msg' = NoMessage /\ boot_into_recovery' = FALSE
    /\ UNCHANGED <<storage, history, resetting, cuts, faults>>

\* get_boot_reason and the switch of aboot_init.
get_boot_reason ==
    /\ LK("reason")
    /\ CASE marker = "fastboot" -> Goto("fastboot") /\ UNCHANGED boot_into_recovery
         [] marker = "recovery" -> Goto("message") /\ boot_into_recovery' = TRUE
         [] OTHER -> Goto("keys") /\ UNCHANGED boot_into_recovery
    /\ UNCHANGED <<storage, msg, polls, history, marker, resetting, machine, cuts, faults>>

\* Every 50 ms: power for fastboot, else up for recovery.
poll_keys ==
    /\ LK("keys")
    /\ \/ polls < Polls /\ Goto("fastboot") /\ UNCHANGED <<polls, boot_into_recovery>>
       \/ polls < Polls /\ Goto("message") /\ boot_into_recovery' = TRUE /\ UNCHANGED polls
       \/ polls < Polls /\ polls' = polls + 1 /\ UNCHANGED <<boot_pc, boot_into_recovery>>
       \/ polls = Polls /\ Goto("message") /\ UNCHANGED <<polls, boot_into_recovery>>
    /\ UNCHANGED <<storage, msg, history, marker, resetting, machine, cuts, faults>>

-----------------------------------------------------------------------------
(* recovery_init.                                                           *)

\* A message that cannot be read, or is no message, means a normal boot.
get_recovery_message ==
    /\ LK("message")
    /\ \/ /\ misc \in Messages
          /\ msg' = misc /\ UNCHANGED faults
          /\ Goto("command")
       \/ misc = Torn /\ msg' = NoMessage /\ UNCHANGED faults /\ Goto("load")
       \/ misc \in Messages /\ msg' = NoMessage /\ Spend(1) /\ Goto("load")
    /\ UNCHANGED <<storage, polls, boot_into_recovery, history, marker, resetting, machine, cuts>>

\* Fault: the command stays in the message.
recovery_command_Kept ==
    /\ LK("command")
    /\ CASE msg.command = "boot-recovery" ->
              msg' = [msg EXCEPT !.status = "OKAY"] /\ Goto("clear")
         [] msg.command = "update-radio" -> Goto("header") /\ UNCHANGED msg
         [] OTHER -> Goto("load") /\ UNCHANGED msg
    /\ UNCHANGED <<storage, polls, boot_into_recovery, history, marker, resetting, machine, cuts,
                   faults>>

\* The command is cleared before it is followed; whatever the status was, it
\* becomes OKAY.
recovery_command ==
    /\ LK("command")
    /\ CASE msg.command = "boot-recovery" ->
              msg' = [command |-> "none", status |-> "OKAY"] /\ Goto("clear")
         [] msg.command = "update-radio" -> Goto("header") /\ UNCHANGED msg
         [] OTHER -> Goto("load") /\ UNCHANGED msg
    /\ UNCHANGED <<storage, polls, boot_into_recovery, history, marker, resetting, machine, cuts,
                   faults>>

Report(s) == msg' = [command |-> "boot-recovery", status |-> s] /\ Goto("report")

read_update_header_for_bootloader ==
    /\ LK("header")
    /\ \/ cache = "update" /\ Goto("update") /\ UNCHANGED <<msg, faults>>
       \/ cache = "invalid" /\ Report("invalid-update") /\ UNCHANGED faults
       \/ cache = "update" /\ Spend(1) /\ Report("invalid-update")
    /\ UNCHANGED <<storage, polls, boot_into_recovery, history, marker, resetting, machine, cuts>>

\* Fault: what flash_write says is not looked at.
update_firmware_image_Blind ==
    /\ \/ /\ LK("update") /\ fota' = "torn" /\ Goto("updating") /\ UNCHANGED <<msg, faults>>
       \/ /\ LK("updating") /\ fota' = "new" /\ Report("OKAY") /\ UNCHANGED faults
       \/ /\ LK("updating") /\ fota' = "torn" /\ Spend(1) /\ Report("OKAY")
    /\ UNCHANGED <<misc, cache, image, polls, boot_into_recovery, history, marker, resetting,
                   machine, cuts>>

\* The image is read from the cache and written to the FOTA partition.
update_firmware_image ==
    /\ \/ /\ LK("update") /\ fota' = "torn" /\ Goto("updating") /\ UNCHANGED <<msg, faults>>
       \/ /\ LK("update") /\ Spend(1) /\ Report("failed-update") /\ UNCHANGED fota
       \/ /\ LK("updating") /\ fota' = "new" /\ Report("OKAY") /\ UNCHANGED faults
       \/ /\ LK("updating") /\ fota' = "torn" /\ Spend(1) /\ Report("failed-update")
    /\ UNCHANGED <<misc, cache, image, polls, boot_into_recovery, history, marker, resetting,
                   machine, cuts>>

\* The partition is read, and written back with the message in it.  Nobody
\* looks at the result.
set_recovery_message(set, setting, then) ==
    /\ \/ /\ LK(set) /\ misc' = Torn /\ Goto(setting)
          /\ UNCHANGED <<history, boot_into_recovery, faults>>
       \/ /\ LK(set) /\ Spend(1) /\ Goto(then)
          /\ unset' = TRUE /\ boot_into_recovery' = TRUE /\ UNCHANGED <<misc, told, verdict>>
       \/ /\ LK(setting) /\ misc' = msg /\ Goto(then)
          /\ told' = (told \/ msg.status \in {"failed-update", "invalid-update"})
          /\ verdict' = IF setting = "reporting" THEN msg.status ELSE verdict
          /\ boot_into_recovery' = TRUE /\ UNCHANGED <<unset, faults>>
       \/ /\ LK(setting) /\ Spend(1) /\ Goto(then)
          /\ unset' = TRUE /\ boot_into_recovery' = TRUE /\ UNCHANGED <<misc, told, verdict>>
    /\ UNCHANGED <<fota, cache, image, msg, polls, marker, resetting, machine, cuts>>

clear_command == set_recovery_message("clear", "clearing", "load")
report_update == set_recovery_message("report", "reporting", "reboot")

\* reboot_device writes the marker, and platform_exit, on its way to
\* dex_reboot, clears it again.  The reset comes a little later: the caller
\* goes on.
Reboot(then) == marker' = "none" /\ resetting' = TRUE /\ Goto(then)

recovery_reboot ==
    /\ LK("reboot")
    /\ Reboot("load")
    /\ UNCHANGED <<storage, msg, polls, boot_into_recovery, history, machine, cuts, faults>>

machine_reset ==
    /\ resetting
    /\ resetting' = FALSE /\ machine' = "lk" /\ boot_pc' = "reason"
    /\ polls' = 0 /\ msg' = NoMessage /\ boot_into_recovery' = FALSE
    /\ UNCHANGED <<storage, history, marker, cuts, faults>>

-----------------------------------------------------------------------------
(* boot_linux_from_flash and fastboot.                                      *)

Chosen == IF boot_into_recovery THEN "recovery" ELSE "boot"

\* The machine is left as Linux expects it, the marker cleared.
boot_linux(what) == machine' = what /\ Goto("gone") /\ marker' = "none"

\* Fault: when nothing can be loaded there is nothing left to do.
boot_linux_from_flash_NoFastboot ==
    /\ boot_pc \in {"load", "continue"} /\ machine \in {"lk", "fastboot"}
    /\ \/ /\ image[Chosen] \in {"good", "torn"}
          /\ boot_linux(Chosen)
       \/ /\ image[Chosen] # "good"
          /\ Goto("deaf") /\ UNCHANGED <<machine, marker>>
    /\ UNCHANGED <<storage, msg, polls, boot_into_recovery, history, resetting, cuts, faults>>

\* The magic number, the page size and the reads decide; of an image that is
\* not whole the header may be, and pages that cannot be read are passed over.
\* A failed read needs no fault of its own to be counted: it ends in fastboot.
boot_linux_from_flash ==
    /\ \/ LK("load")
       \/ machine = "fastboot" /\ boot_pc = "continue"
    /\ \/ /\ image[Chosen] \in {"good", "torn"}
          /\ boot_linux(Chosen)
       \/ /\ image[Chosen] # "good"
          /\ IF boot_pc = "load" THEN Goto("fastboot") ELSE Goto("deaf")
          /\ UNCHANGED <<machine, marker>>
    /\ UNCHANGED <<storage, msg, polls, boot_into_recovery, history, resetting, cuts, faults>>

enter_fastboot ==
    /\ LK("fastboot")
    /\ machine' = "fastboot" /\ Goto("listening")
    /\ UNCHANGED <<storage, msg, polls, boot_into_recovery, history, marker, resetting, cuts, faults>>

Listening == machine = "fastboot" /\ boot_pc = "listening"

\* An image without the magic number is refused; the write may fail.
cmd_flash(p) ==
    /\ Listening
    /\ \/ image' = [image EXCEPT ![p] = "good"] /\ UNCHANGED faults
       \/ image' = [image EXCEPT ![p] = "torn"] /\ Spend(1)
    /\ UNCHANGED <<misc, fota, cache, ram, history, marker, resetting, machine, cuts>>

\* A block that cannot be erased is passed over, and the erase reported as done: the
\* old image may still be there, or its first page with less behind it.
cmd_erase(p) ==
    /\ Listening
    /\ \/ image' = [image EXCEPT ![p] = "foreign"] /\ UNCHANGED faults
       \/ /\ image[p] # "foreign" /\ Spend(1)
          /\ image' \in {image, [image EXCEPT ![p] = "torn"]}
    /\ UNCHANGED <<misc, fota, cache, ram, history, marker, resetting, machine, cuts>>

\* The image that was downloaded; its size is not really tested.
cmd_boot ==
    /\ Listening
    /\ boot_linux("boot")
    /\ UNCHANGED <<storage, msg, polls, boot_into_recovery, history, resetting, cuts, faults>>

\* The controller is stopped first: if nothing can be booted, nobody listens.
cmd_continue ==
    /\ Listening
    /\ Goto("continue")
    /\ UNCHANGED <<storage, msg, polls, boot_into_recovery, history, marker, resetting, machine,
                   cuts, faults>>

\* reboot and reboot-bootloader come to the same.
cmd_reboot ==
    /\ Listening
    /\ Reboot("rebooting")
    /\ UNCHANGED <<storage, msg, polls, boot_into_recovery, history, machine, cuts, faults>>

-----------------------------------------------------------------------------
(* What runs in the meantime.                                               *)

\* Linux leaves a message for the boot loader, if there is none yet, and an
\* update in the cache.
os_asks(c) ==
    /\ machine = "boot"
    /\ misc # Torn => misc.command = "none"
    /\ misc' = [command |-> c, status |-> "none"]
    /\ cache' \in {"update", "invalid"}
    /\ verdict' = "none"
    /\ UNCHANGED <<fota, image, ram, marker, resetting, machine, told, unset, cuts, faults>>

\* Linux or recovery restarts the device, by way of a marker or not.
os_reboots(m) ==
    /\ machine \in {"boot", "recovery"} /\ ~resetting
    /\ marker' = m /\ resetting' = TRUE
    /\ UNCHANGED <<storage, ram, history, machine, cuts, faults>>

cut ==
    /\ machine # "off" /\ cuts < MaxCuts
    /\ cuts' = cuts + 1 /\ machine' = "off" /\ resetting' = FALSE
    /\ unset' = (unset \/ LK("reporting") \/ LK("clearing"))
    /\ UNCHANGED <<storage, ram, told, verdict, marker, faults>>

-----------------------------------------------------------------------------
BInit ==
    /\ misc \in {NoMessage, Torn} /\ fota = "old" /\ cache = "invalid"
    /\ image \in [Parts -> {"good", "foreign"}]
    /\ marker = "none" /\ boot_pc = "reason" /\ msg = NoMessage /\ polls = 0
    /\ boot_into_recovery = FALSE /\ resetting = FALSE /\ machine = "off"
    /\ told = FALSE /\ verdict = "none" /\ unset = FALSE /\ cuts = 0 /\ faults = 0

Loader == \/ power_on \/ get_boot_reason \/ poll_keys \/ get_recovery_message
          \/ recovery_command \/ read_update_header_for_bootloader
          \/ update_firmware_image \/ clear_command \/ report_update \/ recovery_reboot
          \/ boot_linux_from_flash \/ enter_fastboot

BNext ==
    \/ Loader \/ machine_reset \/ cut
    \/ \E p \in Parts : cmd_flash(p) \/ cmd_erase(p)
    \/ cmd_boot \/ cmd_continue \/ cmd_reboot
    \/ \E c \in MessageCommands : os_asks(c)
    \/ \E m \in {"none", "fastboot", "recovery"} : os_reboots(m)

\* The processor goes on and the reset line works.
BootSpec == BInit /\ [][BNext]_bvars /\ WF_bvars(Loader) /\ WF_bvars(machine_reset)

-----------------------------------------------------------------------------
BootTypeOK ==
    /\ misc \in Messages \cup {Torn} /\ fota \in {"old", "new", "torn"}
    /\ cache \in {"update", "invalid"} /\ image \in [Parts -> {"good", "foreign", "torn"}]
    /\ marker \in {"none", "fastboot", "recovery"} /\ msg \in Messages
    /\ polls \in 0 .. Polls /\ boot_into_recovery \in BOOLEAN /\ resetting \in BOOLEAN
    /\ machine \in {"off", "lk", "boot", "recovery", "fastboot"}

\* Half of a radio's firmware never stays behind unnoticed: as long as the FOTA
\* partition is torn the message still asks for the update, so that the next
\* boot does it again, or a failure was reported; unless a power cut or the
\* chip spoiled the message too.
FotaCovered ==
    fota = "torn" => told \/ unset \/ LK("reporting") \/ misc.command = "update-radio"

\* The boot's types, and the update covered.
BootInv == BootTypeOK /\ FotaCovered

\* "to safe against multiple reboot into recovery" (recovery.c:240): when
\* recovery is started, the message no longer asks for it, unless the chip
\* failed or the reset is still to come.
RecoveryOnce ==
    [][machine' = "recovery" /\ machine = "lk" /\ ~resetting =>
           misc.command # "boot-recovery" \/ faults > 0]_bvars

\* Every boot ends with something running, also after updates, reboots and
\* power cuts: it does not go round for ever.
BootEnds == machine \in {"off", "lk"} ~> machine \notin {"off", "lk"}

\* recovery.c:207: if the update failed, status="failed-update"; that is what
\* recovery then finds in the message.
FailureReported ==
    (machine = "recovery" /\ verdict = "failed-update" /\ misc # Torn) =>
        misc.status = "failed-update"

=============================================================================
