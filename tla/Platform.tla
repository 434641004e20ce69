------------------------------- MODULE Platform -------------------------------
(***************************************************************************)
(* The platform's drivers and the kernel heap, side by side.  They share no *)
(* state and do not call one another here: each behaviour is one of a       *)
(* single machine, chosen at its start, while the variables of the others   *)
(* stand still.                                                             *)
(***************************************************************************)
EXTENDS Heap

CONSTANTS
    Lengths, Retries, MaxTrouble,                                      \* I2C
    DexCallers, Targets, Vregs, MaxCommands,                              \* DEX
    QupLists, OutBlock, OutFifo, MaxBad,                               \* QUP
    ClockUsers, Clocks, Rated,                                         \* clocks
    Pins, Samples, LoopLimit,                                          \* keys
    Drivers, ClockIds,                                                 \* modem
    ScreenUsers, ScreenHandlers, width, height, FONT_WIDTH, FONT_HEIGHT, MaxPosition,
    noutputs, ninputs, Wired,                                          \* keypad
    MaxLevel, LowBytes, Low, High, Patience,                               \* battery
    DelayHandlers, Usecs, Msecs, PerMsec, MaxDelays,                   \* delays
    BufferSize, MaxArgs, Blocks,                                       \* command line
    Formats, Lens,                                                     \* printf
    MaxString, MaxEndpoint, Strings, MaxStarts                         \* USB

\* The names that stand for no thread are not threads, and delays are numbers.
ASSUME DriversAssumption ==
    /\ "free" \notin DexCallers
    /\ "no one" \notin Drivers
    /\ "thread" \notin DelayHandlers /\ "nobody" \notin ClockUsers
    /\ Usecs \subseteq Int /\ Msecs \subseteq Int /\ PerMsec \in Int

\* The counts of a transfer and its retries are numbers.
ASSUME I2cAssumption == Lengths \subseteq Nat /\ Retries \in Nat

ASSUME BatteryAssumption ==
    /\ MaxLevel \in Nat /\ LowBytes \in Nat \ {0}
    /\ Low \in Nat /\ High \in Nat /\ Patience \in Nat

\* Pins have numbers, and each key of the matrix is at a crossing.
ASSUME KeysAssumption ==
    /\ Pins \subseteq Nat /\ Samples \in Nat \ {0}
    /\ noutputs \in Nat /\ ninputs \in Nat \ {0}
    /\ \A k \in Wired : \E o \in 0 .. noutputs - 1, i \in 0 .. ninputs - 1 : k = o * ninputs + i

\* The panels have a column of cells or more and more than one whole row, and
\* nothing below the last (800 and 480 lines, font_8x8.h), and printers are threads
\* or handlers.
ASSUME ScreenAssumption ==
    /\ width \in Nat /\ height \in Nat /\ FONT_WIDTH \in Nat \ {0} /\ FONT_HEIGHT \in Nat \ {0}
    /\ FONT_WIDTH < width /\ FONT_HEIGHT < height /\ height % FONT_HEIGHT = 0
    /\ IsFiniteSet(ScreenUsers) /\ ScreenUsers \cap ScreenHandlers = {}

\* The end of a line fits the buffer, and a word the array.
ASSUME LineAssumption == BufferSize \in Nat /\ BufferSize >= 2 /\ MaxArgs \in Nat \ {0}

\* No pair of endpoints is NULL.
ASSUME UsbAssumption ==
    /\ MaxString \in Nat /\ MaxEndpoint \in Nat
    /\ Strings \in Seq(STRING)
    /\ NULL \notin ((0 .. MaxEndpoint) \X {"in", "out"}) \X ((0 .. MaxEndpoint) \X {"in", "out"})

VARIABLES
    machine,
    caller, dev, sent, got, reg, bus, rd, shifted, error, irq, held, trouble,     \* I2C
    target, box, dex_mutex, call, a9, done, refcnt, halt, calls,                  \* DEX
    qup, stream, inbuf, avail, owed, bad,                                         \* QUP
    regs, clk_mutex, work, latch, serving, state, is_enabled, on,                 \* clocks
    in, int_pos, int_status, int_en, vic, isr, key_bitmap,                        \* keys
    words, modem, holder, asks, served,                                           \* modem
    printing, x, y, printer, loaded,                                              \* screen
    pressed, gpio_out, current_output, timer, full_scan, keys_pressed, init, moved,  \* keypad
    voltage, cable, drifted, charger, looping, s0, s1, failed, power, cycles, looks,  \* battery
    gpt, ticking, until, within, passed, disturbed, delays,                         \* delays
    buffer, pos, escape_level, doing, scan, arg, args, matched, shown,              \* command line
    format, size, fmt, vararg, flags, format_num, reading, str, stored,             \* printf
    the_device, the_gadget, desc_list, next_string_id, desc, ept_alloc_table,       \* USB
    ept_list, usb_clocks, int_handler, USB_USBINTR, unmasked, pullup, bringup, starts

I == INSTANCE MsmI2c
D == INSTANCE Dex WITH Callers <- DexCallers, MaxCalls <- MaxCommands
Q == INSTANCE Qup
C == INSTANCE Clock WITH Threads <- ClockUsers
K == INSTANCE Keys
P == INSTANCE Pcom
F == INSTANCE Fbcon WITH Threads <- ScreenUsers, Handlers <- ScreenHandlers, at <- printer
M == INSTANCE Keypad WITH held <- pressed, caller <- init
B == INSTANCE Battery WITH Byte <- LowBytes, at <- looping, no_charger_cycles <- cycles
T == INSTANCE Delay WITH Handlers <- DelayHandlers, count <- gpt, enabled <- ticking
L == INSTANCE Console WITH state <- scan
R == INSTANCE Printf WITH len <- size
U == INSTANCE UdcStart WITH MaxCalls <- MaxStarts, clocks <- usb_clocks, within <- bringup,
                            calls <- starts

Machines == {"heap", "i2c", "dex", "qup", "clock", "keys", "modem", "screen", "keypad", "battery",
             "delay", "line", "printf", "usb"}

i2c == <<caller, dev, sent, got, reg, bus, rd, shifted, error, irq, held, trouble>>
dex == <<target, box, dex_mutex, call, a9, done, refcnt, halt, calls>>
qupi2c == <<qup, stream, inbuf, avail, owed, bad>>
clock == <<regs, clk_mutex, work, latch, serving, state, is_enabled, on>>
keys == <<in, int_pos, int_status, int_en, vic, isr, key_bitmap>>
modems == <<words, modem, holder, asks, served>>
screen == <<printing, x, y, printer, loaded>>
keypad == <<pressed, gpio_out, current_output, timer, full_scan, keys_pressed, init, moved>>
battery == <<voltage, cable, drifted, charger, looping, s0, s1, failed, power, cycles, looks>>
delay == <<gpt, ticking, until, within, passed, disturbed, delays>>
line == <<buffer, pos, escape_level, doing, scan, arg, args, matched, shown>>
printf == <<format, size, fmt, vararg, flags, format_num, reading, str, stored>>
usb == <<the_device, the_gadget, desc_list, next_string_id, desc, ept_alloc_table, ept_list,
         usb_clocks, int_handler, USB_USBINTR, unmasked, pullup, bringup, starts>>
allvars == <<machine, vars, i2c, dex, qupi2c, clock, keys, modems, screen, keypad, battery,
             delay, line, printf, usb>>

\* The machines that stand still have one initial state each.
PlatformInit ==
    /\ machine \in Machines
    /\ Init /\ I!I2cInit /\ Q!QupInit /\ P!PcomInit /\ T!DelayInit /\ L!ConsoleInit
    /\ D!DexInit /\ (machine # "dex" => target = "msm7200a")
    /\ C!ClkInit /\ (machine # "clock" => regs["CLAMP"] = {})
    /\ K!KeyInit /\ (machine # "keys" => in = {})
    /\ F!FbconInit /\ (machine # "screen" => printing = ScreenUsers)
    /\ M!KeypadInit /\ (machine # "keypad" => pressed = {})
    /\ B!BatteryInit /\ (machine # "battery" => voltage = 0 /\ ~cable /\ ~charger)
    /\ U!UdcStartInit /\ (machine # "usb" => ~USB_USBINTR /\ ~pullup)
    /\ IF machine = "printf" THEN R!PrintfInit
       ELSE /\ format = <<>> /\ size = 2 /\ fmt = 0 /\ vararg = 0 /\ flags = {}
            /\ format_num = 0 /\ reading = "text" /\ str = <<>> /\ stored = <<>>

Still(m, v) == IF machine = m THEN TRUE ELSE UNCHANGED v

\* The machine that was chosen moves, alone.
Only(m) == /\ machine = m /\ UNCHANGED machine
           /\ Still("heap", vars) /\ Still("i2c", i2c) /\ Still("dex", dex)
           /\ Still("qup", qupi2c) /\ Still("clock", clock) /\ Still("keys", keys)
           /\ Still("modem", modems) /\ Still("screen", screen) /\ Still("keypad", keypad)
           /\ Still("battery", battery) /\ Still("delay", delay) /\ Still("line", line)
           /\ Still("printf", printf) /\ Still("usb", usb)

PlatformNext ==
    \/ Only("heap") /\ Next
    \/ Only("i2c") /\ I!I2cNext
    \/ Only("dex") /\ D!DexNext
    \/ Only("qup") /\ Q!QupNext
    \/ Only("clock") /\ C!ClkNext
    \/ Only("keys") /\ K!KeyNext
    \/ Only("modem") /\ P!PcomNext
    \/ Only("screen") /\ F!FbconNext
    \/ Only("keypad") /\ M!KeypadNext
    \/ Only("battery") /\ B!BatteryNext
    \/ Only("delay") /\ T!DelayNext
    \/ Only("line") /\ L!ConsoleNext
    \/ Only("printf") /\ R!PrintfNext
    \/ Only("usb") /\ U!UdcStartNext

\* The fairness of the machine that was chosen.
PlatformFairness ==
    /\ WF_allvars(Only("i2c") /\ I!msm_i2c_isr)
    /\ WF_allvars(Only("i2c") /\ I!Calling)
    /\ WF_allvars(Only("i2c") /\ I!Shifting)
    /\ WF_allvars(Only("dex") /\ D!a9_init)
    /\ \A t \in DexCallers :
          /\ WF_allvars(Only("dex") /\ D!Calling(t))
          /\ WF_allvars(Only("dex") /\ D!wait_times_out(t))
    /\ WF_allvars(Only("keypad") /\ M!gpio_keypad_init)
    /\ WF_allvars(Only("keypad") /\ M!gpio_keypad_timer_func)
    /\ WF_allvars(Only("keypad") /\ M!event_wait)
    /\ WF_allvars(Only("delay") /\ T!period)
    /\ \A c \in T!Callers : WF_allvars(Only("delay") /\ T!Delaying(c))

PlatformSpec == PlatformInit /\ [][PlatformNext]_allvars /\ PlatformFairness

-----------------------------------------------------------------------------
\* msm_i2c.c: the interrupt handler stays within the messages of a caller that waits
\* for it, and a transfer that is reported done moved every byte, in order.
I2cWhole == I!I2cInBounds /\ I!I2cMoved

\* dex_comm.c, proc_comm.c, timer.c, board_htckovsky.c: a caller goes on only when what
\* it waited for has come: the answer to its own command, carried out with its own
\* data, not the late answer to another; the time of its delay; enough of a battery.
WaitsRight == /\ D!AnsweredWasDone /\ P!ClockCallDone /\ T!DelayLongEnough
              /\ B!BootsCharged /\ B!ShutDownIsAlone

\* msm_i2c.c, dex_comm.c, gpio_keypad.c, timer.c: a transfer ends after its retries
\* at the latest, a command whether the ARM9 answers it, is late or never does, the
\* start-up of the keypad with the first scan, and a delay that is left alone.
DriversReturn == /\ machine = "i2c" => I!I2cEnds
                 /\ machine = "dex" => D!CommandEnds
                 /\ machine = "keypad" => M!KeypadInitEnds
                 /\ machine = "delay" => T!DelayEnds

\* platform/msm7200a/clock.c: no rail drives the chip without power, and no clock that is
\* enabled is lost to a call for another that shares its registers.
ClocksInOrder == C!RailsInOrder /\ C!EnabledRuns

\* gpio.c, gpio_keys.c, keys.c, gpio_keypad.c: no key that was let go of stays held,
\* and a scan of the matrix finds every key that rests.
KeysRight == K!NoStuckKey /\ M!ScanIsRight /\ M!OneOutput

\* fbcon.c: printers that get into one another's way leave the screen in order.
ScreenInOrder == F!BackOnScreen /\ F!GlyphsInFrame

\* console.c: a line that is typed, with its end, fits its buffer, and the words that
\* are found in it the array of arguments.
LineInBounds == L!LineFits

\* msm_i2c.c, fbcon.c, console.c: what several sides count, the bytes of a transfer, the
\* cells of the screen, the characters of a line, never runs out of its bounds.
BoardRight == I2cWhole /\ ScreenInOrder /\ LineInBounds

\* i2c_qup.c, printf.c, console.c: what is handed on is what was given: the messages
\* through the QUP's FIFO, two bytes at a time and in order; what is printed, which
\* fits its buffer and is whole if it can be; and to a command the words that the
\* terminal shows.
DataWhole == Q!MessagesWhole /\ R!PrintsInBuffer /\ R!PrintsWhole /\ L!RunsWhatIsShown

\* hsusb.c: the controller's interrupt is let in when there is all it needs, and a
\* host is given the strings that the descriptors name.
UsbServed == U!ServedWhenReady /\ U!StringsFound /\ U!EndpointsApart

=============================================================================
